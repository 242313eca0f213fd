---------------------------- MODULE RoomsProofs ----------------------------
(***************************************************************************)
(* For every number of rooms, providers and websockets, in StrictMode or   *)
(* not: a mounted room has its provider, and nothing is left of the        *)
(* others, unless the application does one of the three things of which    *)
(* TLC shows that the code does not survive them.                          *)
(***************************************************************************)
EXTENDS Rooms, FiniteSetTheorems, FunctionTheorems, SequenceTheorems, TLAPS

\* The states that effects work on.
States == [rooms : [RoomSlots -> Room], providers : [Providers -> Provider],
           map : [Sockets -> [Names -> Providers \cup {None}]], timers : Seq(Timer)]

Placed(s, r) == s.rooms[r].props # None
IsComing(s, it) == \E i \in DOMAIN s.timers : s.timers[i].of = it

\* The name of the room, and the one of the provider it has rendered.
NamesOf(s, r) == {s.rooms[r].props.name, s.providers[s.rooms[r].provider].props.name}

SocketOf(c) == IF c.external THEN External ELSE c.ref

\* A room that is not mounted has nothing; one that is has the component's websocket.
RoomsArePlaced(s, c) ==
    \A r \in RoomSlots :
        /\ ~Placed(s, r) => s.rooms[r] = NoRoom
        /\ Placed(s, r) =>
             /\ c.mounted /\ s.rooms[r].socket = SocketOf(c)
             /\ s.rooms[r].provider \in Providers
             /\ s.providers[s.rooms[r].provider].props # None

\* A room without a pending update has its provider attached, and routed.
RenderedIsAttached(s) ==
    \A r \in RoomSlots : (Placed(s, r) /\ s.rooms[r].pending = None) =>
        LET p == s.rooms[r].provider IN
        /\ s.providers[p].props = s.rooms[r].props /\ s.providers[p].socket = s.rooms[r].socket
        /\ s.providers[p].attached /\ ~s.providers[p].destroyed
        /\ s.map[s.rooms[r].socket][s.rooms[r].props.name] = p

\* An update that is pending is a new provider, and the old one is detached.
PendingIsNew(s) ==
    \A r \in RoomSlots : (Placed(s, r) /\ s.rooms[r].pending # None) =>
        LET q == s.rooms[r].pending IN
        /\ s.providers[q].props = s.rooms[r].props /\ s.providers[q].socket = s.rooms[r].socket
        /\ ~s.providers[q].attached /\ ~s.providers[q].destroyed
        /\ ~s.providers[s.rooms[r].provider].attached

\* A websocket finds an attached provider of its own under its own name.
RoutedIsAttached(s) ==
    \A w \in Sockets, n \in Names : s.map[w][n] # None =>
        LET p == s.map[w][n] IN
        s.providers[p].attached /\ s.providers[p].socket = w /\ s.providers[p].props.name = n

\* An attached provider is that of a room, or its deferred destroy is coming.
AttachedIsUsed(s) ==
    \A p \in Providers : s.providers[p].attached =>
        /\ s.providers[p].props # None
        /\ IsComing(s, p) \/ \E r \in RoomSlots : s.rooms[r].provider = p

\* No two rooms have a name in common, the names of their old providers included ...
NamesAreApart(s) ==
    \A r, q \in RoomSlots : (Placed(s, r) /\ Placed(s, q) /\ r # q) =>
        NamesOf(s, r) \cap NamesOf(s, q) = {}

\* ... and none has that of a provider whose deferred destroy is coming.  No component
\* can clear one once its commit is over.
ComingIsUnused(s) ==
    \A i \in DOMAIN s.timers :
        /\ s.timers[i].owner = None
        /\ s.timers[i].of \in Providers =>
             /\ s.providers[s.timers[i].of].props # None
             /\ \A r \in RoomSlots : Placed(s, r) =>
                  s.providers[s.timers[i].of].props.name \notin NamesOf(s, r)

\* A websocket that the component made is its own until its one deferred destroy comes.
SocketsAreOwned(s, c, a) ==
    /\ c.external => c.ref = None
    /\ c.mounted /\ ~c.external => c.ref \in a
    /\ ~c.mounted => c = Closed
    /\ \A w \in a : IsComing(s, w) \/ (c.mounted /\ c.ref = w)
    /\ \A i \in DOMAIN s.timers : s.timers[i].of \in OwnSockets =>
         /\ s.timers[i].of \in a /\ s.timers[i].of # c.ref
         /\ \A j \in DOMAIN s.timers : s.timers[j].of = s.timers[i].of => j = i

\* The inductive invariant, of the state within a commit, the component and its websockets.
Sound(s, c, a) ==
    /\ s \in States /\ c \in Component /\ a \subseteq OwnSockets
    /\ RoomsArePlaced(s, c)
    /\ RenderedIsAttached(s)
    /\ PendingIsNew(s)
    /\ RoutedIsAttached(s)
    /\ AttachedIsUsed(s)
    /\ NamesAreApart(s)
    /\ ComingIsUnused(s)
    /\ SocketsAreOwned(s, c, a)

RoomsInv == strict \in BOOLEAN /\ Sound(Now, component, alive)

-----------------------------------------------------------------------------
LEMMA InvIsTyped == RoomsInv => TypeOK
BY DEF RoomsInv, Sound, States, Now, TypeOK

LEMMA NowFields ==
    Now.rooms = rooms /\ Now.providers = providers /\ Now.map = providerMap /\ Now.timers = timers
BY DEF Now

LEMMA RoomsInitInv == Init => RoomsInv
<1> SUFFICES ASSUME Init PROVE RoomsInv
  OBVIOUS
<1> USE RoomsAssumption DEF Init
<1>1. Now \in States
  <2>1. rooms \in [RoomSlots -> Room]
    BY DEF NoRoom, Room
  <2>2. providers \in [Providers -> Provider]
    BY DEF NoProvider, Provider
  <2>3. providerMap \in [Sockets -> [Names -> Providers \cup {None}]]
    OBVIOUS
  <2>4. timers \in Seq(Timer)
    OBVIOUS
  <2> QED BY <2>1, <2>2, <2>3, <2>4 DEF Now, States
<1>2. component \in Component /\ alive \subseteq OwnSockets
  BY DEF Closed, Component
<1>3. \A r \in RoomSlots : ~Placed(Now, r) /\ Now.rooms[r] = NoRoom
  BY NowFields DEF Placed, NoRoom
<1>4. RoomsArePlaced(Now, component)
  BY <1>3 DEF RoomsArePlaced
<1>5. RenderedIsAttached(Now) /\ PendingIsNew(Now) /\ NamesAreApart(Now)
  BY <1>3 DEF RenderedIsAttached, PendingIsNew, NamesAreApart
<1>6. RoutedIsAttached(Now)
  BY NowFields DEF RoutedIsAttached
<1>7. AttachedIsUsed(Now)
  BY NowFields DEF AttachedIsUsed, NoProvider
<1>8. ComingIsUnused(Now)
  BY NowFields DEF ComingIsUnused
<1>9. SocketsAreOwned(Now, component, alive)
  BY NowFields DEF SocketsAreOwned, Closed
<1> QED BY <1>1, <1>2, <1>4, <1>5, <1>6, <1>7, <1>8, <1>9 DEF RoomsInv, Sound

\* The collection of what nothing refers to takes away nothing that matters.
LEMMA CollectedIsSound ==
    ASSUME NEW s, NEW t \in States, NEW c, NEW a, Sound(s, c, a),
           t.rooms = s.rooms, t.map = s.map, t.timers = s.timers,
           t.providers = [p \in Providers |-> IF Kept(s, p) THEN s.providers[p] ELSE NoProvider]
    PROVE  Sound(t, c, a)
<1> USE RoomsAssumption
<1>1. \A p \in Providers : Kept(s, p) => t.providers[p] = s.providers[p]
  OBVIOUS
<1>2. \A p \in Providers : t.providers[p].attached => s.providers[p].attached /\ t.providers[p] = s.providers[p]
  BY DEF NoProvider, Kept
<1>3. \A r \in RoomSlots : /\ s.rooms[r].provider \in Providers => Kept(s, s.rooms[r].provider)
                           /\ s.rooms[r].pending \in Providers => Kept(s, s.rooms[r].pending)
  BY DEF Kept
<1>4. \A i \in DOMAIN s.timers : s.timers[i].of \in Providers => Kept(s, s.timers[i].of)
  BY DEF Kept
<1>5. \A w \in Sockets, n \in Names : s.map[w][n] # None => s.map[w][n] \in Providers /\ Kept(s, s.map[w][n])
  BY DEF Kept, Sound, States
<1>6. \A r \in RoomSlots : Placed(t, r) <=> Placed(s, r)
  BY DEF Placed
<1>7. \A r \in RoomSlots : Placed(s, r) => s.rooms[r].provider \in Providers /\ NamesOf(t, r) = NamesOf(s, r)
  BY <1>1, <1>3 DEF Sound, RoomsArePlaced, NamesOf
<1>8. \A r \in RoomSlots : s.rooms[r].pending \in Providers \cup {None}
  BY DEF Sound, States, Room
<1>9. \A it : IsComing(t, it) <=> IsComing(s, it)
  BY DEF IsComing
<1>10. RoomsArePlaced(t, c)
  BY <1>1, <1>3, <1>6, <1>7 DEF Sound, RoomsArePlaced
<1>11. RenderedIsAttached(t)
  BY <1>1, <1>3, <1>6, <1>7 DEF Sound, RenderedIsAttached
<1>12. PendingIsNew(t)
  BY <1>1, <1>3, <1>6, <1>7, <1>8 DEF Sound, PendingIsNew
<1>13. RoutedIsAttached(t)
  BY <1>1, <1>5 DEF Sound, RoutedIsAttached
<1>14. AttachedIsUsed(t)
  BY <1>2, <1>9 DEF Sound, AttachedIsUsed
<1>15. NamesAreApart(t)
  BY <1>6, <1>7 DEF Sound, NamesAreApart
<1>16. ComingIsUnused(t)
  BY <1>1, <1>4, <1>6, <1>7 DEF Sound, ComingIsUnused
<1>17. SocketsAreOwned(t, c, a)
  BY <1>9 DEF Sound, SocketsAreOwned
<1> QED BY <1>10, <1>11, <1>12, <1>13, <1>14, <1>15, <1>16, <1>17 DEF Sound

-----------------------------------------------------------------------------
(* What the operations of effects do to the parts of the state. *)

LEMMA StatesAreEqual ==
    ASSUME NEW s \in States, NEW t \in States, s.rooms = t.rooms, s.providers = t.providers,
           s.map = t.map, s.timers = t.timers
    PROVE  s = t
BY DEF States

LEMMA RemoveAppended ==
    ASSUME NEW S, NEW q \in Seq(S), NEW e \in S
    PROVE  RemoveAt(Append(q, e), Len(q) + 1) = q
<1> DEFINE n == Len(q)
           t == Append(q, e)
<1>1. n \in Nat /\ t \in Seq(S) /\ Len(t) = n + 1 /\ \A i \in 1 .. n : t[i] = q[i]
  OBVIOUS
<1>2. SubSeq(t, 1, n + 1 - 1) = q
  BY <1>1
<1>3. SubSeq(t, n + 1 + 1, Len(t)) = << >>
  BY <1>1
<1>4. q \o << >> = q
  OBVIOUS
<1> HIDE DEF n, t
<1> QED BY <1>1, <1>2, <1>3, <1>4 DEF RemoveAt, n

LEMMA CreatedFields ==
    ASSUME NEW s \in States, NEW new \in SUBSET RoomSlots, Injection(new, Unused(s)) # {}
    PROVE  LET f == NewProviders(s, new)
               t == Created(s, new)
           IN  /\ t \in States /\ t.map = s.map /\ t.timers = s.timers
               /\ f \in [new -> Unused(s)]
               /\ \A r, q \in new : f[r] = f[q] => r = q
               /\ t.rooms = [r \in RoomSlots |->
                    IF r \in new THEN [s.rooms[r] EXCEPT !.pending = f[r]] ELSE s.rooms[r]]
               /\ \A r \in new : t.providers[f[r]] =
                    [props |-> s.rooms[r].props, socket |-> s.rooms[r].socket, attached |-> FALSE,
                     destroyed |-> FALSE, isAuthenticated |-> FALSE]
               /\ \A p \in Providers : (\A r \in new : f[r] # p) => t.providers[p] = s.providers[p]
<1> DEFINE f == NewProviders(s, new)
           t == Created(s, new)
           Owners(p) == {r \in new : f[r] = p}
           Made(r) == [props |-> s.rooms[r].props, socket |-> s.rooms[r].socket, attached |-> FALSE,
                       destroyed |-> FALSE, isAuthenticated |-> FALSE]
           P == [p \in Providers |-> IF Owners(p) = {} THEN s.providers[p]
                                     ELSE Made(CHOOSE r \in Owners(p) : TRUE)]
           R == [r \in RoomSlots |->
                   IF r \in new THEN [s.rooms[r] EXCEPT !.pending = f[r]] ELSE s.rooms[r]]
<1>1. f \in Injection(new, Unused(s))
  BY DEF NewProviders
<1>2. f \in [new -> Unused(s)] /\ \A r, q \in new : f[r] = f[q] => r = q
  BY <1>1 DEF Injection, IsInjective
<1>3. t = [s EXCEPT !.providers = P, !.rooms = R]
  BY DEF Created
<1>4. t.map = s.map /\ t.timers = s.timers /\ t.rooms = R /\ t.providers = P
  BY <1>3 DEF States
<1>5. \A r \in new : Made(r) \in Provider /\ Made(r) =
         [props |-> s.rooms[r].props, socket |-> s.rooms[r].socket, attached |-> FALSE,
          destroyed |-> FALSE, isAuthenticated |-> FALSE]
  <2> TAKE r \in new
  <2>1. s.rooms[r].props \in Props \cup {None} /\ s.rooms[r].socket \in Sockets \cup {None}
    BY DEF States, Room
  <2>2. Made(r) = [props |-> s.rooms[r].props, socket |-> s.rooms[r].socket, attached |-> FALSE,
                   destroyed |-> FALSE, isAuthenticated |-> FALSE]
    OBVIOUS
  <2>3. Made(r) \in Provider
    BY <2>1, <2>2 DEF Provider
  <2> QED BY <2>2, <2>3
<1>6. \A p \in Providers : Owners(p) # {} => (CHOOSE r \in Owners(p) : TRUE) \in Owners(p)
  OBVIOUS
<1>7. P \in [Providers -> Provider]
  BY <1>5, <1>6 DEF States
<1>8. R \in [RoomSlots -> Room]
  <2> SUFFICES ASSUME NEW r \in RoomSlots PROVE R[r] \in Room
    OBVIOUS
  <2>1. s.rooms[r] \in Room
    BY DEF States
  <2>2. r \in new => f[r] \in Providers
    BY <1>2, Zenon DEF Unused
  <2> QED BY <2>1, <2>2 DEF Room
<1>9. t \in States
  BY <1>3, <1>7, <1>8, Zenon DEF States
<1>10. \A r \in new : P[f[r]] = Made(r)
  <2> TAKE r \in new
  <2>1. f[r] \in Providers /\ Owners(f[r]) = {r}
    BY <1>2 DEF Unused
  <2> QED BY <2>1
<1>11. \A p \in Providers : (\A r \in new : f[r] # p) => P[p] = s.providers[p]
  OBVIOUS
<1> HIDE DEF f, t, Made, P, R, Owners
<1>12. \A r \in new : t.providers[f[r]] =
         [props |-> s.rooms[r].props, socket |-> s.rooms[r].socket, attached |-> FALSE,
          destroyed |-> FALSE, isAuthenticated |-> FALSE]
  BY <1>4, <1>5, <1>10
<1> USE DEF R
<1> QED BY <1>2, <1>4, <1>9, <1>11, <1>12 DEF f, t

LEMMA DestroyFields ==
    ASSUME NEW s \in States, NEW gone \in SUBSET Providers
    PROVE  LET t == Destroy(s, gone) IN
           /\ t \in States /\ t.rooms = s.rooms /\ t.timers = s.timers
           /\ \A p \in Providers \ gone : t.providers[p] = s.providers[p]
           /\ \A p \in gone : ~t.providers[p].attached /\ t.providers[p].props = s.providers[p].props
           /\ \A w \in Sockets, n \in Names :
                /\ (\E p \in gone : s.providers[p].socket = w /\ s.providers[p].props.name = n)
                     => t.map[w][n] = None
                /\ (~\E p \in gone : s.providers[p].socket = w /\ s.providers[p].props.name = n)
                     => t.map[w][n] = s.map[w][n]
<1> DEFINE P == [p \in Providers |->
                IF p \in gone THEN [s.providers[p] EXCEPT !.destroyed = TRUE, !.attached = FALSE]
                ELSE s.providers[p]]
           Forgotten(w, n) == \E p \in gone : s.providers[p].socket = w /\ s.providers[p].props.name = n
           M == [w \in Sockets |-> [n \in Names |-> IF Forgotten(w, n) THEN None ELSE s.map[w][n]]]
           t == Destroy(s, gone)
<1>1. t = [s EXCEPT !.providers = P, !.map = M]
  BY DEF Destroy
<1>2. P \in [Providers -> Provider]
  BY DEF States, Provider
<1>3. M \in [Sockets -> [Names -> Providers \cup {None}]]
  BY DEF States
<1>4. \A p \in Providers \ gone : P[p] = s.providers[p]
  OBVIOUS
<1>5. \A p \in gone : ~P[p].attached /\ P[p].props = s.providers[p].props
  <2> TAKE p \in gone
  <2>1. s.providers[p] \in Provider
    BY DEF States
  <2> QED BY <2>1 DEF Provider
<1>6. \A w \in Sockets, n \in Names : M[w][n] = IF Forgotten(w, n) THEN None ELSE s.map[w][n]
  OBVIOUS
<1> HIDE DEF P, M, Forgotten
<1>7. t \in States /\ t.rooms = s.rooms /\ t.timers = s.timers /\ t.providers = P /\ t.map = M
  BY <1>1, <1>2, <1>3 DEF States
<1>8. \A w \in Sockets, n \in Names : t.map[w][n] = IF Forgotten(w, n) THEN None ELSE s.map[w][n]
  BY <1>6, <1>7
<1> QED BY <1>4, <1>5, <1>7, <1>8 DEF Forgotten

LEMMA AttachFields ==
    ASSUME NEW s \in States, NEW p \in Providers, ~s.providers[p].attached,
           s.providers[p].props \in Props, s.providers[p].socket \in Sockets,
           s.map[s.providers[p].socket][s.providers[p].props.name] = None
    PROVE  LET t == Attach(s, p) IN
           /\ t \in States /\ t.rooms = s.rooms /\ t.timers = s.timers
           /\ t.providers = [s.providers EXCEPT ![p].attached = TRUE]
           /\ t.map = [s.map EXCEPT ![s.providers[p].socket][s.providers[p].props.name] = p]
<1> DEFINE P == [s.providers EXCEPT ![p].attached = TRUE]
           M == [s.map EXCEPT ![s.providers[p].socket][s.providers[p].props.name] = p]
           t == Attach(s, p)
<1>1. t = [s EXCEPT !.providers = P, !.map = M]
  BY DEF Attach, States
<1>2. P \in [Providers -> Provider]
  <2>1. s.providers \in [Providers -> Provider] /\ s.providers[p] \in Provider
    BY DEF States
  <2>2. [s.providers[p] EXCEPT !.attached = TRUE] \in Provider
    BY <2>1 DEF Provider
  <2> QED BY <2>1, <2>2
<1>3. s.providers[p].props.name \in Names
  BY DEF Names
<1>4. M \in [Sockets -> [Names -> Providers \cup {None}]]
  BY <1>3 DEF States
<1> HIDE DEF P, M
<1>5. t \in States /\ t.rooms = s.rooms /\ t.timers = s.timers /\ t.providers = P /\ t.map = M
  BY <1>1, <1>2, <1>4 DEF States
<1> QED BY <1>5 DEF P, M

LEMMA AttachAgain ==
    ASSUME NEW s, NEW p, s.providers[p].attached
    PROVE  Attach(s, p) = s
BY DEF Attach

\* A component that holds no timeout clears none; one that has armed one clears that.
LEMMA ClearNothing ==
    ASSUME NEW s, NEW r, \A i \in DOMAIN s.timers : s.timers[i].owner # r
    PROVE  Clear(s, r) = s
BY DEF Clear, Held

LEMMA ArmFields ==
    ASSUME NEW s \in States, NEW owner \in RoomSlots \cup {None}, NEW it \in Providers \cup OwnSockets
    PROVE  LET t == Arm(s, owner, it) IN
           /\ t \in States /\ t.rooms = s.rooms /\ t.providers = s.providers /\ t.map = s.map
           /\ t.timers = Append(s.timers, [owner |-> owner, of |-> it])
<1> DEFINE T == Append(s.timers, [owner |-> owner, of |-> it])
<1>1. T \in Seq(Timer)
  BY DEF States, Timer
<1>2. Arm(s, owner, it) = [s EXCEPT !.timers = T]
  BY DEF Arm
<1> HIDE DEF T
<1>3. Arm(s, owner, it) \in States /\ Arm(s, owner, it).timers = T
  BY <1>1, <1>2 DEF States
<1> QED BY <1>2, <1>3 DEF T, States

LEMMA ClearArmed ==
    ASSUME NEW s \in States, NEW r \in RoomSlots, NEW p \in Providers,
           \A i \in DOMAIN s.timers : s.timers[i].owner # r
    PROVE  Clear(Cleanup(s, r, p), r) = s
<1> DEFINE t == Arm(s, r, p)
           armed == [owner |-> r, of |-> p]
           n == Len(s.timers)
<1>1. /\ t \in States /\ t.rooms = s.rooms /\ t.providers = s.providers /\ t.map = s.map
      /\ t.timers = Append(s.timers, armed)
  BY ArmFields
<1>2. s.timers \in Seq(Timer) /\ n \in Nat /\ armed \in Timer
  BY DEF States, Timer
<1>3. /\ Len(t.timers) = n + 1 /\ DOMAIN t.timers = 1 .. n + 1 /\ t.timers[n + 1] = armed
      /\ \A i \in 1 .. n : t.timers[i] = s.timers[i] /\ s.timers[i].owner # r
  BY <1>1, <1>2
<1>4. Held(t, r) = {n + 1}
  BY <1>2, <1>3 DEF Held
<1>5. Clear(t, r) = [t EXCEPT !.timers = RemoveAt(t.timers, n + 1)]
  BY <1>4 DEF Clear
<1>6. RemoveAt(t.timers, n + 1) = s.timers
  BY <1>1, <1>2, RemoveAppended
<1>7. Clear(t, r) = s
  BY <1>1, <1>5, <1>6 DEF States
<1> QED BY <1>7 DEF Cleanup

LEMMA OneNewProvider ==
    ASSUME NEW s, NEW r, Unused(s) # {}
    PROVE  Injection({r}, Unused(s)) # {}
<1> PICK u \in Unused(s) : TRUE
  OBVIOUS
<1> DEFINE f == [x \in {r} |-> u]
<1>1. f \in Injection({r}, Unused(s))
  BY DEF Injection, IsInjective
<1> QED BY <1>1

\* A name that is that of no attached provider is free on every websocket.
LEMMA NameIsFree ==
    ASSUME NEW s, NEW c, NEW a, Sound(s, c, a), NEW w \in Sockets, NEW n \in Names,
           \A r \in RoomSlots : LET p == s.rooms[r].provider IN
               (Placed(s, r) /\ s.providers[p].attached) => s.providers[p].props.name # n,
           \A i \in DOMAIN s.timers : s.timers[i].of \in Providers =>
               s.providers[s.timers[i].of].props.name # n
    PROVE  s.map[w][n] = None
<1> SUFFICES ASSUME s.map[w][n] # None PROVE FALSE
  OBVIOUS
<1> DEFINE p == s.map[w][n]
<1>1. p \in Providers
  BY DEF Sound, States
<1>2. s.providers[p].attached /\ s.providers[p].props.name = n
  BY DEF Sound, RoutedIsAttached
<1>3. ~IsComing(s, p)
  BY <1>1, <1>2 DEF IsComing
<1>4. PICK r \in RoomSlots : s.rooms[r].provider = p
  BY <1>1, <1>2, <1>3 DEF Sound, AttachedIsUsed
<1>5. Placed(s, r)
  BY <1>1, <1>4, RoomsAssumption DEF Sound, RoomsArePlaced, NoRoom
<1> QED BY <1>2, <1>4, <1>5

-----------------------------------------------------------------------------
(* What a commit leaves. *)

\* A room renders a provider that nobody else has, and attaches it under a name that
\* nobody else has.
Attaches(s, c, r, props, p, t) ==
    /\ c.mounted /\ SocketOf(c) \in Sockets
    /\ r \in RoomSlots /\ props \in Props /\ p \in Providers /\ t \in States
    /\ ~s.providers[p].attached
    /\ \A q \in RoomSlots : q # r => s.rooms[q].provider # p /\ s.rooms[q].pending # p
    /\ \A i \in DOMAIN s.timers : s.timers[i].of # p
    /\ Placed(s, r) => ~s.providers[s.rooms[r].provider].attached
    /\ \A q \in RoomSlots : (Placed(s, q) /\ q # r) => props.name \notin NamesOf(s, q)
    /\ \A i \in DOMAIN s.timers : s.timers[i].of \in Providers =>
         s.providers[s.timers[i].of].props.name # props.name
    /\ t.rooms = [s.rooms EXCEPT ![r] = [props |-> props, socket |-> SocketOf(c),
                                         provider |-> p, pending |-> None]]
    /\ t.timers = s.timers
    /\ t.providers[p].props = props /\ t.providers[p].socket = SocketOf(c)
    /\ t.providers[p].attached /\ ~t.providers[p].destroyed
    /\ \A q \in Providers : q # p => t.providers[q] = s.providers[q]
    /\ t.map = [s.map EXCEPT ![SocketOf(c)][props.name] = p]

LEMMA AttachedIsSound ==
    ASSUME NEW s, NEW c, NEW a, Sound(s, c, a), NEW r, NEW props, NEW p, NEW t,
           Attaches(s, c, r, props, p, t)
    PROVE  Sound(t, c, a)
<1> USE RoomsAssumption
<1>a. /\ c.mounted /\ SocketOf(c) \in Sockets
      /\ r \in RoomSlots /\ props \in Props /\ p \in Providers /\ t \in States
  BY DEF Attaches
<1>b. /\ ~s.providers[p].attached
      /\ \A q \in RoomSlots : q # r => s.rooms[q].provider # p /\ s.rooms[q].pending # p
      /\ \A i \in DOMAIN s.timers : s.timers[i].of # p
      /\ Placed(s, r) => ~s.providers[s.rooms[r].provider].attached
  BY DEF Attaches
<1>c. /\ \A q \in RoomSlots : (Placed(s, q) /\ q # r) => props.name \notin NamesOf(s, q)
      /\ \A i \in DOMAIN s.timers : s.timers[i].of \in Providers =>
           s.providers[s.timers[i].of].props.name # props.name
  BY DEF Attaches
<1>d. /\ t.rooms = [s.rooms EXCEPT ![r] = [props |-> props, socket |-> SocketOf(c),
                                           provider |-> p, pending |-> None]]
      /\ t.timers = s.timers
  BY DEF Attaches
<1>e. /\ t.providers[p].props = props /\ t.providers[p].socket = SocketOf(c)
      /\ t.providers[p].attached /\ ~t.providers[p].destroyed
      /\ \A q \in Providers : q # p => t.providers[q] = s.providers[q]
  BY DEF Attaches
<1>f. t.map = [s.map EXCEPT ![SocketOf(c)][props.name] = p]
  BY DEF Attaches
<1> USE <1>a
<1>1. /\ s \in States /\ props.name \in Names /\ props # None
      /\ s.rooms \in [RoomSlots -> Room] /\ s.map \in [Sockets -> [Names -> Providers \cup {None}]]
  BY DEF Sound, States, Names
<1>2. \A q \in RoomSlots : q # r =>
        /\ t.rooms[q] = s.rooms[q] /\ (Placed(t, q) <=> Placed(s, q))
        /\ Placed(s, q) => s.rooms[q].provider \in Providers \ {p} /\ NamesOf(t, q) = NamesOf(s, q)
  <2> SUFFICES ASSUME NEW q \in RoomSlots, q # r
               PROVE  /\ t.rooms[q] = s.rooms[q] /\ (Placed(t, q) <=> Placed(s, q))
                      /\ Placed(s, q) => s.rooms[q].provider \in Providers \ {p} /\ NamesOf(t, q) = NamesOf(s, q)
    OBVIOUS
  <2>1. t.rooms[q] = s.rooms[q]
    BY <1>1, <1>d
  <2>2. Placed(s, q) => s.rooms[q].provider \in Providers \ {p}
    BY <1>b DEF Sound, RoomsArePlaced
  <2> QED BY <2>1, <2>2, <1>e DEF Placed, NamesOf
<1>3. t.rooms[r] = [props |-> props, socket |-> SocketOf(c), provider |-> p, pending |-> None]
  BY <1>1, <1>d
<1>4. Placed(t, r) /\ NamesOf(t, r) = {props.name}
  BY <1>1, <1>3, <1>e DEF Placed, NamesOf
<1>5. \A w \in Sockets, n \in Names :
        t.map[w][n] = IF w = SocketOf(c) /\ n = props.name THEN p ELSE s.map[w][n]
  BY <1>1, <1>f
<1>6. \A it : IsComing(t, it) <=> IsComing(s, it)
  BY <1>d DEF IsComing
<1>7. RoomsArePlaced(t, c)
  <2> SUFFICES ASSUME NEW q \in RoomSlots
               PROVE  /\ ~Placed(t, q) => t.rooms[q] = NoRoom
                      /\ Placed(t, q) => /\ c.mounted /\ t.rooms[q].socket = SocketOf(c)
                                         /\ t.rooms[q].provider \in Providers
                                         /\ t.providers[t.rooms[q].provider].props # None
    BY DEF RoomsArePlaced
  <2>1. CASE q = r
    BY <2>1, <1>1, <1>3, <1>4, <1>e
  <2>2. CASE q # r
    BY <2>2, <1>2, <1>e DEF Sound, RoomsArePlaced
  <2> QED BY <2>1, <2>2
<1>8. RenderedIsAttached(t)
  <2> SUFFICES ASSUME NEW q \in RoomSlots, Placed(t, q), t.rooms[q].pending = None
               PROVE  LET x == t.rooms[q].provider IN
                      /\ t.providers[x].props = t.rooms[q].props
                      /\ t.providers[x].socket = t.rooms[q].socket
                      /\ t.providers[x].attached /\ ~t.providers[x].destroyed
                      /\ t.map[t.rooms[q].socket][t.rooms[q].props.name] = x
    BY DEF RenderedIsAttached
  <2>1. CASE q = r
    <3>1. t.map[SocketOf(c)][props.name] = p
      BY <1>1, <1>5
    <3>2. /\ t.rooms[q].provider = p /\ t.rooms[q].props = props /\ t.rooms[q].socket = SocketOf(c)
      BY <2>1, <1>3
    <3> QED BY <3>1, <3>2, <1>e, Zenon
  <2>2. CASE q # r
    <3>1. s.rooms[q].props \in Props /\ s.rooms[q].props.name \in Names
      BY <2>2, <1>1, <1>2 DEF Placed, Room, Names
    <3>2. s.rooms[q].socket = SocketOf(c) /\ s.rooms[q].props.name # props.name
      BY <2>2, <1>2, <1>c DEF Sound, RoomsArePlaced, NamesOf
    <3>3. t.map[s.rooms[q].socket][s.rooms[q].props.name] = s.map[s.rooms[q].socket][s.rooms[q].props.name]
      BY <3>1, <3>2, <1>5
    <3>4. LET x == s.rooms[q].provider IN
          /\ x \in Providers /\ t.providers[x] = s.providers[x]
          /\ s.providers[x].props = s.rooms[q].props /\ s.providers[x].socket = s.rooms[q].socket
          /\ s.providers[x].attached /\ ~s.providers[x].destroyed
          /\ s.map[s.rooms[q].socket][s.rooms[q].props.name] = x
      <4>1. Placed(s, q) /\ s.rooms[q].pending = None
        BY <2>2, <1>2
      <4>2. s.rooms[q].provider \in Providers /\ s.rooms[q].provider # p
        BY <2>2, <4>1, <1>2
      <4>3. t.providers[s.rooms[q].provider] = s.providers[s.rooms[q].provider]
        BY <4>2, <1>e
      <4> QED BY <4>1, <4>2, <4>3 DEF Sound, RenderedIsAttached
    <3>5. t.rooms[q] = s.rooms[q]
      BY <2>2, <1>2
    <3> QED BY <3>3, <3>4, <3>5, Zenon
  <2> QED BY <2>1, <2>2
<1>9. PendingIsNew(t)
  <2> SUFFICES ASSUME NEW q \in RoomSlots, Placed(t, q), t.rooms[q].pending # None
               PROVE  LET x == t.rooms[q].pending IN
                      /\ t.providers[x].props = t.rooms[q].props
                      /\ t.providers[x].socket = t.rooms[q].socket
                      /\ ~t.providers[x].attached /\ ~t.providers[x].destroyed
                      /\ ~t.providers[t.rooms[q].provider].attached
    BY DEF PendingIsNew
  <2>1. q # r
    BY <1>3
  <2>2. s.rooms[q].pending \in Providers \ {p}
    <3>1. s.rooms[q] \in Room /\ t.rooms[q] = s.rooms[q] /\ s.rooms[q].pending # p
      BY <2>1, <1>1, <1>2, <1>b
    <3> QED BY <3>1 DEF Room
  <2>3. t.providers[s.rooms[q].pending] = s.providers[s.rooms[q].pending]
    BY <2>2, <1>e
  <2>4. Placed(s, q) /\ t.rooms[q] = s.rooms[q]
    BY <2>1, <1>2
  <2>5. t.providers[s.rooms[q].provider] = s.providers[s.rooms[q].provider]
    BY <2>1, <2>4, <1>2, <1>e
  <2> QED BY <2>3, <2>4, <2>5 DEF Sound, PendingIsNew
<1>10. RoutedIsAttached(t)
  <2> SUFFICES ASSUME NEW w \in Sockets, NEW n \in Names, t.map[w][n] # None
               PROVE  LET x == t.map[w][n] IN
                      t.providers[x].attached /\ t.providers[x].socket = w /\ t.providers[x].props.name = n
    BY Zenon DEF RoutedIsAttached
  <2>1. CASE w = SocketOf(c) /\ n = props.name
    <3>1. t.map[w][n] = p
      BY <2>1, <1>5
    <3> QED BY <2>1, <3>1, <1>e, Zenon
  <2>2. CASE ~(w = SocketOf(c) /\ n = props.name)
    <3>1. t.map[w][n] = s.map[w][n] /\ s.map[w][n] \in Providers
      BY <2>2, <1>1, <1>5
    <3>2. s.providers[s.map[w][n]].attached
      BY <3>1 DEF Sound, RoutedIsAttached
    <3>3. t.providers[s.map[w][n]] = s.providers[s.map[w][n]]
      BY <3>1, <3>2, <1>b, <1>e
    <3> QED BY <3>1, <3>3 DEF Sound, RoutedIsAttached
  <2> QED BY <2>1, <2>2, Zenon
<1>11. AttachedIsUsed(t)
  <2> SUFFICES ASSUME NEW x \in Providers, t.providers[x].attached
               PROVE  /\ t.providers[x].props # None
                      /\ IsComing(t, x) \/ \E q \in RoomSlots : t.rooms[q].provider = x
    BY DEF AttachedIsUsed
  <2>1. CASE x = p
    BY <2>1, <1>1, <1>3, <1>e
  <2>2. CASE x # p
    <3>1. s.providers[x].attached /\ t.providers[x] = s.providers[x]
      BY <2>2, <1>e
    <3>2. ASSUME s.rooms[r].provider = x PROVE FALSE
      <4>1. Placed(s, r)
        BY <3>2 DEF Sound, RoomsArePlaced, NoRoom
      <4> QED BY <3>1, <3>2, <4>1, <1>b
    <3> QED BY <3>1, <3>2, <1>2, <1>6 DEF Sound, AttachedIsUsed
  <2> QED BY <2>1, <2>2
<1>12. NamesAreApart(t)
  BY <1>2, <1>4, <1>c DEF Sound, NamesAreApart
<1>13. ComingIsUnused(t)
  <2> SUFFICES ASSUME NEW i \in DOMAIN s.timers
               PROVE  /\ s.timers[i].owner = None
                      /\ s.timers[i].of \in Providers =>
                           /\ t.providers[s.timers[i].of].props # None
                           /\ \A q \in RoomSlots : Placed(t, q) =>
                                t.providers[s.timers[i].of].props.name \notin NamesOf(t, q)
    BY <1>d DEF ComingIsUnused
  <2>1. s.timers[i].of \in Providers => t.providers[s.timers[i].of] = s.providers[s.timers[i].of]
    BY <1>b, <1>e
  <2>2. /\ s.timers[i].owner = None
        /\ s.timers[i].of \in Providers =>
             /\ s.providers[s.timers[i].of].props # None
             /\ \A q \in RoomSlots : Placed(s, q) =>
                  s.providers[s.timers[i].of].props.name \notin NamesOf(s, q)
    BY DEF Sound, ComingIsUnused
  <2>3. ASSUME s.timers[i].of \in Providers, NEW q \in RoomSlots, Placed(t, q)
        PROVE  s.providers[s.timers[i].of].props.name \notin NamesOf(t, q)
    <3>1. CASE q = r
      BY <2>3, <3>1, <1>4, <1>c
    <3>2. CASE q # r
      BY <2>2, <2>3, <3>2, <1>2
    <3> QED BY <3>1, <3>2
  <2> QED BY <2>1, <2>2, <2>3
<1>14. SocketsAreOwned(t, c, a)
  BY <1>6, <1>d DEF Sound, SocketsAreOwned
<1> QED BY <1>7, <1>8, <1>9, <1>10, <1>11, <1>12, <1>13, <1>14 DEF Sound

\* Each of the rooms has a provider and no update, renders other props or another
\* websocket, and no other room nor timeout has its new name.
Changes(s, u, changed, d) ==
    /\ \A r \in changed : Placed(s, r) /\ s.rooms[r].pending = None
    /\ Injection(changed, Unused(s)) # {}
    /\ u.providers = s.providers /\ u.map = s.map /\ u.timers = s.timers
    /\ \A r \in RoomSlots \ changed : u.rooms[r] = s.rooms[r]
    /\ \A r \in changed :
         /\ u.rooms[r].props \in Props /\ u.rooms[r].provider = s.rooms[r].provider
         /\ u.rooms[r].props # s.rooms[r].props \/ u.rooms[r].socket # s.rooms[r].socket
         /\ u.rooms[r].pending = None
    /\ \A r, q \in changed : r # q => u.rooms[r].props.name # u.rooms[q].props.name
    /\ \A r \in changed, q \in RoomSlots : (q # r /\ Placed(s, q)) =>
         u.rooms[r].props.name \notin NamesOf(s, q)
    /\ \A r \in changed, i \in DOMAIN s.timers : s.timers[i].of \in Providers =>
         s.providers[s.timers[i].of].props.name # u.rooms[r].props.name
    /\ \A r \in RoomSlots : Placed(s, r) => d.mounted /\ u.rooms[r].socket = SocketOf(d)

\* Rooms that render other props, or another websocket, destroy their providers and have
\* others pending.
LEMMA RecreatedIsSound ==
    ASSUME NEW s, NEW c, NEW a, Sound(s, c, a), NEW u \in States, NEW changed \in SUBSET RoomSlots,
           NEW d \in Component, NEW b \in SUBSET OwnSockets,
           Changes(s, u, changed, d), SocketsAreOwned(s, d, b)
    PROVE  Sound(Recreate(u, changed), d, b)
<1>a. \A r \in changed : Placed(s, r) /\ s.rooms[r].pending = None
  BY DEF Changes
<1>b. Injection(changed, Unused(s)) # {}
  BY DEF Changes
<1>c. u.providers = s.providers /\ u.map = s.map /\ u.timers = s.timers
  BY DEF Changes
<1>d. \A r \in RoomSlots \ changed : u.rooms[r] = s.rooms[r]
  BY DEF Changes
<1>e. \A r \in changed :
        /\ u.rooms[r].props \in Props /\ u.rooms[r].provider = s.rooms[r].provider
        /\ u.rooms[r].props # s.rooms[r].props \/ u.rooms[r].socket # s.rooms[r].socket
        /\ u.rooms[r].pending = None
  BY DEF Changes
<1>f. \A r, q \in changed : r # q => u.rooms[r].props.name # u.rooms[q].props.name
  BY DEF Changes
<1>g. \A r \in changed, q \in RoomSlots : (q # r /\ Placed(s, q)) =>
        u.rooms[r].props.name \notin NamesOf(s, q)
  BY DEF Changes
<1>h. \A r \in changed, i \in DOMAIN s.timers : s.timers[i].of \in Providers =>
        s.providers[s.timers[i].of].props.name # u.rooms[r].props.name
  BY DEF Changes
<1>i. \A r \in RoomSlots : Placed(s, r) => d.mounted /\ u.rooms[r].socket = SocketOf(d)
  BY DEF Changes
<1> DEFINE old(r) == s.rooms[r].provider
           gone == {u.rooms[r].provider : r \in changed}
           v == Destroy(u, gone)
           t == Created(v, changed)
           f == NewProviders(v, changed)
<1>1. /\ s \in States /\ s.rooms \in [RoomSlots -> Room] /\ s.providers \in [Providers -> Provider]
      /\ s.map \in [Sockets -> [Names -> Providers \cup {None}]] /\ u.rooms \in [RoomSlots -> Room]
  BY DEF Sound, States
<1>2. \A r \in changed : /\ old(r) \in Providers /\ u.rooms[r].provider = old(r)
                         /\ s.providers[old(r)].props = s.rooms[r].props
                         /\ s.providers[old(r)].socket = s.rooms[r].socket
                         /\ s.providers[old(r)].attached
                         /\ s.map[s.rooms[r].socket][s.rooms[r].props.name] = old(r)
                         /\ s.rooms[r].socket \in Sockets /\ s.rooms[r].props \in Props
                         /\ s.rooms[r].props.name \in Names
  <2> TAKE r \in changed
  <2>1. Placed(s, r) /\ s.rooms[r].pending = None
    BY <1>a
  <2>2. old(r) \in Providers /\ s.rooms[r].socket = SocketOf(c) /\ c.mounted
    BY <2>1 DEF Sound, RoomsArePlaced
  <2>3. s.rooms[r].socket \in Sockets
    BY <2>2, RoomsAssumption DEF Sound, SocketsAreOwned, SocketOf, Sockets, Component
  <2>4. s.rooms[r].props \in Props
    BY <2>1, <1>1 DEF Placed, Room
  <2>5. LET p == s.rooms[r].provider IN
        /\ s.providers[p].props = s.rooms[r].props /\ s.providers[p].socket = s.rooms[r].socket
        /\ s.providers[p].attached /\ ~s.providers[p].destroyed
        /\ s.map[s.rooms[r].socket][s.rooms[r].props.name] = p
    BY <2>1 DEF Sound, RenderedIsAttached
  <2>6. s.rooms[r].props.name \in Names
    BY <2>4 DEF Names
  <2> QED BY <2>2, <2>3, <2>4, <2>5, <2>6, <1>e
<1>3. gone \in SUBSET Providers /\ gone = {old(r) : r \in changed}
  BY <1>2
<1>4. {r \in changed : LET it == u.providers[u.rooms[r].provider]
                       IN  it.props # u.rooms[r].props \/ it.socket # u.rooms[r].socket} = changed
  BY <1>2, <1>c, <1>e
<1>5. Recreate(u, changed) = t
  BY <1>4 DEF Recreate
<1> HIDE DEF v, gone
<1>6. /\ v \in States /\ v.rooms = u.rooms /\ v.timers = u.timers
      /\ \A p \in Providers \ gone : v.providers[p] = u.providers[p]
      /\ \A p \in gone : ~v.providers[p].attached /\ v.providers[p].props = u.providers[p].props
      /\ \A w \in Sockets, n \in Names :
           /\ (\E p \in gone : u.providers[p].socket = w /\ u.providers[p].props.name = n)
                => v.map[w][n] = None
           /\ (~\E p \in gone : u.providers[p].socket = w /\ u.providers[p].props.name = n)
                => v.map[w][n] = u.map[w][n]
  BY <1>3, DestroyFields DEF v
<1>6a. \A p \in Providers \ gone : v.providers[p] = s.providers[p]
  BY <1>6, <1>c
<1>6b. \A p \in gone : ~v.providers[p].attached /\ v.providers[p].props = s.providers[p].props
  BY <1>6, <1>c
<1>6c. \A w \in Sockets, n \in Names :
         /\ (\E p \in gone : s.providers[p].socket = w /\ s.providers[p].props.name = n)
              => v.map[w][n] = None
         /\ (~\E p \in gone : s.providers[p].socket = w /\ s.providers[p].props.name = n)
              => v.map[w][n] = s.map[w][n]
  BY <1>6, <1>c
<1>7. \A p \in Providers : v.providers[p].props = s.providers[p].props
  BY <1>6a, <1>6b
<1>8. Unused(v) = Unused(s)
  BY <1>7 DEF Unused
<1> HIDE DEF t, f
<1>9. /\ t \in States /\ t.map = v.map /\ t.timers = v.timers
      /\ f \in [changed -> Unused(v)]
      /\ \A r, q \in changed : f[r] = f[q] => r = q
      /\ t.rooms = [r \in RoomSlots |->
           IF r \in changed THEN [v.rooms[r] EXCEPT !.pending = f[r]] ELSE v.rooms[r]]
      /\ \A r \in changed : t.providers[f[r]] =
           [props |-> v.rooms[r].props, socket |-> v.rooms[r].socket, attached |-> FALSE,
            destroyed |-> FALSE, isAuthenticated |-> FALSE]
      /\ \A p \in Providers : (\A r \in changed : f[r] # p) => t.providers[p] = v.providers[p]
  <2>1. v \in States /\ changed \in SUBSET RoomSlots /\ Injection(changed, Unused(v)) # {}
    BY <1>6, <1>8, <1>b
  <2>2. t = Created(v, changed) /\ f = NewProviders(v, changed)
    BY DEF t, f
  <2> QED BY ONLY <2>1, <2>2, CreatedFields
<1>9a. t \in States /\ t.map = v.map /\ t.timers = s.timers
  BY <1>6, <1>9, <1>c
<1>9b. \A r \in changed : /\ ~t.providers[f[r]].attached /\ ~t.providers[f[r]].destroyed
                          /\ t.providers[f[r]].props = u.rooms[r].props
                          /\ t.providers[f[r]].socket = u.rooms[r].socket
  <2> TAKE r \in changed
  <2>1. t.providers[f[r]] = [props |-> v.rooms[r].props, socket |-> v.rooms[r].socket,
                             attached |-> FALSE, destroyed |-> FALSE, isAuthenticated |-> FALSE]
    BY <1>9, Zenon
  <2>2. v.rooms[r] = u.rooms[r]
    BY <1>6
  <2> QED BY <2>1, <2>2
<1>9c. \A p \in Providers : (\A r \in changed : f[r] # p) => t.providers[p] = v.providers[p]
  BY <1>9
<1>9d. t.rooms = [r \in RoomSlots |->
         IF r \in changed THEN [u.rooms[r] EXCEPT !.pending = f[r]] ELSE u.rooms[r]]
  BY <1>6, <1>9
<1>10. \A r \in changed : f[r] \in Providers /\ s.providers[f[r]].props = None
  BY <1>8, <1>9 DEF Unused
\* A provider that was not new is as before, or destroyed.
<1>11. \A p \in Providers : s.providers[p].props # None =>
         t.providers[p] = v.providers[p] /\ t.providers[p].props = s.providers[p].props
  BY <1>7, <1>9c, <1>10
<1>12. \A p \in Providers : (s.providers[p].props # None /\ p \notin gone) => t.providers[p] = s.providers[p]
  BY <1>6a, <1>11
<1>13. \A p \in gone : s.providers[p].props # None /\ ~t.providers[p].attached
  <2> TAKE p \in gone
  <2>1. p \in Providers /\ s.providers[p].attached
    BY <1>2, <1>3
  <2>2. s.providers[p].props # None
    BY <2>1 DEF Sound, AttachedIsUsed
  <2> QED BY <2>1, <2>2, <1>6b, <1>11
<1>14. \A r \in RoomSlots : /\ Placed(t, r) <=> Placed(s, r)
                            /\ t.rooms[r].provider = s.rooms[r].provider
                            /\ t.rooms[r].props = u.rooms[r].props
                            /\ t.rooms[r].socket = u.rooms[r].socket
                            /\ r \notin changed => t.rooms[r] = s.rooms[r]
                            /\ r \in changed => t.rooms[r].pending = f[r]
  <2> TAKE r \in RoomSlots
  <2>1. u.rooms[r] \in Room
    BY <1>1
  <2>2. CASE r \in changed
    <3>1. t.rooms[r] = [u.rooms[r] EXCEPT !.pending = f[r]]
      BY <2>2, <1>9d
    <3>2. /\ t.rooms[r].provider = u.rooms[r].provider /\ t.rooms[r].props = u.rooms[r].props
          /\ t.rooms[r].socket = u.rooms[r].socket /\ t.rooms[r].pending = f[r]
      BY <2>1, <3>1 DEF Room
    <3> QED BY <2>2, <3>2, <1>a, <1>e, RoomsAssumption DEF Placed
  <2>3. CASE r \notin changed
    BY <2>3, <1>9d, <1>d DEF Placed
  <2> QED BY <2>2, <2>3
<1>15. ASSUME NEW r \in RoomSlots, Placed(s, r)
       PROVE
         /\ s.rooms[r].provider \in Providers /\ s.providers[s.rooms[r].provider].props # None
         /\ t.providers[s.rooms[r].provider].props = s.providers[s.rooms[r].provider].props
         /\ NamesOf(t, r) = {u.rooms[r].props.name, s.providers[s.rooms[r].provider].props.name}
  <2>1. s.rooms[r].provider \in Providers /\ s.providers[s.rooms[r].provider].props # None
    BY <1>15 DEF Sound, RoomsArePlaced
  <2>2. t.providers[s.rooms[r].provider].props = s.providers[s.rooms[r].provider].props
    BY <2>1, <1>11, Zenon
  <2> QED BY <2>1, <2>2, <1>14, Zenon DEF NamesOf
<1>16. \A r \in RoomSlots : Placed(s, r) =>
         /\ r \notin changed => NamesOf(t, r) = NamesOf(s, r)
         /\ r \in changed => NamesOf(t, r) = {u.rooms[r].props.name, s.rooms[r].props.name}
  BY <1>2, <1>15, <1>d DEF NamesOf
<1>17. \A it : IsComing(t, it) <=> IsComing(s, it)
  BY <1>9a DEF IsComing
\* The provider of a room that has not changed is none of those destroyed.
<1>18. \A q \in RoomSlots \ changed : Placed(s, q) =>
         /\ s.rooms[q].provider \notin gone
         /\ \A r \in changed : s.rooms[r].props.name \notin NamesOf(s, q)
  <2> TAKE q \in RoomSlots \ changed
  <2> HAVE Placed(s, q)
  <2>1. \A r \in changed : NamesOf(s, r) \cap NamesOf(s, q) = {}
    BY <1>a, Zenon DEF Sound, NamesAreApart
  <2>2. \A r \in changed : s.rooms[r].props.name \notin NamesOf(s, q)
    BY <2>1 DEF NamesOf
  <2>3. \A r \in changed : s.rooms[q].provider # old(r)
    <3> SUFFICES ASSUME NEW r \in changed, s.rooms[q].provider = old(r) PROVE FALSE
      OBVIOUS
    <3>1. s.providers[old(r)].props.name = s.rooms[r].props.name
      BY <1>2
    <3> QED BY <3>1, <2>2 DEF NamesOf
  <2> QED BY <2>2, <2>3, <1>3
<1>19. RoomsArePlaced(t, d)
  <2> SUFFICES ASSUME NEW r \in RoomSlots
               PROVE  /\ ~Placed(t, r) => t.rooms[r] = NoRoom
                      /\ Placed(t, r) => /\ d.mounted /\ t.rooms[r].socket = SocketOf(d)
                                         /\ t.rooms[r].provider \in Providers
                                         /\ t.providers[t.rooms[r].provider].props # None
    BY DEF RoomsArePlaced
  <2>1. ~Placed(t, r) => t.rooms[r] = NoRoom
    BY <1>14, <1>a DEF Sound, RoomsArePlaced
  <2> QED BY <2>1, <1>14, <1>15, <1>i
<1>20. RenderedIsAttached(t)
  <2> SUFFICES ASSUME NEW q \in RoomSlots, Placed(t, q), t.rooms[q].pending = None
               PROVE  LET x == t.rooms[q].provider IN
                      /\ t.providers[x].props = t.rooms[q].props
                      /\ t.providers[x].socket = t.rooms[q].socket
                      /\ t.providers[x].attached /\ ~t.providers[x].destroyed
                      /\ t.map[t.rooms[q].socket][t.rooms[q].props.name] = x
    BY DEF RenderedIsAttached
  <2>1. q \notin changed /\ Placed(s, q) /\ t.rooms[q] = s.rooms[q]
    BY <1>10, <1>14, RoomsAssumption, Zenon
  <2>2. LET x == s.rooms[q].provider IN
        /\ x \in Providers /\ x \notin gone /\ s.providers[x].props = s.rooms[q].props
        /\ s.providers[x].socket = s.rooms[q].socket /\ s.providers[x].attached
        /\ ~s.providers[x].destroyed /\ s.map[s.rooms[q].socket][s.rooms[q].props.name] = x
        /\ t.providers[x] = s.providers[x]
    BY <2>1, <1>12, <1>15, <1>18 DEF Sound, RenderedIsAttached
  <2>3. s.rooms[q].socket \in Sockets /\ s.rooms[q].props.name \in Names
    <3>1. s.rooms[q].props \in Props /\ s.rooms[q].socket = SocketOf(c) /\ c.mounted
      BY <2>1, <1>1, Zenon DEF Placed, Room, Sound, RoomsArePlaced
    <3> QED BY <3>1, RoomsAssumption DEF Names, Sound, SocketsAreOwned, SocketOf, Sockets, Component
  <2>4. ~\E p \in gone : s.providers[p].props.name = s.rooms[q].props.name
    <3> SUFFICES ASSUME NEW r \in changed, s.providers[old(r)].props.name = s.rooms[q].props.name
                 PROVE  FALSE
      BY <1>3
    <3>1. s.rooms[r].props.name \notin NamesOf(s, q)
      BY <2>1, <1>18
    <3> QED BY <3>1, <1>2, Zenon DEF NamesOf
  <2>5. t.map[s.rooms[q].socket][s.rooms[q].props.name] = s.map[s.rooms[q].socket][s.rooms[q].props.name]
    BY <2>3, <2>4, <1>6c, <1>9a
  <2> QED BY <2>1, <2>2, <2>5
<1>21. PendingIsNew(t)
  <2> SUFFICES ASSUME NEW q \in RoomSlots, Placed(t, q), t.rooms[q].pending # None
               PROVE  LET x == t.rooms[q].pending IN
                      /\ t.providers[x].props = t.rooms[q].props
                      /\ t.providers[x].socket = t.rooms[q].socket
                      /\ ~t.providers[x].attached /\ ~t.providers[x].destroyed
                      /\ ~t.providers[t.rooms[q].provider].attached
    BY DEF PendingIsNew
  <2>1. CASE q \in changed
    <3>1. t.rooms[q].pending = f[q] /\ t.rooms[q].provider = old(q) /\ old(q) \in gone
      BY <2>1, <1>2, <1>3, <1>14
    <3> QED BY <2>1, <3>1, <1>9b, <1>13, <1>14
  <2>2. CASE q \notin changed
    <3>1. Placed(s, q) /\ t.rooms[q] = s.rooms[q] /\ s.rooms[q].pending \in Providers
      BY <2>2, <1>1, <1>14 DEF Room
    <3>2. LET x == s.rooms[q].pending IN
          /\ s.providers[x].props = s.rooms[q].props /\ s.providers[x].socket = s.rooms[q].socket
          /\ ~s.providers[x].attached /\ ~s.providers[x].destroyed
          /\ ~s.providers[s.rooms[q].provider].attached
      BY <3>1, Zenon DEF Sound, PendingIsNew
    <3>3. s.rooms[q].pending \notin gone
      <4> SUFFICES ASSUME NEW r \in changed, s.rooms[q].pending = old(r) PROVE FALSE
        BY <1>3
      <4> QED BY <3>2, <1>2, Zenon
    <3>4. t.providers[s.rooms[q].pending] = s.providers[s.rooms[q].pending]
      BY <3>1, <3>2, <3>3, <1>12 DEF Placed
    <3>5. t.providers[s.rooms[q].provider] = s.providers[s.rooms[q].provider]
      BY <2>2, <3>1, <1>12, <1>15, <1>18
    <3> QED BY <3>1, <3>2, <3>4, <3>5
  <2> QED BY <2>1, <2>2
<1>22. RoutedIsAttached(t)
  <2> SUFFICES ASSUME NEW w \in Sockets, NEW n \in Names, t.map[w][n] # None
               PROVE  LET x == t.map[w][n] IN
                      t.providers[x].attached /\ t.providers[x].socket = w /\ t.providers[x].props.name = n
    BY DEF RoutedIsAttached
  <2> DEFINE x == s.map[w][n]
  <2>1. /\ t.map[w][n] = x
        /\ ~\E p \in gone : s.providers[p].socket = w /\ s.providers[p].props.name = n
    BY <1>6c, <1>9a
  <2>2. x \in Providers /\ s.providers[x].attached /\ s.providers[x].socket = w /\ s.providers[x].props.name = n
    BY <2>1, <1>1 DEF Sound, RoutedIsAttached
  <2>3. s.providers[x].props # None /\ x \notin gone
    BY <2>1, <2>2 DEF Sound, AttachedIsUsed
  <2> QED BY <2>1, <2>2, <2>3, <1>12
<1>23. AttachedIsUsed(t)
  <2> SUFFICES ASSUME NEW x \in Providers, t.providers[x].attached
               PROVE  /\ t.providers[x].props # None
                      /\ IsComing(t, x) \/ \E q \in RoomSlots : t.rooms[q].provider = x
    BY DEF AttachedIsUsed
  <2>1. \A r \in changed : f[r] # x
    BY <1>9b
  <2>2. x \notin gone
    BY <1>13
  <2>3. t.providers[x] = s.providers[x]
    BY <2>1, <2>2, <1>6a, <1>9c
  <2> QED BY <2>3, <1>14, <1>17 DEF Sound, AttachedIsUsed
<1>24. NamesAreApart(t)
  <2> SUFFICES ASSUME NEW r \in RoomSlots, NEW q \in RoomSlots, Placed(s, r), Placed(s, q), r # q
               PROVE  NamesOf(t, r) \cap NamesOf(t, q) = {}
    BY <1>14 DEF NamesAreApart
  <2>1. NamesOf(s, r) \cap NamesOf(s, q) = {}
    BY DEF Sound, NamesAreApart
  <2>2. s.rooms[r].props.name \in NamesOf(s, r) /\ s.rooms[q].props.name \in NamesOf(s, q)
    BY DEF NamesOf
  <2>3. CASE r \notin changed /\ q \notin changed
    BY <2>1, <2>3, <1>16
  <2>4. CASE r \in changed /\ q \notin changed
    BY <2>1, <2>2, <2>4, <1>16, <1>g
  <2>5. CASE r \notin changed /\ q \in changed
    BY <2>1, <2>2, <2>5, <1>16, <1>g
  <2>6. CASE r \in changed /\ q \in changed
    <3>1. u.rooms[r].props.name # s.rooms[q].props.name /\ u.rooms[q].props.name # s.rooms[r].props.name
      BY <2>2, <2>6, <1>g
    <3>2. u.rooms[r].props.name # u.rooms[q].props.name /\ s.rooms[r].props.name # s.rooms[q].props.name
      BY <2>1, <2>2, <2>6, <1>f
    <3> QED BY <2>6, <3>1, <3>2, <1>16
  <2> QED BY <2>3, <2>4, <2>5, <2>6
<1>25. ComingIsUnused(t)
  <2> SUFFICES ASSUME NEW i \in DOMAIN s.timers
               PROVE  /\ s.timers[i].owner = None
                      /\ s.timers[i].of \in Providers =>
                           /\ t.providers[s.timers[i].of].props # None
                           /\ \A r \in RoomSlots : Placed(s, r) =>
                                t.providers[s.timers[i].of].props.name \notin NamesOf(t, r)
    BY <1>9a, <1>14 DEF ComingIsUnused
  <2>1. s.timers[i].owner = None
    BY DEF Sound, ComingIsUnused
  <2>2. ASSUME s.timers[i].of \in Providers
        PROVE  /\ s.providers[s.timers[i].of].props # None
               /\ t.providers[s.timers[i].of].props = s.providers[s.timers[i].of].props
               /\ \A r \in RoomSlots : Placed(s, r) =>
                     s.providers[s.timers[i].of].props.name \notin NamesOf(s, r)
    BY <2>2, <1>11 DEF Sound, ComingIsUnused
  <2>3. ASSUME s.timers[i].of \in Providers, NEW r \in RoomSlots, Placed(s, r)
        PROVE  s.providers[s.timers[i].of].props.name \notin NamesOf(t, r)
    <3>1. s.rooms[r].props.name \in NamesOf(s, r)
      BY DEF NamesOf
    <3>2. CASE r \in changed
      BY <2>2, <2>3, <3>1, <3>2, <1>16, <1>h
    <3>3. CASE r \notin changed
      BY <2>2, <2>3, <3>3, <1>16
    <3> QED BY <3>2, <3>3
  <2> QED BY <2>1, <2>2, <2>3
<1>26. SocketsAreOwned(t, d, b)
  BY <1>9a, <1>17 DEF SocketsAreOwned
<1> QED BY <1>5, <1>9a, <1>19, <1>20, <1>21, <1>22, <1>23, <1>24, <1>25, <1>26 DEF Sound

\* A finite set is enumerated by the sequence made from it.
LEMMA SetToSeqEnumerates ==
    ASSUME NEW S, IsFiniteSet(S)
    PROVE  LET q == SetToSeq(S) IN
           /\ q \in [1 .. Cardinality(S) -> S] /\ Cardinality(S) \in Nat
           /\ \A x \in S : \E i \in DOMAIN q : q[i] = x
<1> DEFINE n == Cardinality(S)
           q == SetToSeq(S)
<1>1. n \in Nat /\ ExistsBijection(1 .. n, S)
  BY FS_CardinalityType
<1>2. PICK f : f \in Bijection(1 .. n, S)
  BY <1>1 DEF ExistsBijection
<1>3. f \in [1 .. n -> S] /\ IsInjective(f)
  BY <1>2 DEF Bijection, Injection
<1>4. q \in [1 .. n -> S] /\ IsInjective(q)
  BY <1>3 DEF SetToSeq
<1>5. q \in Injection(1 .. n, S)
  BY <1>4 DEF Injection
<1>6. IsFiniteSet(1 .. n) /\ Cardinality(1 .. n) = n
  BY <1>1, FS_Interval
<1>7. q \in Surjection(1 .. n, S)
  BY <1>5, <1>6, FS_Injection
<1> QED BY <1>1, <1>4, <1>7 DEF Surjection

LEMMA Concatenated ==
    ASSUME NEW S, NEW q \in Seq(S), NEW e \in Seq(S)
    PROVE  LET t == q \o e IN
           /\ t \in Seq(S) /\ DOMAIN t = 1 .. Len(q) + Len(e)
           /\ \A i \in 1 .. Len(q) : t[i] = q[i]
           /\ \A i \in 1 .. Len(q) + Len(e) : i \notin 1 .. Len(q) => i - Len(q) \in 1 .. Len(e) /\ t[i] = e[i - Len(q)]
           /\ \A i \in 1 .. Len(e) : Len(q) + i \in DOMAIN t /\ t[Len(q) + i] = e[i]
<1> DEFINE t == q \o e
<1>1. t \in Seq(S) /\ DOMAIN t = 1 .. Len(q) + Len(e) /\ Len(q) \in Nat /\ Len(e) \in Nat
  OBVIOUS
<1>2. \A i \in 1 .. Len(q) : t[i] = q[i]
  OBVIOUS
<1>3. \A i \in 1 .. Len(q) + Len(e) : i \notin 1 .. Len(q) => i - Len(q) \in 1 .. Len(e) /\ t[i] = e[i - Len(q)]
  BY <1>1
<1>4. ASSUME NEW i \in 1 .. Len(e) PROVE Len(q) + i \in DOMAIN t /\ t[Len(q) + i] = e[i]
  <2>1. Len(q) + i \in 1 .. Len(q) + Len(e) /\ Len(q) + i \notin 1 .. Len(q) /\ Len(q) + i - Len(q) = i
    BY <1>1
  <2> HIDE DEF t
  <2>2. t[Len(q) + i] = e[Len(q) + i - Len(q)]
    BY <2>1, <1>3
  <2> QED BY <2>1, <2>2, <1>1
<1> QED BY <1>1, <1>2, <1>3, <1>4

LEMMA UnmountedFields ==
    ASSUME NEW s \in States, NEW left \in SUBSET RoomSlots,
           \A r \in left : s.rooms[r].provider \in Providers,
           \A i \in DOMAIN s.timers : s.timers[i].owner = None
    PROVE  LET t == Unmounted(s, left) IN
           /\ t \in States /\ t.providers = s.providers /\ t.map = s.map
           /\ t.rooms = [r \in RoomSlots |-> IF r \in left THEN NoRoom ELSE s.rooms[r]]
           /\ \A i \in DOMAIN s.timers : i \in DOMAIN t.timers /\ t.timers[i] = s.timers[i]
           /\ \A i \in DOMAIN t.timers \ DOMAIN s.timers :
                t.timers[i].owner = None /\ \E r \in left : t.timers[i].of = s.rooms[r].provider
           /\ \A r \in left : IsComing(t, s.rooms[r].provider)
<1> USE RoomsAssumption
<1> DEFINE order == SetToSeq(left)
           armed == [i \in DOMAIN order |-> [owner |-> None, of |-> s.rooms[order[i]].provider]]
           Orphaned(x) == IF x.owner \in left THEN [x EXCEPT !.owner = None] ELSE x
           kept == [i \in DOMAIN s.timers |-> Orphaned(s.timers[i])]
           R == [r \in RoomSlots |-> IF r \in left THEN NoRoom ELSE s.rooms[r]]
           t == Unmounted(s, left)
           n == Len(s.timers)
           m == Cardinality(left)
<1>1. IsFiniteSet(left)
  BY FS_Subset
<1>2. /\ order \in [1 .. m -> left] /\ m \in Nat
      /\ \A r \in left : \E i \in DOMAIN order : order[i] = r
  BY <1>1, SetToSeqEnumerates
<1>3. n \in Nat /\ s.timers \in Seq(Timer) /\ DOMAIN s.timers = 1 .. n
  BY DEF States
<1>4. kept = s.timers
  <2>1. \A i \in DOMAIN s.timers : Orphaned(s.timers[i]) = s.timers[i]
    OBVIOUS
  <2>2. s.timers = [i \in DOMAIN s.timers |-> s.timers[i]]
    BY <1>3
  <2> QED BY <2>1, <2>2
<1>5. t = [s EXCEPT !.timers = kept \o armed, !.rooms = R]
  BY DEF Unmounted
<1> HIDE DEF order, kept, R, t, n, m, Orphaned
<1>6. /\ armed \in Seq(Timer) /\ Len(armed) = m
      /\ \A i \in 1 .. m : armed[i] = [owner |-> None, of |-> s.rooms[order[i]].provider]
  <2>1. \A i \in 1 .. m : [owner |-> None, of |-> s.rooms[order[i]].provider] \in Timer
    BY <1>2 DEF Timer
  <2> QED BY <2>1, <1>2
<1> HIDE DEF armed
<1>7. /\ s.timers \o armed \in Seq(Timer) /\ DOMAIN (s.timers \o armed) = 1 .. n + m
      /\ \A i \in 1 .. n : (s.timers \o armed)[i] = s.timers[i]
      /\ \A i \in 1 .. n + m : i \notin 1 .. n => i - n \in 1 .. m /\ (s.timers \o armed)[i] = armed[i - n]
      /\ \A i \in 1 .. m : n + i \in DOMAIN (s.timers \o armed) /\ (s.timers \o armed)[n + i] = armed[i]
  <2>1. armed \in Seq(Timer) /\ s.timers \in Seq(Timer)
    BY <1>3, <1>6
  <2>2. Len(armed) = m /\ Len(s.timers) = n
    BY <1>6 DEF n
  <2>3. /\ s.timers \o armed \in Seq(Timer) /\ DOMAIN (s.timers \o armed) = 1 .. Len(s.timers) + Len(armed)
        /\ \A i \in 1 .. Len(s.timers) : (s.timers \o armed)[i] = s.timers[i]
        /\ \A i \in 1 .. Len(s.timers) + Len(armed) : i \notin 1 .. Len(s.timers) =>
             i - Len(s.timers) \in 1 .. Len(armed) /\ (s.timers \o armed)[i] = armed[i - Len(s.timers)]
        /\ \A i \in 1 .. Len(armed) : /\ Len(s.timers) + i \in DOMAIN (s.timers \o armed)
                                      /\ (s.timers \o armed)[Len(s.timers) + i] = armed[i]
    BY ONLY <2>1, Concatenated
  <2> QED BY ONLY <2>2, <2>3
<1>8. R \in [RoomSlots -> Room]
  BY DEF R, States, NoRoom, Room
<1>9. /\ t \in States /\ t.providers = s.providers /\ t.map = s.map
      /\ t.rooms = R /\ t.timers = s.timers \o armed
  BY <1>4, <1>5, <1>7, <1>8 DEF States
<1>10. \A i \in DOMAIN s.timers : i \in DOMAIN t.timers /\ t.timers[i] = s.timers[i]
  BY <1>2, <1>3, <1>7, <1>9
<1>11. ASSUME NEW i \in DOMAIN t.timers \ DOMAIN s.timers
       PROVE  t.timers[i].owner = None /\ \E r \in left : t.timers[i].of = s.rooms[r].provider
  <2>1. i \in 1 .. n + m /\ i \notin 1 .. n /\ i - n \in 1 .. m
    BY <1>3, <1>7, <1>9
  <2>2. t.timers[i] = [owner |-> None, of |-> s.rooms[order[i - n]].provider]
    BY <2>1, <1>6, <1>7, <1>9
  <2>3. order[i - n] \in left
    BY <2>1, <1>2
  <2> QED BY <2>2, <2>3
<1>12. ASSUME NEW r \in left PROVE IsComing(t, s.rooms[r].provider)
  <2>1. PICK i \in 1 .. m : order[i] = r
    <3>1. DOMAIN order = 1 .. m
      BY <1>2
    <3> QED BY <3>1, <1>2
  <2>2. n + i \in DOMAIN t.timers /\ t.timers[n + i] = armed[i]
    BY <1>7, <1>9
  <2>3. t.timers[n + i].of = s.rooms[r].provider
    BY <2>1, <2>2, <1>6
  <2> QED BY <2>2, <2>3 DEF IsComing
<1> QED BY <1>9, <1>10, <1>11, <1>12 DEF R, t

\* The deferred destroys of rooms that go are coming, and no room has their names.
LEMMA UnmountedIsSound ==
    ASSUME NEW s, NEW c, NEW a, Sound(s, c, a), NEW left \in SUBSET RoomSlots,
           \A r \in left : Placed(s, r),
           NEW u \in States, u.rooms = s.rooms, u.providers = s.providers, u.map = s.map,
           ComingIsUnused(u), \A it : IsComing(s, it) => IsComing(u, it),
           NEW d \in Component, NEW b \in SUBSET OwnSockets, SocketsAreOwned(u, d, b),
           \A r \in RoomSlots \ left : Placed(s, r) => d = c
    PROVE  Sound(Unmounted(u, left), d, b)
<1> USE RoomsAssumption
<1> DEFINE t == Unmounted(u, left)
<1>1. \A r \in RoomSlots : Placed(s, r) =>
        s.rooms[r].provider \in Providers /\ s.providers[s.rooms[r].provider].props # None
  BY DEF Sound, RoomsArePlaced
<1>2. /\ t \in States /\ t.providers = s.providers /\ t.map = s.map
      /\ t.rooms = [r \in RoomSlots |-> IF r \in left THEN NoRoom ELSE s.rooms[r]]
      /\ \A i \in DOMAIN u.timers : i \in DOMAIN t.timers /\ t.timers[i] = u.timers[i]
      /\ \A i \in DOMAIN t.timers \ DOMAIN u.timers :
           t.timers[i].owner = None /\ \E r \in left : t.timers[i].of = s.rooms[r].provider
      /\ \A r \in left : IsComing(t, s.rooms[r].provider)
  <2>1. /\ \A r \in left : u.rooms[r].provider \in Providers
        /\ \A i \in DOMAIN u.timers : u.timers[i].owner = None
    BY <1>1 DEF ComingIsUnused
  <2> QED BY <2>1, UnmountedFields
<1> HIDE DEF t
<1>3. \A r \in RoomSlots : /\ r \in left => ~Placed(t, r) /\ t.rooms[r] = NoRoom
                           /\ r \notin left => t.rooms[r] = s.rooms[r] /\ (Placed(t, r) <=> Placed(s, r))
  BY <1>2 DEF Placed, NoRoom
<1>4. \A it : IsComing(u, it) => IsComing(t, it)
  BY <1>2 DEF IsComing
<1>5. \A r \in RoomSlots : Placed(t, r) => r \notin left /\ Placed(s, r) /\ NamesOf(t, r) = NamesOf(s, r)
  BY <1>2, <1>3 DEF NamesOf
<1>6. RoomsArePlaced(t, d)
  BY <1>2, <1>3, <1>5 DEF Sound, RoomsArePlaced
<1>7. RenderedIsAttached(t)
  BY <1>2, <1>3, <1>5 DEF Sound, RenderedIsAttached
<1>8. PendingIsNew(t)
  BY <1>2, <1>3, <1>5 DEF Sound, PendingIsNew
<1>9. RoutedIsAttached(t)
  BY <1>2 DEF Sound, RoutedIsAttached
<1>10. AttachedIsUsed(t)
  <2> SUFFICES ASSUME NEW p \in Providers, s.providers[p].attached
               PROVE  /\ s.providers[p].props # None
                      /\ IsComing(t, p) \/ \E r \in RoomSlots : t.rooms[r].provider = p
    BY <1>2 DEF AttachedIsUsed
  <2>1. s.providers[p].props # None /\ (IsComing(s, p) \/ \E r \in RoomSlots : s.rooms[r].provider = p)
    BY DEF Sound, AttachedIsUsed
  <2> QED BY <2>1, <1>2, <1>3, <1>4
<1>11. NamesAreApart(t)
  BY <1>5 DEF Sound, NamesAreApart
<1>12. ComingIsUnused(t)
  <2> SUFFICES ASSUME NEW i \in DOMAIN t.timers
               PROVE  /\ t.timers[i].owner = None
                      /\ t.timers[i].of \in Providers =>
                           /\ t.providers[t.timers[i].of].props # None
                           /\ \A r \in RoomSlots : Placed(t, r) =>
                                t.providers[t.timers[i].of].props.name \notin NamesOf(t, r)
    BY DEF ComingIsUnused
  <2>1. CASE i \in DOMAIN u.timers
    <3>1. \A r \in RoomSlots : Placed(t, r) => Placed(u, r) /\ NamesOf(t, r) = NamesOf(u, r)
      BY <1>5, Zenon DEF Placed, NamesOf
    <3> QED BY <2>1, <3>1, <1>2 DEF ComingIsUnused
  <2>2. CASE i \notin DOMAIN u.timers
    <3>1. t.timers[i].owner = None /\ \E r \in left : t.timers[i].of = s.rooms[r].provider
      BY <2>2, <1>2
    <3>2. PICK q \in left : t.timers[i].of = s.rooms[q].provider
      BY <3>1
    <3>3. s.providers[s.rooms[q].provider].props # None
      BY <1>1, Zenon
    <3>4. ASSUME NEW r \in RoomSlots, Placed(t, r)
          PROVE  s.providers[s.rooms[q].provider].props.name \notin NamesOf(t, r)
      <4>1. NamesOf(s, q) \cap NamesOf(s, r) = {} /\ NamesOf(t, r) = NamesOf(s, r)
        BY <3>4, <1>5 DEF Sound, NamesAreApart
      <4> QED BY <4>1, Zenon DEF NamesOf
    <3> QED BY <3>1, <3>2, <3>3, <3>4, <1>2
  <2> QED BY <2>1, <2>2
<1>13. SocketsAreOwned(t, d, b)
  <2>1. \A i \in DOMAIN t.timers : t.timers[i].of \in OwnSockets => i \in DOMAIN u.timers
    <3> SUFFICES ASSUME NEW i \in DOMAIN t.timers \ DOMAIN u.timers PROVE t.timers[i].of \notin OwnSockets
      OBVIOUS
    <3>1. \E r \in left : t.timers[i].of = s.rooms[r].provider
      BY <1>2
    <3> QED BY <3>1, <1>1 DEF Sockets
  <2>2. \A w \in b : IsComing(t, w) \/ (d.mounted /\ d.ref = w)
    BY <1>4 DEF SocketsAreOwned
  <2>3. ASSUME NEW i \in DOMAIN t.timers, t.timers[i].of \in OwnSockets
        PROVE  /\ t.timers[i].of \in b /\ t.timers[i].of # d.ref
               /\ \A j \in DOMAIN t.timers : t.timers[j].of = t.timers[i].of => j = i
    BY <2>1, <2>3, <1>2 DEF SocketsAreOwned
  <2> QED BY <2>2, <2>3 DEF SocketsAreOwned
<1> QED BY <1>2, <1>6, <1>7, <1>8, <1>9, <1>10, <1>11, <1>12, <1>13 DEF Sound, t

\* What is left when the first timeout fires.
LEMMA FirstTimerFields ==
    ASSUME NEW s \in States, s.timers # << >>
    PROVE  LET rest == [s EXCEPT !.timers = Tail(@)] IN
           /\ rest \in States /\ rest.rooms = s.rooms /\ rest.providers = s.providers /\ rest.map = s.map
           /\ 1 \in DOMAIN s.timers /\ Head(s.timers) = s.timers[1]
           /\ \A i \in DOMAIN rest.timers :
                i + 1 \in DOMAIN s.timers /\ i + 1 # 1 /\ rest.timers[i] = s.timers[i + 1]
           /\ \A i, j \in DOMAIN rest.timers : i # j => i + 1 # j + 1
           /\ \A it : IsComing(s, it) => IsComing(rest, it) \/ it = Head(s.timers).of
<1> DEFINE T == Tail(s.timers)
           n == Len(s.timers)
           rest == [s EXCEPT !.timers = Tail(@)]
<1>1. s.timers \in Seq(Timer) /\ n \in Nat \ {0} /\ DOMAIN s.timers = 1 .. n
  BY DEF States
<1>2. /\ T \in Seq(Timer) /\ DOMAIN T = 1 .. n - 1 /\ \A i \in 1 .. n - 1 : T[i] = s.timers[i + 1]
      /\ Head(s.timers) = s.timers[1]
  BY <1>1
<1> HIDE DEF T, n
<1>3. rest = [s EXCEPT !.timers = T]
  BY DEF T
<1>4. /\ rest \in States /\ rest.rooms = s.rooms /\ rest.providers = s.providers /\ rest.map = s.map
      /\ rest.timers = T
  BY <1>2, <1>3 DEF States
<1> HIDE DEF rest
<1>5. 1 \in DOMAIN s.timers
  BY <1>1
<1>6. \A i \in DOMAIN rest.timers :
         i \in Nat /\ i + 1 \in DOMAIN s.timers /\ i + 1 # 1 /\ rest.timers[i] = s.timers[i + 1]
  BY <1>1, <1>2, <1>4
<1>7. ASSUME NEW it, IsComing(s, it) PROVE IsComing(rest, it) \/ it = Head(s.timers).of
  <2>1. PICK i \in DOMAIN s.timers : s.timers[i].of = it
    BY <1>7 DEF IsComing
  <2>2. CASE i = 1
    BY <2>1, <2>2, <1>2
  <2>3. CASE i # 1
    <3>1. i - 1 \in DOMAIN rest.timers /\ rest.timers[i - 1] = s.timers[i]
      BY <2>1, <2>3, <1>1, <1>2, <1>4
    <3> QED BY <2>1, <3>1 DEF IsComing
  <2> QED BY <2>2, <2>3
<1>8. \A i, j \in DOMAIN rest.timers : i # j => i + 1 # j + 1
  <2> SUFFICES ASSUME NEW i \in DOMAIN rest.timers, NEW j \in DOMAIN rest.timers, i # j PROVE i + 1 # j + 1
    OBVIOUS
  <2>1. i \in Nat /\ j \in Nat
    BY <1>6
  <2> QED BY <2>1
<1>9. \A i \in DOMAIN rest.timers :
         i + 1 \in DOMAIN s.timers /\ i + 1 # 1 /\ rest.timers[i] = s.timers[i + 1]
  BY <1>6
<1>10. Head(s.timers) = s.timers[1]
  BY <1>2
<1>11. rest \in States /\ rest.rooms = s.rooms /\ rest.providers = s.providers /\ rest.map = s.map
  BY <1>4, Zenon
<1> QED BY ONLY <1>5, <1>7, <1>8, <1>9, <1>10, <1>11 DEF rest

\* The deferred destroy of a provider, that no room has.
LEMMA ProviderIsDestroyed ==
    ASSUME NEW s, NEW c, NEW a, Sound(s, c, a), s.timers # << >>, Head(s.timers).of \in Providers
    PROVE  Sound(Destroy([s EXCEPT !.timers = Tail(@)], {Head(s.timers).of}), c, a)
<1> USE RoomsAssumption
<1> DEFINE x == Head(s.timers).of
           rest == [s EXCEPT !.timers = Tail(@)]
           t == Destroy(rest, {x})
<1>1. s \in States
  BY DEF Sound
<1>2. /\ rest \in States /\ rest.rooms = s.rooms /\ rest.providers = s.providers /\ rest.map = s.map
      /\ 1 \in DOMAIN s.timers /\ Head(s.timers) = s.timers[1]
      /\ \A i \in DOMAIN rest.timers :
           i + 1 \in DOMAIN s.timers /\ i + 1 # 1 /\ rest.timers[i] = s.timers[i + 1]
      /\ \A i, j \in DOMAIN rest.timers : i # j => i + 1 # j + 1
      /\ \A it : IsComing(s, it) => IsComing(rest, it) \/ it = x
  BY <1>1, FirstTimerFields
<1> HIDE DEF rest
<1>3. x \in Providers /\ {x} \in SUBSET Providers
  OBVIOUS
<1>4. /\ t \in States /\ t.rooms = rest.rooms /\ t.timers = rest.timers
      /\ \A p \in Providers \ {x} : t.providers[p] = rest.providers[p]
      /\ \A p \in {x} : ~t.providers[p].attached /\ t.providers[p].props = rest.providers[p].props
      /\ \A w \in Sockets, n \in Names :
           /\ (\E p \in {x} : rest.providers[p].socket = w /\ rest.providers[p].props.name = n)
                => t.map[w][n] = None
           /\ (~\E p \in {x} : rest.providers[p].socket = w /\ rest.providers[p].props.name = n)
                => t.map[w][n] = rest.map[w][n]
  BY <1>2, <1>3, DestroyFields
<1> HIDE DEF t
<1>5. s.timers[1].of = x
  BY <1>2
<1>6. /\ s.providers[x].props # None
      /\ \A r \in RoomSlots : Placed(s, r) => s.providers[x].props.name \notin NamesOf(s, r)
  BY <1>2, <1>3, <1>5 DEF Sound, ComingIsUnused
<1> HIDE DEF x
<1>7. t.rooms = s.rooms /\ t.timers = rest.timers
  BY <1>2, <1>4
<1>8. \A p \in Providers : p # x => t.providers[p] = s.providers[p]
  BY <1>2, <1>4
<1>9. ~t.providers[x].attached /\ \A p \in Providers : t.providers[p].props = s.providers[p].props
  BY <1>2, <1>3, <1>4
<1>10. \A w \in Sockets, n \in Names :
         /\ (s.providers[x].socket = w /\ s.providers[x].props.name = n) => t.map[w][n] = None
         /\ ~(s.providers[x].socket = w /\ s.providers[x].props.name = n) => t.map[w][n] = s.map[w][n]
  BY <1>2, <1>4
<1>11. \A r \in RoomSlots : Placed(t, r) <=> Placed(s, r)
  BY <1>7 DEF Placed
<1>12. \A r \in RoomSlots : Placed(s, r) =>
         /\ s.rooms[r].provider \in Providers /\ s.rooms[r].provider # x
         /\ t.providers[s.rooms[r].provider] = s.providers[s.rooms[r].provider]
         /\ NamesOf(t, r) = NamesOf(s, r)
         /\ s.rooms[r].props \in Props /\ s.rooms[r].socket \in Sockets \cup {None}
         /\ s.rooms[r].props.name # s.providers[x].props.name
  <2> SUFFICES ASSUME NEW r \in RoomSlots, Placed(s, r)
               PROVE  /\ s.rooms[r].provider \in Providers /\ s.rooms[r].provider # x
                      /\ t.providers[s.rooms[r].provider] = s.providers[s.rooms[r].provider]
                      /\ NamesOf(t, r) = NamesOf(s, r)
                      /\ s.rooms[r].props \in Props /\ s.rooms[r].socket \in Sockets \cup {None}
                      /\ s.rooms[r].props.name # s.providers[x].props.name
    OBVIOUS
  <2>1. s.rooms[r].provider \in Providers
    BY DEF Sound, RoomsArePlaced
  <2>2. s.providers[x].props.name \notin NamesOf(s, r)
    BY <1>6, Zenon
  <2>3. s.rooms[r].provider # x /\ s.rooms[r].props.name # s.providers[x].props.name
    BY <2>2 DEF NamesOf
  <2>4. t.providers[s.rooms[r].provider] = s.providers[s.rooms[r].provider]
    BY <2>1, <2>3, <1>8, Zenon
  <2>5. NamesOf(t, r) = NamesOf(s, r)
    BY <2>4, <1>7 DEF NamesOf
  <2>6. s.rooms[r] \in Room /\ s.rooms[r].props # None
    BY <1>1 DEF States, Placed
  <2> QED BY <2>1, <2>3, <2>4, <2>5, <2>6 DEF Room
<1>12a. \A it : IsComing(t, it) <=> IsComing(rest, it)
  BY <1>7 DEF IsComing
<1>13. RoomsArePlaced(t, c)
  <2> SUFFICES ASSUME NEW r \in RoomSlots
               PROVE  /\ ~Placed(s, r) => s.rooms[r] = NoRoom
                      /\ Placed(s, r) => /\ c.mounted /\ s.rooms[r].socket = SocketOf(c)
                                         /\ s.rooms[r].provider \in Providers
                                         /\ t.providers[s.rooms[r].provider].props # None
    BY <1>7, <1>11 DEF RoomsArePlaced
  <2>1. Placed(s, r) => t.providers[s.rooms[r].provider] = s.providers[s.rooms[r].provider]
    BY <1>12
  <2> QED BY <2>1 DEF Sound, RoomsArePlaced
<1>14. RenderedIsAttached(t)
  <2> SUFFICES ASSUME NEW r \in RoomSlots, Placed(s, r), s.rooms[r].pending = None
               PROVE  LET p == s.rooms[r].provider IN
                      /\ t.providers[p].props = s.rooms[r].props
                      /\ t.providers[p].socket = s.rooms[r].socket
                      /\ t.providers[p].attached /\ ~t.providers[p].destroyed
                      /\ t.map[s.rooms[r].socket][s.rooms[r].props.name] = p
    BY <1>7, <1>11 DEF RenderedIsAttached
  <2>1. s.rooms[r].props.name \in Names
    BY <1>12 DEF Names
  <2>2. c.mounted /\ s.rooms[r].socket = SocketOf(c)
    BY DEF Sound, RoomsArePlaced
  <2>3. s.rooms[r].socket \in Sockets
    BY <2>2 DEF Sound, SocketsAreOwned, SocketOf, Sockets
  <2>4. t.map[s.rooms[r].socket][s.rooms[r].props.name] = s.map[s.rooms[r].socket][s.rooms[r].props.name]
    BY <2>1, <2>3, <1>10, <1>12
  <2>5. t.providers[s.rooms[r].provider] = s.providers[s.rooms[r].provider]
    BY <1>12
  <2>6. LET p == s.rooms[r].provider IN
        /\ s.providers[p].props = s.rooms[r].props /\ s.providers[p].socket = s.rooms[r].socket
        /\ s.providers[p].attached /\ ~s.providers[p].destroyed
        /\ s.map[s.rooms[r].socket][s.rooms[r].props.name] = p
    BY Zenon DEF Sound, RenderedIsAttached
  <2> QED BY <2>4, <2>5, <2>6, Zenon
<1>15. PendingIsNew(t)
  <2> SUFFICES ASSUME NEW r \in RoomSlots, Placed(s, r), s.rooms[r].pending # None
               PROVE  LET q == s.rooms[r].pending IN
                      /\ t.providers[q].props = s.rooms[r].props
                      /\ t.providers[q].socket = s.rooms[r].socket
                      /\ ~t.providers[q].attached /\ ~t.providers[q].destroyed
                      /\ ~t.providers[s.rooms[r].provider].attached
    BY <1>7, <1>11 DEF PendingIsNew
  <2> DEFINE q == s.rooms[r].pending
  <2>1. /\ s.providers[q].props = s.rooms[r].props /\ s.providers[q].socket = s.rooms[r].socket
        /\ ~s.providers[q].attached /\ ~s.providers[q].destroyed
        /\ ~s.providers[s.rooms[r].provider].attached
    BY DEF Sound, PendingIsNew
  <2>2. q \in Providers
    BY <1>1 DEF States, Room
  <2>3. q # x
    BY <2>1, <1>12
  <2>4. t.providers[q] = s.providers[q]
    BY <2>2, <2>3, <1>8
  <2> QED BY <2>1, <2>4, <1>12
<1>16. RoutedIsAttached(t)
  <2> SUFFICES ASSUME NEW w \in Sockets, NEW n \in Names, t.map[w][n] # None
               PROVE  LET p == t.map[w][n] IN
                      t.providers[p].attached /\ t.providers[p].socket = w /\ t.providers[p].props.name = n
    BY DEF RoutedIsAttached
  <2> DEFINE p == s.map[w][n]
  <2>1. t.map[w][n] = p /\ ~(s.providers[x].socket = w /\ s.providers[x].props.name = n)
    BY <1>10
  <2>2. p \in Providers /\ s.providers[p].attached /\ s.providers[p].socket = w /\ s.providers[p].props.name = n
    BY <2>1, <1>1 DEF Sound, RoutedIsAttached, States
  <2>3. p # x
    BY <2>1, <2>2
  <2> QED BY <2>1, <2>2, <2>3, <1>8
<1>17. AttachedIsUsed(t)
  <2> SUFFICES ASSUME NEW p \in Providers, t.providers[p].attached
               PROVE  /\ t.providers[p].props # None
                      /\ IsComing(t, p) \/ \E r \in RoomSlots : t.rooms[r].provider = p
    BY DEF AttachedIsUsed
  <2>1. p # x /\ t.providers[p] = s.providers[p]
    BY <1>8, <1>9
  <2>2. IsComing(s, p) => IsComing(t, p)
    BY <2>1, <1>2, <1>12a, Zenon
  <2> QED BY <2>1, <2>2, <1>7 DEF Sound, AttachedIsUsed
<1>18. NamesAreApart(t)
  BY <1>11, <1>12 DEF Sound, NamesAreApart
<1>19. ComingIsUnused(t)
  <2> SUFFICES ASSUME NEW i \in DOMAIN rest.timers
               PROVE  /\ rest.timers[i].owner = None
                      /\ rest.timers[i].of \in Providers =>
                           /\ t.providers[rest.timers[i].of].props # None
                           /\ \A r \in RoomSlots : Placed(s, r) =>
                                t.providers[rest.timers[i].of].props.name \notin NamesOf(t, r)
    BY <1>7, <1>11 DEF ComingIsUnused
  <2>1. i + 1 \in DOMAIN s.timers /\ rest.timers[i] = s.timers[i + 1]
    BY <1>2
  <2>2. /\ rest.timers[i].owner = None
        /\ rest.timers[i].of \in Providers =>
             /\ s.providers[rest.timers[i].of].props # None
             /\ \A r \in RoomSlots : Placed(s, r) =>
                  s.providers[rest.timers[i].of].props.name \notin NamesOf(s, r)
    BY <2>1 DEF Sound, ComingIsUnused
  <2> QED BY <2>2, <1>9, <1>12
<1>20. SocketsAreOwned(t, c, a)
  <2>1. \A i \in DOMAIN rest.timers : rest.timers[i].of \in OwnSockets =>
          /\ rest.timers[i].of \in a /\ rest.timers[i].of # c.ref
          /\ \A j \in DOMAIN rest.timers : rest.timers[j].of = rest.timers[i].of => j = i
    BY <1>2 DEF Sound, SocketsAreOwned
  <2>2. \A w \in a : IsComing(t, w) \/ (c.mounted /\ c.ref = w)
    <3> SUFFICES ASSUME NEW w \in a PROVE IsComing(t, w) \/ (c.mounted /\ c.ref = w)
      OBVIOUS
    <3>1. w # x
      BY <1>3 DEF Sound, Sockets
    <3>2. IsComing(s, w) => IsComing(t, w)
      BY <3>1, <1>2, <1>12a, Zenon
    <3> QED BY <3>2 DEF Sound, SocketsAreOwned
  <2> QED BY <2>1, <2>2, <1>7 DEF Sound, SocketsAreOwned
<1> QED BY <1>4, <1>13, <1>14, <1>15, <1>16, <1>17, <1>18, <1>19, <1>20, Zenon DEF Sound, t, rest, x

\* The deferred destroy of a websocket, that no component has.
LEMMA SocketIsDestroyed ==
    ASSUME NEW s, NEW c, NEW a, Sound(s, c, a), s.timers # << >>, Head(s.timers).of \notin Providers
    PROVE  Sound([s EXCEPT !.timers = Tail(@)], c, a \ {Head(s.timers).of})
<1> USE RoomsAssumption
<1> DEFINE x == Head(s.timers).of
           rest == [s EXCEPT !.timers = Tail(@)]
<1>1. s \in States
  BY DEF Sound
<1>2. /\ rest \in States /\ rest.rooms = s.rooms /\ rest.providers = s.providers /\ rest.map = s.map
      /\ 1 \in DOMAIN s.timers /\ Head(s.timers) = s.timers[1]
      /\ \A i \in DOMAIN rest.timers :
           i + 1 \in DOMAIN s.timers /\ i + 1 # 1 /\ rest.timers[i] = s.timers[i + 1]
      /\ \A i, j \in DOMAIN rest.timers : i # j => i + 1 # j + 1
      /\ \A it : IsComing(s, it) => IsComing(rest, it) \/ it = x
  BY <1>1, FirstTimerFields
<1> HIDE DEF rest
<1>3. s.timers[1].of = x /\ x \in OwnSockets
  <2>1. s.timers[1] \in Timer
    BY <1>1, <1>2 DEF States
  <2> QED BY <2>1, <1>2 DEF Timer
<1> HIDE DEF x
<1>4. \A r \in RoomSlots : (Placed(rest, r) <=> Placed(s, r)) /\ NamesOf(rest, r) = NamesOf(s, r)
  BY <1>2 DEF Placed, NamesOf
<1>5. RoomsArePlaced(rest, c)
  BY <1>2, <1>4 DEF Sound, RoomsArePlaced
<1>5a. RoutedIsAttached(rest)
  BY <1>2 DEF Sound, RoutedIsAttached
<1>6. RenderedIsAttached(rest)
  BY <1>2, <1>4 DEF Sound, RenderedIsAttached
<1>6a. PendingIsNew(rest)
  BY <1>2, <1>4 DEF Sound, PendingIsNew
<1>7. AttachedIsUsed(rest)
  <2> SUFFICES ASSUME NEW p \in Providers, s.providers[p].attached
               PROVE  /\ s.providers[p].props # None
                      /\ IsComing(rest, p) \/ \E r \in RoomSlots : s.rooms[r].provider = p
    BY <1>2 DEF AttachedIsUsed
  <2>1. p # x
    BY <1>3 DEF Sockets
  <2> QED BY <2>1, <1>2 DEF Sound, AttachedIsUsed
<1>8. NamesAreApart(rest)
  BY <1>4 DEF Sound, NamesAreApart
<1>9. ComingIsUnused(rest)
  <2> SUFFICES ASSUME NEW i \in DOMAIN rest.timers
               PROVE  /\ rest.timers[i].owner = None
                      /\ rest.timers[i].of \in Providers =>
                           /\ s.providers[rest.timers[i].of].props # None
                           /\ \A r \in RoomSlots : Placed(s, r) =>
                                s.providers[rest.timers[i].of].props.name \notin NamesOf(s, r)
    BY <1>2, <1>4 DEF ComingIsUnused
  <2>1. i + 1 \in DOMAIN s.timers /\ rest.timers[i] = s.timers[i + 1]
    BY <1>2
  <2> QED BY <2>1 DEF Sound, ComingIsUnused
<1>10. SocketsAreOwned(rest, c, a \ {x})
  <2>1. /\ x \in a /\ x # c.ref
        /\ \A j \in DOMAIN s.timers : s.timers[j].of = x => j = 1
    BY <1>2, <1>3 DEF Sound, SocketsAreOwned
  <2>2. \A i \in DOMAIN rest.timers : rest.timers[i].of \in OwnSockets =>
          /\ rest.timers[i].of \in a /\ rest.timers[i].of # c.ref /\ rest.timers[i].of # x
          /\ \A j \in DOMAIN rest.timers : rest.timers[j].of = rest.timers[i].of => j = i
    BY <2>1, <1>2 DEF Sound, SocketsAreOwned
  <2>3. \A w \in a \ {x} : IsComing(rest, w) \/ (c.mounted /\ c.ref = w)
    BY <1>2 DEF Sound, SocketsAreOwned
  <2>4. c.mounted /\ ~c.external => c.ref \in a \ {x}
    BY <2>1 DEF Sound, SocketsAreOwned
  <2> QED BY <2>2, <2>3, <2>4 DEF Sound, SocketsAreOwned
<1>11. a \ {x} \subseteq OwnSockets
  BY DEF Sound
<1> QED BY <1>2, <1>5, <1>5a, <1>6, <1>6a, <1>7, <1>8, <1>9, <1>10, <1>11 DEF Sound, rest, x

-----------------------------------------------------------------------------
(* The steps. *)

LEMMA BecomesSound ==
    ASSUME NEW s, Sound(s, component', alive'), Becomes(s), strict' = strict, strict \in BOOLEAN
    PROVE  RoomsInv'
<1>1. s \in States
  BY DEF Sound
<1> DEFINE P == [p \in Providers |-> IF Kept(s, p) THEN s.providers[p] ELSE NoProvider]
           t == [rooms |-> s.rooms, providers |-> P, map |-> s.map, timers |-> s.timers]
<1>2. P \in [Providers -> Provider]
  BY <1>1 DEF States, NoProvider, Provider
<1>3. t \in States
  BY <1>1, <1>2 DEF States
<1>4. t.rooms = s.rooms /\ t.map = s.map /\ t.timers = s.timers /\ t.providers = P
  OBVIOUS
<1>5. Now' = t
  BY DEF Now, Becomes
<1> HIDE DEF t
<1>6. Sound(t, component', alive')
  BY <1>3, <1>4, CollectedIsSound
<1> QED BY <1>5, <1>6 DEF RoomsInv

LEMMA MountedIsPlaced == \A r \in RoomSlots : Mounted(r) <=> Placed(Now, r)
BY DEF Mounted, Placed, Now

\* What the application is asked for.
LEMMA NameIsApart ==
    ASSUME RoomsInv, ~Reused, NEW name, NEW r \in RoomSlots, IsFree(name, r)
    PROVE  /\ \A q \in RoomSlots : (Placed(Now, q) /\ q # r) => name \notin NamesOf(Now, q)
           /\ \A i \in DOMAIN Now.timers : Now.timers[i].of \in Providers =>
                Now.providers[Now.timers[i].of].props.name # name
           /\ Unused(Now) # {}
<1>1. ASSUME NEW q \in RoomSlots, Placed(Now, q), q # r PROVE name \notin NamesOf(Now, q)
  <2>1. rooms[q].provider \in Providers
    BY <1>1, NowFields DEF RoomsInv, Sound, RoomsArePlaced
  <2>2. rooms[q].props.name # name /\ providers[rooms[q].provider].props.name # name
    BY <1>1, <2>1, MountedIsPlaced DEF IsFree
  <2> QED BY <2>2, NowFields DEF NamesOf
<1>2. \A i \in DOMAIN timers : timers[i].of \in Providers => providers[timers[i].of].props.name # name
  BY DEF IsFree
<1>3. Unused(Now) # {}
  BY DEF IsFree
<1> QED BY <1>1, <1>2, <1>3, NowFields

\* A provider of the pool that is not in use is nobody's.
LEMMA UnusedIsNobodys ==
    ASSUME NEW s, NEW c, NEW a, Sound(s, c, a), NEW p \in Unused(s)
    PROVE  /\ p \in Providers /\ ~s.providers[p].attached
           /\ \A q \in RoomSlots : s.rooms[q].provider # p /\ s.rooms[q].pending # p
           /\ \A i \in DOMAIN s.timers : s.timers[i].of # p
<1> USE RoomsAssumption
<1>1. p \in Providers /\ s.providers[p].props = None
  BY DEF Unused
<1>2. ~s.providers[p].attached
  BY <1>1 DEF Sound, AttachedIsUsed
<1>3. ASSUME NEW q \in RoomSlots PROVE s.rooms[q].provider # p /\ s.rooms[q].pending # p
  <2>1. CASE ~Placed(s, q)
    BY <1>1, <2>1 DEF Sound, RoomsArePlaced, NoRoom
  <2>2. CASE Placed(s, q)
    <3>1. s.rooms[q].provider # p
      BY <1>1, <2>2 DEF Sound, RoomsArePlaced
    <3>2. s.rooms[q].pending # None => s.providers[s.rooms[q].pending].props = s.rooms[q].props
      BY <2>2 DEF Sound, PendingIsNew
    <3> QED BY <1>1, <2>2, <3>1, <3>2 DEF Placed
  <2> QED BY <2>1, <2>2
<1>4. \A i \in DOMAIN s.timers : s.timers[i].of # p
  BY <1>1 DEF Sound, ComingIsUnused
<1> QED BY <1>1, <1>2, <1>3, <1>4

LEMMA RenderedFields ==
    ASSUME NEW s \in States, NEW r \in RoomSlots, NEW props \in Props, NEW socket \in Sockets
    PROVE  LET t == Rendered(s, r, props, socket)
               p == IF s.rooms[r].pending = None THEN s.rooms[r].provider ELSE s.rooms[r].pending
           IN  /\ t \in States /\ t.providers = s.providers /\ t.map = s.map /\ t.timers = s.timers
               /\ t.rooms = [s.rooms EXCEPT ![r] = [props |-> props, socket |-> socket,
                                                    provider |-> p, pending |-> None]]
<1> DEFINE p == IF s.rooms[r].pending = None THEN s.rooms[r].provider ELSE s.rooms[r].pending
           R == [s.rooms EXCEPT ![r] = [props |-> props, socket |-> socket, provider |-> p, pending |-> None]]
           t == Rendered(s, r, props, socket)
<1>1. s.rooms \in [RoomSlots -> Room] /\ s.rooms[r] \in Room
  BY DEF States
<1>2. p \in Providers \cup {None}
  BY <1>1 DEF Room
<1> HIDE DEF p
<1>3. R \in [RoomSlots -> Room]
  BY <1>1, <1>2 DEF Room
<1>4. t = [s EXCEPT !.rooms = R]
  BY DEF Rendered, p, States
<1> HIDE DEF R
<1>5. t \in States /\ t.providers = s.providers /\ t.map = s.map /\ t.timers = s.timers /\ t.rooms = R
  BY <1>3, <1>4 DEF States
<1> QED BY <1>5 DEF R, p

\* The second effect of a room: after a cleanup it clears the timeout of that one; alone,
\* and again in StrictMode, it attaches the provider.
LEMMA EffectAfterCleanup ==
    ASSUME NEW s \in States, NEW r \in RoomSlots, NEW q \in Providers,
           \A i \in DOMAIN s.timers : s.timers[i].owner = None
    PROVE  AttachEffect(Cleanup(s, r, q), r) = Attach(s, s.rooms[r].provider)
<1> USE RoomsAssumption
<1>1. \A i \in DOMAIN s.timers : s.timers[i].owner # r
  OBVIOUS
<1>2. Clear(Cleanup(s, r, q), r) = s
  BY <1>1, ClearArmed
<1>3. Cleanup(s, r, q).rooms = s.rooms
  BY DEF Cleanup, Arm, States
<1> QED BY <1>2, <1>3 DEF AttachEffect

LEMMA EffectAttaches ==
    ASSUME NEW s \in States, NEW r \in RoomSlots, NEW p \in Providers, s.rooms[r].provider = p,
           \A i \in DOMAIN s.timers : s.timers[i].owner = None,
           ~s.providers[p].attached, s.providers[p].props \in Props, s.providers[p].socket \in Sockets,
           s.map[s.providers[p].socket][s.providers[p].props.name] = None
    PROVE  LET t == Attach(s, p) IN
           /\ t \in States /\ t.rooms = s.rooms /\ t.timers = s.timers
           /\ t.providers = [s.providers EXCEPT ![p].attached = TRUE]
           /\ t.map = [s.map EXCEPT ![s.providers[p].socket][s.providers[p].props.name] = p]
           /\ AttachEffect(s, r) = t
           /\ AttachEffect(Cleanup(t, r, p), r) = t
<1> USE RoomsAssumption
<1> DEFINE t == Attach(s, p)
<1>1. /\ t \in States /\ t.rooms = s.rooms /\ t.timers = s.timers
      /\ t.providers = [s.providers EXCEPT ![p].attached = TRUE]
      /\ t.map = [s.map EXCEPT ![s.providers[p].socket][s.providers[p].props.name] = p]
  BY AttachFields
<1> HIDE DEF t
<1>2. \A i \in DOMAIN s.timers : s.timers[i].owner # r
  OBVIOUS
<1>3. AttachEffect(s, r) = t
  <2>1. Clear(s, r) = s
    BY <1>2, ClearNothing
  <2> QED BY <2>1 DEF AttachEffect, t
<1>4. AttachEffect(Cleanup(t, r, p), r) = t
  <2>1. t.rooms[r].provider = p /\ \A i \in DOMAIN t.timers : t.timers[i].owner = None
    BY <1>1
  <2>2. t.providers[p].attached
    BY <1>1 DEF States, Provider
  <2>3. Attach(t, p) = t
    BY <2>2, AttachAgain
  <2> QED BY <1>1, <2>1, <2>3, EffectAfterCleanup
<1> QED BY <1>1, <1>3, <1>4, Zenon DEF t

LEMMA TimerStep == ASSUME RoomsInv, TimerFires PROVE RoomsInv'
<1> DEFINE it == Head(timers).of
           rest == [Now EXCEPT !.timers = Tail(@)]
<1>1. Sound(Now, component, alive) /\ Now.timers # << >> /\ Head(Now.timers).of = it
  BY NowFields DEF RoomsInv, TimerFires
<1>2. strict' = strict /\ component' = component /\ strict \in BOOLEAN
  BY DEF RoomsInv, TimerFires
<1>3. CASE it \in Providers /\ Becomes(Destroy(rest, {it})) /\ alive' = alive
  <2>1. Sound(Destroy(rest, {it}), component, alive)
    BY <1>1, <1>3, ProviderIsDestroyed
  <2> QED BY <1>2, <1>3, <2>1, BecomesSound
<1>4. CASE it \notin Providers /\ Becomes(rest) /\ alive' = alive \ {it}
  <2>1. Sound(rest, component, alive \ {it})
    BY <1>1, <1>4, SocketIsDestroyed
  <2> QED BY <1>2, <1>4, <2>1, BecomesSound
<1> QED BY <1>3, <1>4 DEF TimerFires

LEMMA UnmountStep == ASSUME RoomsInv, NEW r \in RoomSlots, Unmount(r) PROVE RoomsInv'
<1>1. Sound(Now, component, alive) /\ Placed(Now, r)
  BY MountedIsPlaced DEF RoomsInv, Unmount
<1>2. Sound(Unmounted(Now, {r}), component, alive)
  <2>1. {r} \in SUBSET RoomSlots /\ \A q \in {r} : Placed(Now, q)
    BY <1>1
  <2>2. /\ Now \in States /\ component \in Component /\ alive \in SUBSET OwnSockets
        /\ ComingIsUnused(Now) /\ SocketsAreOwned(Now, component, alive)
    BY <1>1 DEF Sound
  <2> QED BY <1>1, <2>1, <2>2, UnmountedIsSound
<1>3. /\ Becomes(Unmounted(Now, {r})) /\ component' = component /\ alive' = alive
      /\ strict' = strict /\ strict \in BOOLEAN
  BY DEF Unmount, RoomsInv
<1> QED BY <1>2, <1>3, BecomesSound

LEMMA MountComponentStep ==
    ASSUME RoomsInv, NEW external \in BOOLEAN, MountComponent(external) PROVE RoomsInv'
<1> USE RoomsAssumption
<1> PICK w \in IF external THEN {None} ELSE NewSockets :
       /\ component' = [mounted |-> TRUE, external |-> external, ref |-> w]
       /\ alive' = alive \cup ({w} \ {None})
  BY DEF MountComponent
<1>1. Sound(Now, component, alive) /\ ~component.mounted
  BY DEF RoomsInv, MountComponent
<1>2. Now' = Now /\ strict' = strict /\ strict \in BOOLEAN
  BY DEF MountComponent, reactVars, Now, RoomsInv
<1>3. IF external THEN w = None ELSE w \in OwnSockets \ alive
  BY DEF NewSockets
<1>4. component' \in Component /\ alive' \subseteq OwnSockets
  BY <1>1, <1>3 DEF Sound, Component
<1>5. \A r \in RoomSlots : ~Placed(Now, r)
  BY <1>1 DEF Sound, RoomsArePlaced
<1>6. RoomsArePlaced(Now, component')
  BY <1>1, <1>5 DEF Sound, RoomsArePlaced
<1>7. SocketsAreOwned(Now, component', alive')
  <2>1. component = Closed
    BY <1>1 DEF Sound, SocketsAreOwned
  <2>2. \A x \in alive : IsComing(Now, x)
    BY <1>1, <2>1 DEF Sound, SocketsAreOwned, Closed
  <2>3. \A i \in DOMAIN Now.timers : Now.timers[i].of \in OwnSockets =>
          /\ Now.timers[i].of \in alive
          /\ \A j \in DOMAIN Now.timers : Now.timers[j].of = Now.timers[i].of => j = i
    BY <1>1 DEF Sound, SocketsAreOwned
  <2>4. None \notin OwnSockets
    BY DEF Sockets
  <2>5. CASE external
    BY <1>3, <2>2, <2>3, <2>4, <2>5 DEF SocketsAreOwned
  <2>6. CASE ~external
    BY <1>3, <2>2, <2>3, <2>4, <2>6 DEF SocketsAreOwned
  <2> QED BY <2>5, <2>6
<1>8. Sound(Now, component', alive')
  BY <1>1, <1>4, <1>6, <1>7 DEF Sound
<1> QED BY <1>2, <1>8 DEF RoomsInv

LEMMA UnmountComponentStep == ASSUME RoomsInv, UnmountComponent PROVE RoomsInv'
<1> USE RoomsAssumption
<1> DEFINE u == IF OwnsSocket THEN Arm(Now, None, component.ref) ELSE Now
<1>1. /\ Sound(Now, component, alive) /\ component.mounted /\ component' = Closed
      /\ Becomes(Unmounted(u, MountedRooms))
      /\ alive' = alive /\ strict' = strict /\ strict \in BOOLEAN
  BY DEF RoomsInv, UnmountComponent
<1>2. /\ Now \in States /\ alive \in SUBSET OwnSockets /\ Closed \in Component
      /\ ComingIsUnused(Now) /\ SocketsAreOwned(Now, component, alive)
  BY <1>1 DEF Sound, Closed, Component
<1>3. /\ u \in States /\ u.rooms = Now.rooms /\ u.providers = Now.providers /\ u.map = Now.map
      /\ ComingIsUnused(u) /\ SocketsAreOwned(u, Closed, alive)
      /\ \A it : IsComing(Now, it) => IsComing(u, it)
  <2>1. CASE component.external
    <3>1. u = Now
      BY <2>1 DEF OwnsSocket
    <3>2. component.ref = None
      BY <1>2, <2>1 DEF SocketsAreOwned
    <3>3. \A w \in alive : IsComing(Now, w)
      BY <1>2, <2>1, <3>2 DEF SocketsAreOwned, Sockets
    <3>4. SocketsAreOwned(Now, Closed, alive)
      BY <1>2, <3>2, <3>3 DEF SocketsAreOwned, Closed
    <3> QED BY <1>2, <3>1, <3>4
  <2>2. CASE ~component.external
    <3> DEFINE w == component.ref
               n == Len(Now.timers)
    <3>1. w \in alive /\ w \in OwnSockets
      BY <1>1, <1>2, <2>2 DEF SocketsAreOwned
    <3>2. u = Arm(Now, None, w)
      BY <2>2 DEF OwnsSocket
    <3>3. /\ u \in States /\ u.rooms = Now.rooms /\ u.providers = Now.providers /\ u.map = Now.map
          /\ u.timers = Append(Now.timers, [owner |-> None, of |-> w])
      BY <1>2, <3>1, <3>2, ArmFields
    <3>4. Now.timers \in Seq(Timer) /\ n \in Nat /\ DOMAIN Now.timers = 1 .. n
      BY <1>2 DEF States
    <3> HIDE DEF u, w, n
    <3>5. /\ \A i \in DOMAIN Now.timers : i \in DOMAIN u.timers /\ u.timers[i] = Now.timers[i]
          /\ \A i \in DOMAIN u.timers : i \in DOMAIN Now.timers \/ i = n + 1
          /\ n + 1 \in DOMAIN u.timers /\ u.timers[n + 1] = [owner |-> None, of |-> w]
      BY <3>3, <3>4 DEF n
    <3>6. \A it : IsComing(Now, it) => IsComing(u, it)
      BY <3>5 DEF IsComing
    <3>7. IsComing(u, w)
      BY <3>5 DEF IsComing
    <3>8. \A r \in RoomSlots : (Placed(u, r) <=> Placed(Now, r)) /\ NamesOf(u, r) = NamesOf(Now, r)
      BY <3>3, Zenon DEF Placed, NamesOf
    <3>9. ComingIsUnused(u)
      <4> SUFFICES ASSUME NEW i \in DOMAIN u.timers
                   PROVE  /\ u.timers[i].owner = None
                          /\ u.timers[i].of \in Providers =>
                               /\ Now.providers[u.timers[i].of].props # None
                               /\ \A r \in RoomSlots : Placed(Now, r) =>
                                    Now.providers[u.timers[i].of].props.name \notin NamesOf(Now, r)
        BY <3>3, <3>8 DEF ComingIsUnused
      <4>1. CASE i \in DOMAIN Now.timers
        <5>1. u.timers[i] = Now.timers[i]
          BY <4>1, <3>5
        <5> QED BY <4>1, <5>1, <1>2 DEF ComingIsUnused
      <4>2. CASE i = n + 1
        BY <4>2, <3>1, <3>5 DEF Sockets
      <4> QED BY <3>5, <4>1, <4>2, Zenon
    <3>10. \A x \in alive : IsComing(u, x)
      BY <1>2, <3>6, <3>7 DEF SocketsAreOwned, w
    <3>11. ASSUME NEW i \in DOMAIN u.timers, u.timers[i].of \in OwnSockets
           PROVE  /\ u.timers[i].of \in alive
                  /\ \A j \in DOMAIN u.timers : u.timers[j].of = u.timers[i].of => j = i
      <4>1. \A j \in DOMAIN Now.timers : u.timers[j] = Now.timers[j] /\ Now.timers[j].of # w
        BY <1>2, <3>1, <3>5 DEF SocketsAreOwned, w
      <4>2. u.timers[n + 1].of = w
        BY <3>5
      <4>3. CASE i \in DOMAIN Now.timers
        <5>1. Now.timers[i].of \in OwnSockets
          BY <3>11, <4>1, <4>3
        <5>2. /\ Now.timers[i].of \in alive
              /\ \A j \in DOMAIN Now.timers : Now.timers[j].of = Now.timers[i].of => j = i
          BY <1>2, <4>3, <5>1 DEF SocketsAreOwned
        <5> QED BY <4>1, <4>2, <4>3, <5>2, <3>5
      <4>4. CASE i = n + 1
        BY <4>1, <4>2, <4>4, <3>1, <3>5
      <4> QED BY <3>5, <4>3, <4>4
    <3>12. None \notin OwnSockets
      BY DEF Sockets
    <3>13. SocketsAreOwned(u, Closed, alive)
      BY <3>10, <3>11, <3>12 DEF SocketsAreOwned, Closed
    <3> QED BY <3>3, <3>6, <3>9, <3>13
  <2> QED BY <2>1, <2>2
<1> HIDE DEF u
<1>4. /\ MountedRooms \in SUBSET RoomSlots /\ \A r \in MountedRooms : Placed(Now, r)
      /\ \A r \in RoomSlots \ MountedRooms : ~Placed(Now, r)
  BY MountedIsPlaced DEF MountedRooms
<1>5. Sound(Unmounted(u, MountedRooms), Closed, alive)
  BY <1>1, <1>2, <1>3, <1>4, UnmountedIsSound
<1> QED BY <1>1, <1>5, BecomesSound

LEMMA SwitchSocketStep == ASSUME RoomsInv, ~Dropped, SwitchSocket PROVE RoomsInv'
<1> USE RoomsAssumption
<1>1. /\ Sound(Now, component, alive) /\ component.mounted /\ component.external
      /\ \A r \in RoomSlots : Now.rooms[r].pending = None
      /\ Injection(MountedRooms, Unused(Now)) # {}
      /\ strict' = strict /\ strict \in BOOLEAN
  BY NowFields DEF RoomsInv, SwitchSocket
<1>2. component.ref = None /\ SocketOf(component) = External
  BY <1>1 DEF Sound, SocketsAreOwned, SocketOf
<1> DEFINE rendered(w) == [Now EXCEPT !.rooms = [r \in RoomSlots |->
                 IF Mounted(r) THEN [rooms[r] EXCEPT !.socket = w] ELSE rooms[r]]]
<1>3. PICK w \in NewSockets :
         /\ component' = [mounted |-> TRUE, external |-> FALSE, ref |-> w]
         /\ alive' = alive \cup {w}
         /\ Becomes(Recreate(rendered(w), MountedRooms))
  BY <1>1, <1>2 DEF SwitchSocket
<1>4. w \in OwnSockets /\ w \notin alive
  BY DEF NewSockets
<1> DEFINE u == rendered(w)
           d == [mounted |-> TRUE, external |-> FALSE, ref |-> w]
           b == alive \cup {w}
           R == [r \in RoomSlots |-> IF Mounted(r) THEN [rooms[r] EXCEPT !.socket = w] ELSE rooms[r]]
<1>5. /\ Now \in States /\ alive \subseteq OwnSockets /\ rooms \in [RoomSlots -> Room]
      /\ SocketsAreOwned(Now, component, alive)
  BY <1>1 DEF Sound, States, Now
<1>6. d \in Component /\ b \in SUBSET OwnSockets /\ SocketOf(d) = w /\ d.mounted
  BY <1>4, <1>5 DEF Component, SocketOf
<1>7. R \in [RoomSlots -> Room]
  <2> SUFFICES ASSUME NEW r \in RoomSlots PROVE R[r] \in Room
    OBVIOUS
  <2>1. rooms[r] \in Room /\ w \in Sockets \cup {None}
    BY <1>4, <1>5 DEF Sockets
  <2> QED BY <2>1 DEF Room
<1>8. u = [Now EXCEPT !.rooms = R]
  OBVIOUS
<1>9. /\ \A r \in RoomSlots \ MountedRooms : R[r] = rooms[r]
      /\ \A r \in MountedRooms : /\ R[r].socket = w /\ R[r].props = rooms[r].props
                                 /\ R[r].provider = rooms[r].provider /\ R[r].pending = rooms[r].pending
  BY <1>5 DEF MountedRooms, Room
<1> HIDE DEF R, rendered
<1>10. /\ u \in States /\ u.providers = Now.providers /\ u.map = Now.map /\ u.timers = Now.timers
       /\ u.rooms = R
  BY <1>5, <1>7, <1>8 DEF States
<1>11. /\ MountedRooms \in SUBSET RoomSlots
       /\ \A r \in RoomSlots : r \in MountedRooms <=> Placed(Now, r)
  BY MountedIsPlaced DEF MountedRooms
<1> HIDE DEF u, d, b
<1>12. \A r \in MountedRooms : Placed(Now, r) /\ Now.rooms[r].pending = None
  BY <1>1, <1>11
<1>13. \A r \in RoomSlots \ MountedRooms : u.rooms[r] = Now.rooms[r]
  BY <1>9, <1>10, NowFields
<1>14. \A r \in MountedRooms :
         /\ u.rooms[r].props \in Props /\ u.rooms[r].provider = Now.rooms[r].provider
         /\ u.rooms[r].props = Now.rooms[r].props
         /\ u.rooms[r].socket = w /\ u.rooms[r].socket # Now.rooms[r].socket
         /\ u.rooms[r].pending = None
  <2> SUFFICES ASSUME NEW r \in MountedRooms
               PROVE  /\ u.rooms[r].props \in Props /\ u.rooms[r].provider = Now.rooms[r].provider
                      /\ u.rooms[r].props = Now.rooms[r].props
                      /\ u.rooms[r].socket = w /\ u.rooms[r].socket # Now.rooms[r].socket
                      /\ u.rooms[r].pending = None
    OBVIOUS
  <2>1. r \in RoomSlots /\ Placed(Now, r) /\ rooms[r].pending = None
    BY <1>11, <1>12, NowFields
  <2>2. rooms[r].socket = External
    BY <1>1, <1>2, <2>1, NowFields DEF Sound, RoomsArePlaced
  <2>3. rooms[r].props \in Props
    BY <1>5, <2>1, NowFields, Zenon DEF Placed, Room
  <2> QED BY <1>4, <1>9, <1>10, <2>1, <2>2, <2>3, NowFields
<1>15. \A r \in MountedRooms, q \in RoomSlots : (q # r /\ Placed(Now, q)) =>
         u.rooms[r].props.name \notin NamesOf(Now, q)
  <2> SUFFICES ASSUME NEW r \in MountedRooms, NEW q \in RoomSlots, q # r, Placed(Now, q)
               PROVE  Now.rooms[r].props.name \notin NamesOf(Now, q)
    BY <1>14
  <2>1. NamesOf(Now, r) \cap NamesOf(Now, q) = {}
    BY <1>1, <1>11 DEF Sound, NamesAreApart
  <2> QED BY <2>1 DEF NamesOf
<1>16. \A r, q \in MountedRooms : r # q => u.rooms[r].props.name # u.rooms[q].props.name
  <2> SUFFICES ASSUME NEW r \in MountedRooms, NEW q \in MountedRooms, r # q
               PROVE  u.rooms[r].props.name # u.rooms[q].props.name
    OBVIOUS
  <2>1. u.rooms[r].props.name \notin NamesOf(Now, q)
    BY <1>11, <1>15, Zenon
  <2>2. u.rooms[q].props.name \in NamesOf(Now, q)
    BY <1>14, Zenon DEF NamesOf
  <2> QED BY <2>1, <2>2
<1>17. \A r \in MountedRooms, i \in DOMAIN Now.timers : Now.timers[i].of \in Providers =>
         Now.providers[Now.timers[i].of].props.name # u.rooms[r].props.name
  <2> SUFFICES ASSUME NEW r \in MountedRooms, NEW i \in DOMAIN Now.timers, Now.timers[i].of \in Providers
               PROVE  Now.providers[Now.timers[i].of].props.name # Now.rooms[r].props.name
    BY <1>14
  <2>1. Now.providers[Now.timers[i].of].props.name \notin NamesOf(Now, r)
    BY <1>1, <1>11 DEF Sound, ComingIsUnused
  <2> QED BY <2>1, Zenon DEF NamesOf
<1>18. \A r \in RoomSlots : Placed(Now, r) => d.mounted /\ u.rooms[r].socket = SocketOf(d)
  BY <1>6, <1>11, <1>14
<1>19. SocketsAreOwned(Now, d, b)
  <2>1. \A x \in alive : IsComing(Now, x)
    BY <1>2, <1>5 DEF SocketsAreOwned, Sockets
  <2>2. \A i \in DOMAIN Now.timers : Now.timers[i].of \in OwnSockets =>
          /\ Now.timers[i].of \in alive
          /\ \A j \in DOMAIN Now.timers : Now.timers[j].of = Now.timers[i].of => j = i
    BY <1>5 DEF SocketsAreOwned
  <2> QED BY <1>4, <2>1, <2>2 DEF SocketsAreOwned, d, b
<1>20. Sound(Recreate(u, MountedRooms), d, b)
  <2>1. \A r \in MountedRooms :
          /\ u.rooms[r].props \in Props /\ u.rooms[r].provider = Now.rooms[r].provider
          /\ u.rooms[r].props # Now.rooms[r].props \/ u.rooms[r].socket # Now.rooms[r].socket
          /\ u.rooms[r].pending = None
    BY <1>14
  <2>2. Changes(Now, u, MountedRooms, d)
    BY <1>1, <1>10, <1>12, <1>13, <1>15, <1>16, <1>17, <1>18, <2>1 DEF Changes
  <2> QED BY <1>1, <1>6, <1>10, <1>11, <1>19, <2>2, RecreatedIsSound
<1>21. component' = d /\ alive' = b /\ Becomes(Recreate(u, MountedRooms))
  BY <1>3 DEF u, d, b
<1> QED BY <1>1, <1>20, <1>21, BecomesSound

LEMMA ChangePropsStep ==
    ASSUME RoomsInv, ~Batched, ~Reused, NEW r \in RoomSlots, NEW props \in Props, ChangeProps(r, props)
    PROVE  RoomsInv'
<1> USE RoomsAssumption
<1> DEFINE u == Rendered(Now, r, props, rooms[r].socket)
<1>1. /\ Sound(Now, component, alive) /\ Placed(Now, r) /\ Now.rooms[r].pending = None
      /\ props # Now.rooms[r].props
      /\ strict' = strict /\ strict \in BOOLEAN /\ component' = component /\ alive' = alive
      /\ Becomes(Commit(Now, r, props, rooms[r].socket))
  BY MountedIsPlaced, NowFields DEF RoomsInv, ChangeProps
<1>2. /\ Now \in States /\ component \in Component /\ alive \in SUBSET OwnSockets
      /\ rooms \in [RoomSlots -> Room] /\ SocketsAreOwned(Now, component, alive)
  BY <1>1, NowFields DEF Sound, States
<1>3. rooms[r].socket = SocketOf(component) /\ component.mounted /\ rooms[r].socket \in Sockets
  BY <1>1, <1>2, NowFields DEF Sound, RoomsArePlaced, SocketsAreOwned, SocketOf, Sockets
<1>4. /\ \A q \in RoomSlots : (Placed(Now, q) /\ q # r) => props.name \notin NamesOf(Now, q)
      /\ \A i \in DOMAIN Now.timers : Now.timers[i].of \in Providers =>
           Now.providers[Now.timers[i].of].props.name # props.name
      /\ Unused(Now) # {}
  BY NameIsApart DEF ChangeProps
<1>5. /\ u \in States /\ u.providers = Now.providers /\ u.map = Now.map /\ u.timers = Now.timers
      /\ u.rooms = [Now.rooms EXCEPT ![r] = [props |-> props, socket |-> rooms[r].socket,
                                             provider |-> Now.rooms[r].provider, pending |-> None]]
  BY <1>1, <1>2, <1>3, RenderedFields
<1>6. Commit(Now, r, props, rooms[r].socket) = Recreate(u, {r})
  BY <1>1, NowFields DEF Commit
<1> HIDE DEF u
<1>7. /\ \A q \in RoomSlots \ {r} : u.rooms[q] = Now.rooms[q]
      /\ u.rooms[r] = [props |-> props, socket |-> rooms[r].socket,
                       provider |-> Now.rooms[r].provider, pending |-> None]
  BY <1>2, <1>5, NowFields
<1>8. {r} \in SUBSET RoomSlots /\ Injection({r}, Unused(Now)) # {}
  BY <1>4, OneNewProvider
<1>9. \A q \in RoomSlots : Placed(Now, q) => component.mounted /\ u.rooms[q].socket = SocketOf(component)
  BY <1>1, <1>3, <1>7 DEF Sound, RoomsArePlaced
<1>10. \A q \in {r} : Placed(Now, q) /\ Now.rooms[q].pending = None
  BY <1>1
<1>11. \A q \in {r} : /\ u.rooms[q].props \in Props /\ u.rooms[q].provider = Now.rooms[q].provider
                      /\ u.rooms[q].props # Now.rooms[q].props \/ u.rooms[q].socket # Now.rooms[q].socket
                      /\ u.rooms[q].pending = None
  BY <1>1, <1>7
<1>12. \A q, x \in {r} : q # x => u.rooms[q].props.name # u.rooms[x].props.name
  OBVIOUS
<1>13. \A q \in {r}, x \in RoomSlots : (x # q /\ Placed(Now, x)) => u.rooms[q].props.name \notin NamesOf(Now, x)
  BY <1>4, <1>7
<1>14. \A q \in {r}, i \in DOMAIN Now.timers : Now.timers[i].of \in Providers =>
         Now.providers[Now.timers[i].of].props.name # u.rooms[q].props.name
  BY <1>4, <1>7
<1>15. \A q \in RoomSlots \ {r} : u.rooms[q] = Now.rooms[q]
  BY <1>7
<1>16. Sound(Recreate(u, {r}), component, alive)
  <2>1. Changes(Now, u, {r}, component)
    BY <1>5, <1>8, <1>9, <1>10, <1>11, <1>12, <1>13, <1>14, <1>15 DEF Changes
  <2> QED BY <1>1, <1>2, <1>5, <1>8, <2>1, RecreatedIsSound, Zenon
<1> QED BY <1>1, <1>6, <1>16, BecomesSound

\* The provider of the update that a room renders is attached, and destroys no other.
LEMMA RerenderStep == ASSUME RoomsInv, NEW r \in RoomSlots, Rerender(r) PROVE RoomsInv'
<1> USE RoomsAssumption
<1> DEFINE p == Now.rooms[r].pending
           props == Now.rooms[r].props
           socket == Now.rooms[r].socket
           u == Rendered(Now, r, props, socket)
           t == Attach(u, p)
<1>1. /\ Sound(Now, component, alive) /\ p # None
      /\ strict' = strict /\ strict \in BOOLEAN /\ component' = component /\ alive' = alive
      /\ Becomes(Commit(Now, r, props, socket))
  BY NowFields DEF RoomsInv, Rerender
<1>2. /\ Now \in States /\ Now.rooms \in [RoomSlots -> Room] /\ Now.providers \in [Providers -> Provider]
      /\ Now.map \in [Sockets -> [Names -> Providers \cup {None}]]
      /\ SocketsAreOwned(Now, component, alive)
  BY <1>1 DEF Sound, States
<1>3. Placed(Now, r)
  BY <1>1 DEF Sound, RoomsArePlaced, NoRoom
<1>4. /\ p \in Providers /\ props \in Props /\ props.name \in Names
      /\ Now.rooms[r].provider \in Providers
  BY <1>1, <1>2, <1>3 DEF Sound, RoomsArePlaced, Placed, Room, Names
<1>5. socket = SocketOf(component) /\ component.mounted /\ socket \in Sockets
  BY <1>1, <1>2, <1>3 DEF Sound, RoomsArePlaced, SocketsAreOwned, SocketOf, Sockets
<1>6. /\ Now.providers[p].props = props /\ Now.providers[p].socket = socket
      /\ ~Now.providers[p].attached /\ ~Now.providers[p].destroyed
      /\ ~Now.providers[Now.rooms[r].provider].attached
  BY <1>1, <1>3 DEF Sound, PendingIsNew
<1>7. props.name \in NamesOf(Now, r)
  BY DEF NamesOf
<1>8. ASSUME NEW q \in RoomSlots, Placed(Now, q), q # r PROVE props.name \notin NamesOf(Now, q)
  <2>1. NamesOf(Now, r) \cap NamesOf(Now, q) = {}
    BY <1>1, <1>3, <1>8 DEF Sound, NamesAreApart
  <2> QED BY <2>1, <1>7
<1>9. ASSUME NEW i \in DOMAIN Now.timers, Now.timers[i].of \in Providers
      PROVE  Now.providers[Now.timers[i].of].props.name # props.name
  <2>1. Now.providers[Now.timers[i].of].props.name \notin NamesOf(Now, r)
    BY <1>1, <1>3, <1>9, Zenon DEF Sound, ComingIsUnused
  <2> QED BY <2>1, <1>7
<1>10. Now.map[socket][props.name] = None
  <2>1. \A q \in RoomSlots : LET x == Now.rooms[q].provider IN
          (Placed(Now, q) /\ Now.providers[x].attached) => Now.providers[x].props.name # props.name
    BY <1>6, <1>8, Zenon DEF NamesOf
  <2>2. \A i \in DOMAIN Now.timers : Now.timers[i].of \in Providers =>
          Now.providers[Now.timers[i].of].props.name # props.name
    BY <1>9, Zenon
  <2> HIDE DEF props, socket
  <2> QED BY <1>1, <1>4, <1>5, <2>1, <2>2, NameIsFree
<1>11. \A i \in DOMAIN Now.timers : Now.timers[i].of # p
  BY <1>4, <1>6, <1>9
<1>12. ASSUME NEW q \in RoomSlots, q # r PROVE Now.rooms[q].provider # p /\ Now.rooms[q].pending # p
  <2>1. CASE ~Placed(Now, q)
    <3>1. Now.rooms[q] = NoRoom
      BY <1>1, <2>1 DEF Sound, RoomsArePlaced
    <3> QED BY <3>1, <1>4 DEF NoRoom
  <2>2. CASE Placed(Now, q)
    <3>1. props.name \notin NamesOf(Now, q)
      BY <1>8, <1>12, <2>2, Zenon
    <3>2. Now.rooms[q].provider # p
      BY <3>1, <1>6 DEF NamesOf
    <3>3. Now.rooms[q].pending # None => Now.providers[Now.rooms[q].pending].props = Now.rooms[q].props
      BY <1>1, <2>2 DEF Sound, PendingIsNew
    <3> QED BY <3>1, <3>2, <3>3, <1>1, <1>6, Zenon DEF NamesOf
  <2> QED BY <2>1, <2>2
<1>13. /\ u \in States /\ u.providers = Now.providers /\ u.map = Now.map /\ u.timers = Now.timers
       /\ u.rooms = [Now.rooms EXCEPT ![r] = [props |-> props, socket |-> socket,
                                              provider |-> p, pending |-> None]]
  BY <1>1, <1>2, <1>4, <1>5, RenderedFields
<1>14. u.rooms[r].provider = p
  BY <1>2, <1>13
<1>15. Commit(Now, r, props, socket) = AttachEffect(Cleanup(u, r, Now.rooms[r].provider), r)
  BY <1>1 DEF Commit
<1> HIDE DEF u, p, props, socket
<1>16. \A i \in DOMAIN u.timers : u.timers[i].owner = None
  BY <1>1, <1>13 DEF Sound, ComingIsUnused
<1>17. /\ ~u.providers[p].attached /\ u.providers[p].props = props /\ u.providers[p].socket = socket
       /\ u.map[socket][props.name] = None
  BY <1>6, <1>10, <1>13
<1>18. /\ t \in States /\ t.rooms = u.rooms /\ t.timers = u.timers
       /\ t.providers = [u.providers EXCEPT ![p].attached = TRUE]
       /\ t.map = [u.map EXCEPT ![u.providers[p].socket][u.providers[p].props.name] = p]
       /\ \A q \in Providers : AttachEffect(Cleanup(u, r, q), r) = t
  <2>1. /\ ~u.providers[p].attached /\ u.providers[p].props \in Props /\ u.providers[p].socket \in Sockets
        /\ u.map[u.providers[p].socket][u.providers[p].props.name] = None
    BY <1>4, <1>5, <1>17
  <2>2. u \in States /\ p \in Providers
    BY <1>4, <1>13, Zenon
  <2>3. /\ t \in States /\ t.rooms = u.rooms /\ t.timers = u.timers
        /\ t.providers = [u.providers EXCEPT ![p].attached = TRUE]
        /\ t.map = [u.map EXCEPT ![u.providers[p].socket][u.providers[p].props.name] = p]
    BY ONLY <2>1, <2>2, AttachFields
  <2>4. \A q \in Providers : AttachEffect(Cleanup(u, r, q), r) = t
    BY <1>14, <1>16, <2>2, EffectAfterCleanup
  <2> QED BY ONLY <2>3, <2>4
<1>19. Commit(Now, r, props, socket) = t
  BY <1>4, <1>15, <1>18
<1> HIDE DEF t
<1>20. t.map = [Now.map EXCEPT ![SocketOf(component)][props.name] = p]
  BY <1>5, <1>13, <1>17, <1>18
<1>21. /\ t.providers[p].props = props /\ t.providers[p].socket = SocketOf(component)
       /\ t.providers[p].attached /\ ~t.providers[p].destroyed
  <2>1. Now.providers[p] \in Provider /\ t.providers[p] = [Now.providers[p] EXCEPT !.attached = TRUE]
    BY <1>2, <1>4, <1>13, <1>18
  <2> QED BY <1>5, <1>6, <2>1 DEF Provider
<1>22. \A q \in Providers : q # p => t.providers[q] = Now.providers[q]
  BY <1>2, <1>13, <1>18
<1>23. t.rooms = [Now.rooms EXCEPT ![r] = [props |-> props, socket |-> SocketOf(component),
                                           provider |-> p, pending |-> None]] /\ t.timers = Now.timers
  BY <1>5, <1>13, <1>18
<1>24. Sound(t, component, alive)
  <2>1. \A q \in RoomSlots : q # r => Now.rooms[q].provider # p /\ Now.rooms[q].pending # p
    BY <1>12
  <2>2. \A q \in RoomSlots : (Placed(Now, q) /\ q # r) => props.name \notin NamesOf(Now, q)
    BY <1>8
  <2>3. \A i \in DOMAIN Now.timers : Now.timers[i].of \in Providers =>
          Now.providers[Now.timers[i].of].props.name # props.name
    BY <1>9
  <2>4. /\ props \in Props /\ SocketOf(component) \in Sockets /\ p \in Providers /\ t \in States
        /\ component.mounted /\ Sound(Now, component, alive)
    BY <1>1, <1>4, <1>5, <1>18
  <2>5. ~Now.providers[p].attached /\ (Placed(Now, r) => ~Now.providers[Now.rooms[r].provider].attached)
    BY <1>6
  <2>6. Attaches(Now, component, r, props, p, t)
    BY <1>11, <1>20, <1>21, <1>22, <1>23, <2>1, <2>2, <2>3, <2>4, <2>5 DEF Attaches
  <2> QED BY ONLY <2>4, <2>6, AttachedIsSound
<1> QED BY <1>1, <1>19, <1>24, BecomesSound

LEMMA MountStep ==
    ASSUME RoomsInv, ~Reused, NEW r \in RoomSlots, NEW props \in Props, Mount(r, props)
    PROVE  RoomsInv'
<1> USE RoomsAssumption
<1> DEFINE placed == [Now EXCEPT !.rooms[r] = [props |-> props, socket |-> Socket,
                                              provider |-> None, pending |-> None]]
           v == Created(placed, {r})
           f == NewProviders(placed, {r})
           u == Rendered(v, r, props, Socket)
           p == f[r]
           t == Attach(u, p)
<1>1. /\ Sound(Now, component, alive) /\ ~Placed(Now, r) /\ component.mounted
      /\ strict' = strict /\ strict \in BOOLEAN /\ component' = component /\ alive' = alive
  BY MountedIsPlaced DEF RoomsInv, Mount
<1>2. /\ Now \in States /\ Now.rooms \in [RoomSlots -> Room] /\ Now.providers \in [Providers -> Provider]
      /\ Now.map \in [Sockets -> [Names -> Providers \cup {None}]]
      /\ SocketsAreOwned(Now, component, alive)
  BY <1>1 DEF Sound, States
<1>3. Becomes(LET mounted == AttachEffect(u, r) IN
              IF strict THEN AttachEffect(Cleanup(mounted, r, u.rooms[r].provider), r) ELSE mounted)
  BY DEF Mount
<1>4. Socket = SocketOf(component) /\ Socket \in Sockets /\ props.name \in Names /\ props # None
  BY <1>1, <1>2 DEF SocketsAreOwned, SocketOf, Socket, Sockets, Names, Sound
<1>5. /\ \A q \in RoomSlots : (Placed(Now, q) /\ q # r) => props.name \notin NamesOf(Now, q)
      /\ \A i \in DOMAIN Now.timers : Now.timers[i].of \in Providers =>
           Now.providers[Now.timers[i].of].props.name # props.name
      /\ Unused(Now) # {}
  BY NameIsApart DEF Mount
<1>6. /\ placed \in States /\ placed.providers = Now.providers /\ placed.map = Now.map
      /\ placed.timers = Now.timers
      /\ placed.rooms = [Now.rooms EXCEPT ![r] = [props |-> props, socket |-> Socket,
                                                  provider |-> None, pending |-> None]]
  <2> DEFINE R == [Now.rooms EXCEPT ![r] = [props |-> props, socket |-> Socket,
                                            provider |-> None, pending |-> None]]
  <2>1. R \in [RoomSlots -> Room]
    BY <1>2, <1>4 DEF Room
  <2>2. placed = [Now EXCEPT !.rooms = R]
    BY <1>2 DEF States
  <2> HIDE DEF R, placed
  <2>3. /\ placed \in States /\ placed.providers = Now.providers /\ placed.map = Now.map
        /\ placed.timers = Now.timers /\ placed.rooms = R
    BY <1>2, <2>1, <2>2 DEF States
  <2> QED BY <2>3 DEF R
<1> HIDE DEF placed
<1>7. Unused(placed) = Unused(Now) /\ Injection({r}, Unused(placed)) # {}
  <2>1. Unused(placed) = Unused(Now)
    BY <1>6 DEF Unused
  <2>2. Unused(placed) # {}
    BY <1>5, <2>1
  <2> QED BY <2>1, <2>2, OneNewProvider
<1> HIDE DEF v, f
<1>8. /\ v \in States /\ v.map = placed.map /\ v.timers = placed.timers
      /\ f \in [{r} -> Unused(placed)]
      /\ v.rooms = [q \in RoomSlots |->
           IF q \in {r} THEN [placed.rooms[q] EXCEPT !.pending = f[q]] ELSE placed.rooms[q]]
      /\ \A q \in {r} : v.providers[f[q]] =
           [props |-> placed.rooms[q].props, socket |-> placed.rooms[q].socket, attached |-> FALSE,
            destroyed |-> FALSE, isAuthenticated |-> FALSE]
      /\ \A x \in Providers : (\A q \in {r} : f[q] # x) => v.providers[x] = placed.providers[x]
  <2> DEFINE new == {r}
  <2>1. new \in SUBSET RoomSlots
    OBVIOUS
  <2>2. placed \in States /\ Injection(new, Unused(placed)) # {}
    BY <1>6, <1>7
  <2>3. v = Created(placed, new) /\ f = NewProviders(placed, new)
    BY DEF v, f
  <2> SUFFICES
        /\ v \in States /\ v.map = placed.map /\ v.timers = placed.timers
        /\ f \in [new -> Unused(placed)]
        /\ v.rooms = [q \in RoomSlots |->
             IF q \in new THEN [placed.rooms[q] EXCEPT !.pending = f[q]] ELSE placed.rooms[q]]
        /\ \A q \in new : v.providers[f[q]] =
             [props |-> placed.rooms[q].props, socket |-> placed.rooms[q].socket, attached |-> FALSE,
              destroyed |-> FALSE, isAuthenticated |-> FALSE]
        /\ \A x \in Providers : (\A q \in new : f[q] # x) => v.providers[x] = placed.providers[x]
    OBVIOUS
  <2> HIDE DEF new
  <2> QED BY ONLY <2>1, <2>2, <2>3, CreatedFields
<1>9. p \in Unused(Now)
  BY <1>7, <1>8
<1>10. /\ p \in Providers /\ ~Now.providers[p].attached
       /\ \A q \in RoomSlots : Now.rooms[q].provider # p /\ Now.rooms[q].pending # p
       /\ \A i \in DOMAIN Now.timers : Now.timers[i].of # p
  BY <1>1, <1>9, UnusedIsNobodys
<1>11. placed.rooms[r] = [props |-> props, socket |-> Socket, provider |-> None, pending |-> None]
  BY <1>2, <1>6
<1>12. v.rooms[r].pending = p /\ \A q \in RoomSlots : q # r => v.rooms[q] = Now.rooms[q]
  BY <1>2, <1>6, <1>8, <1>11
<1>13. /\ v.providers[p] = [props |-> props, socket |-> Socket, attached |-> FALSE,
                            destroyed |-> FALSE, isAuthenticated |-> FALSE]
       /\ \A x \in Providers : x # p => v.providers[x] = Now.providers[x]
  <2>1. f[r] = p /\ \A x \in Providers : x # p => \A q \in {r} : f[q] # x
    OBVIOUS
  <2>2. v.providers[f[r]] = [props |-> placed.rooms[r].props, socket |-> placed.rooms[r].socket,
                             attached |-> FALSE, destroyed |-> FALSE, isAuthenticated |-> FALSE]
    BY <1>8
  <2>3. \A x \in Providers : x # p => v.providers[x] = placed.providers[x]
    BY <1>8, <2>1
  <2> HIDE DEF p
  <2> QED BY <1>6, <1>11, <2>1, <2>2, <2>3
<1>14. v \in States /\ v.rooms \in [RoomSlots -> Room] /\ v.map = Now.map /\ v.timers = Now.timers
  BY <1>6, <1>8 DEF States
<1> HIDE DEF u, p
<1>15. /\ u \in States /\ u.providers = v.providers /\ u.map = v.map /\ u.timers = v.timers
       /\ u.rooms = [v.rooms EXCEPT ![r] = [props |-> props, socket |-> Socket,
                                            provider |-> p, pending |-> None]]
  <2>1. p # None
    BY <1>10
  <2> QED BY <1>4, <1>12, <1>14, <2>1, RenderedFields DEF u
<1>16. u.rooms = [Now.rooms EXCEPT ![r] = [props |-> props, socket |-> Socket,
                                           provider |-> p, pending |-> None]]
  BY <1>2, <1>12, <1>14, <1>15
<1>17. u.rooms[r].provider = p
  BY <1>2, <1>16
<1>18. Now.map[Socket][props.name] = None
  <2>1. \A q \in RoomSlots : LET x == Now.rooms[q].provider IN
          (Placed(Now, q) /\ Now.providers[x].attached) => Now.providers[x].props.name # props.name
    BY <1>1, <1>5 DEF NamesOf
  <2> QED BY <1>1, <1>4, <1>5, <2>1, NameIsFree
<1>19. \A i \in DOMAIN u.timers : u.timers[i].owner = None
  BY <1>1, <1>14, <1>15 DEF Sound, ComingIsUnused
<1>20. /\ ~u.providers[p].attached /\ u.providers[p].props = props /\ u.providers[p].socket = Socket
       /\ u.map[Socket][props.name] = None
  BY <1>13, <1>14, <1>15, <1>18
<1>21. /\ t \in States /\ t.rooms = u.rooms /\ t.timers = u.timers
       /\ t.providers = [u.providers EXCEPT ![p].attached = TRUE]
       /\ t.map = [u.map EXCEPT ![u.providers[p].socket][u.providers[p].props.name] = p]
       /\ AttachEffect(u, r) = t
       /\ AttachEffect(Cleanup(t, r, p), r) = t
  <2>1. /\ ~u.providers[p].attached /\ u.providers[p].props \in Props /\ u.providers[p].socket \in Sockets
        /\ u.map[u.providers[p].socket][u.providers[p].props.name] = None
    BY <1>4, <1>20
  <2>2. u \in States /\ p \in Providers
    BY <1>10, <1>15
  <2> HIDE DEF t
  <2> QED BY ONLY r \in RoomSlots, <1>17, <1>19, <2>1, <2>2, EffectAttaches DEF t
<1> HIDE DEF t
<1>22. Becomes(t)
  <2>1. (LET mounted == AttachEffect(u, r) IN
         IF strict THEN AttachEffect(Cleanup(mounted, r, u.rooms[r].provider), r) ELSE mounted) = t
    BY <1>17, <1>21
  <2> QED BY <1>3, <2>1
<1>23. t.map = [Now.map EXCEPT ![SocketOf(component)][props.name] = p]
  BY <1>4, <1>14, <1>15, <1>20, <1>21
<1>24. /\ t.providers[p].props = props /\ t.providers[p].socket = SocketOf(component)
       /\ t.providers[p].attached /\ ~t.providers[p].destroyed
  <2>1. u.providers \in [Providers -> Provider]
    BY <1>15 DEF States
  <2>2. t.providers[p] = [u.providers[p] EXCEPT !.attached = TRUE]
    BY <1>10, <1>21, <2>1
  <2> QED BY <1>4, <1>13, <1>15, <2>2
<1>25. \A q \in Providers : q # p => t.providers[q] = Now.providers[q]
  <2>1. u.providers \in [Providers -> Provider]
    BY <1>15 DEF States
  <2> QED BY <1>13, <1>15, <1>21, <2>1
<1>26. t.rooms = [Now.rooms EXCEPT ![r] = [props |-> props, socket |-> SocketOf(component),
                                           provider |-> p, pending |-> None]] /\ t.timers = Now.timers
  BY <1>4, <1>14, <1>15, <1>16, <1>21
<1>27. Sound(t, component, alive)
  <2>1. \A q \in RoomSlots : q # r => Now.rooms[q].provider # p /\ Now.rooms[q].pending # p
    BY <1>10
  <2>2. \A i \in DOMAIN Now.timers : Now.timers[i].of # p
    BY <1>10
  <2>3. \A q \in RoomSlots : (Placed(Now, q) /\ q # r) => props.name \notin NamesOf(Now, q)
    BY <1>5
  <2>4. \A i \in DOMAIN Now.timers : Now.timers[i].of \in Providers =>
          Now.providers[Now.timers[i].of].props.name # props.name
    BY <1>5
  <2>5. /\ SocketOf(component) \in Sockets /\ p \in Providers /\ t \in States
        /\ component.mounted /\ Sound(Now, component, alive)
    BY <1>1, <1>4, <1>10, <1>21
  <2>6. ~Now.providers[p].attached /\ (Placed(Now, r) => ~Now.providers[Now.rooms[r].provider].attached)
    BY <1>1, <1>10
  <2>7. Attaches(Now, component, r, props, p, t)
    BY <1>23, <1>24, <1>25, <1>26, <2>1, <2>2, <2>3, <2>4, <2>5, <2>6 DEF Attaches
  <2> QED BY ONLY <2>5, <2>7, AttachedIsSound
<1> QED BY <1>1, <1>22, <1>27, BecomesSound

\* Whether a provider is authenticated is no part of it.
LEMMA SameButAuthenticated ==
    ASSUME NEW s, NEW t \in States, NEW c, NEW a, Sound(s, c, a),
           t.rooms = s.rooms, t.map = s.map, t.timers = s.timers,
           \A q \in Providers :
               /\ t.providers[q].props = s.providers[q].props
               /\ t.providers[q].socket = s.providers[q].socket
               /\ t.providers[q].attached = s.providers[q].attached
               /\ t.providers[q].destroyed = s.providers[q].destroyed
    PROVE  Sound(t, c, a)
<1> USE RoomsAssumption
<1>1. \A r \in RoomSlots : Placed(t, r) <=> Placed(s, r)
  BY DEF Placed
<1>2. \A r \in RoomSlots : Placed(s, r) => s.rooms[r].provider \in Providers /\ NamesOf(t, r) = NamesOf(s, r)
  BY DEF Sound, RoomsArePlaced, NamesOf
<1>3. \A r \in RoomSlots : s.rooms[r].pending \in Providers \cup {None}
  BY DEF Sound, States, Room
<1>4. \A w \in Sockets, n \in Names : s.map[w][n] \in Providers \cup {None}
  BY DEF Sound, States
<1>5. \A it : IsComing(t, it) <=> IsComing(s, it)
  BY DEF IsComing
<1>6. RoomsArePlaced(t, c)
  BY <1>1, <1>2 DEF Sound, RoomsArePlaced
<1>7. RenderedIsAttached(t)
  BY <1>1, <1>2 DEF Sound, RenderedIsAttached
<1>8. PendingIsNew(t)
  BY <1>1, <1>2, <1>3 DEF Sound, PendingIsNew
<1>9. RoutedIsAttached(t)
  BY <1>4 DEF Sound, RoutedIsAttached
<1>10. AttachedIsUsed(t)
  BY <1>5 DEF Sound, AttachedIsUsed
<1>11. NamesAreApart(t)
  BY <1>1, <1>2 DEF Sound, NamesAreApart
<1>12. ComingIsUnused(t)
  BY <1>1, <1>2 DEF Sound, ComingIsUnused
<1>13. SocketsAreOwned(t, c, a)
  BY <1>5 DEF Sound, SocketsAreOwned
<1> QED BY <1>6, <1>7, <1>8, <1>9, <1>10, <1>11, <1>12, <1>13 DEF Sound

LEMMA AuthenticatedStep ==
    ASSUME RoomsInv, NEW w \in Sockets, NEW n \in Names, Authenticated(w, n) PROVE RoomsInv'
<1> DEFINE p == providerMap[w][n]
           P == [providers EXCEPT ![p].isAuthenticated = TRUE]
           t == [rooms |-> rooms, providers |-> P, map |-> providerMap, timers |-> timers]
<1>1. /\ Sound(Now, component, alive) /\ component' = component /\ alive' = alive
      /\ strict' = strict /\ strict \in BOOLEAN /\ Now' = t
  BY DEF RoomsInv, Authenticated, Now
<1>2. providers \in [Providers -> Provider] /\ Now \in States
  BY <1>1, NowFields DEF Sound, States
<1>3. P \in [Providers -> Provider]
  BY <1>2 DEF Provider
<1>4. \A q \in Providers :
        /\ P[q].props = Now.providers[q].props /\ P[q].socket = Now.providers[q].socket
        /\ P[q].attached = Now.providers[q].attached /\ P[q].destroyed = Now.providers[q].destroyed
  BY <1>2, NowFields DEF Provider
<1> HIDE DEF P
<1>5. t.rooms = Now.rooms /\ t.map = Now.map /\ t.timers = Now.timers /\ t.providers = P
  BY NowFields
<1>6. t \in States
  BY <1>2, <1>3, NowFields DEF States
<1> HIDE DEF t
<1>7. Sound(t, component, alive)
  BY <1>1, <1>4, <1>5, <1>6, SameButAuthenticated
<1> QED BY <1>1, <1>7 DEF RoomsInv

LEMMA RoomsStep ==
    ASSUME ~Batched, ~Reused, ~Dropped, RoomsInv, [Next]_vars PROVE RoomsInv'
<1>1. ASSUME NEW r \in RoomSlots, Rerender(r) PROVE RoomsInv'
  BY <1>1, RerenderStep
<1>2. ASSUME NEW r \in RoomSlots, Unmount(r) PROVE RoomsInv'
  BY <1>2, UnmountStep
<1>3. ASSUME NEW r \in RoomSlots, NEW props \in Props, Mount(r, props) PROVE RoomsInv'
  BY <1>3, MountStep
<1>4. ASSUME NEW r \in RoomSlots, NEW props \in Props, ChangeProps(r, props) PROVE RoomsInv'
  BY <1>4, ChangePropsStep
<1>5. ASSUME NEW external \in BOOLEAN, MountComponent(external) PROVE RoomsInv'
  BY <1>5, MountComponentStep
<1>6. CASE SwitchSocket
  BY <1>6, SwitchSocketStep
<1>7. CASE UnmountComponent
  BY <1>7, UnmountComponentStep
<1>8. CASE TimerFires
  BY <1>8, TimerStep
<1>9. ASSUME NEW w \in Sockets, NEW n \in Names, Authenticated(w, n) PROVE RoomsInv'
  BY <1>9, AuthenticatedStep
<1>10. CASE UNCHANGED vars
  <2>1. Now' = Now /\ strict' = strict /\ component' = component /\ alive' = alive
    BY <1>10 DEF vars, reactVars, Now
  <2> QED BY <2>1 DEF RoomsInv
<1> QED BY <1>1, <1>2, <1>3, <1>4, <1>5, <1>6, <1>7, <1>8, <1>9, <1>10 DEF Next

-----------------------------------------------------------------------------
(* The theorems.  Their hypotheses are what the application must not do: give a room  *)
(* other props before its update is rendered, use a name again before its deferred    *)
(* destroy, drop the websocket of the component for one of its own.  The code does    *)
(* not forbid them, and README.md says what each of them breaks.                      *)

\* The rooms, their providers and websockets are sound in every state.
THEOREM RoomsInvariant ==
    ASSUME ~Batched, ~Reused, ~Dropped PROVE Spec => []RoomsInv
<1>1. Init => RoomsInv
  BY RoomsInitInv
<1>2. RoomsInv /\ [Next]_vars => RoomsInv'
  BY RoomsStep
<1> QED BY <1>1, <1>2, PTL DEF Spec

\* Every variable has its type.
THEOREM RoomsTypeOK ==
    ASSUME ~Batched, ~Reused, ~Dropped PROVE Spec => []TypeOK
<1>1. RoomsInv => TypeOK
  BY InvIsTyped
<1> QED BY <1>1, RoomsInvariant, PTL

\* A mounted room whose updates are rendered has the provider of its props, attached and
\* routed, on a websocket that is not destroyed (CollabApiRoom.tsx:60-133).
THEOREM RoomsMountedIsAttached ==
    ASSUME ~Batched, ~Reused, ~Dropped PROVE Spec => []MountedIsAttached
<1>1. RoomsInv => MountedIsAttached
  <2> SUFFICES ASSUME RoomsInv, NEW r \in RoomSlots, Mounted(r), rooms[r].pending = None
               PROVE  LET room == rooms[r]
                          it == providers[room.provider]
                      IN  /\ it.props = room.props /\ it.socket = room.socket
                          /\ it.attached /\ ~it.destroyed
                          /\ providerMap[it.socket][it.props.name] = room.provider
                          /\ it.socket \in alive \cup {External}
    BY DEF MountedIsAttached
  <2>1. Sound(Now, component, alive) /\ Placed(Now, r)
    BY MountedIsPlaced DEF RoomsInv
  <2>2. /\ providers[rooms[r].provider].props = rooms[r].props
        /\ providers[rooms[r].provider].socket = rooms[r].socket
        /\ providers[rooms[r].provider].attached /\ ~providers[rooms[r].provider].destroyed
        /\ providerMap[rooms[r].socket][rooms[r].props.name] = rooms[r].provider
    BY <2>1, NowFields DEF Sound, RenderedIsAttached
  <2>3. component.mounted /\ rooms[r].socket = SocketOf(component)
    BY <2>1, NowFields DEF Sound, RoomsArePlaced
  <2>4. rooms[r].socket \in alive \cup {External}
    BY <2>1, <2>3 DEF Sound, SocketsAreOwned, SocketOf
  <2> QED BY <2>2, <2>4
<1> QED BY <1>1, RoomsInvariant, PTL

\* An attached provider is that of a room, and a websocket that of the component, or its
\* deferred destroy is coming (CollabApiRoom.tsx:112-125,
\* CollabApiProviderWebsocketComponent.tsx:50-66).
THEOREM RoomsNothingIsLeft ==
    ASSUME ~Batched, ~Reused, ~Dropped PROVE Spec => []NothingIsLeft
<1>1. RoomsInv => NothingIsLeft
  <2> SUFFICES ASSUME RoomsInv PROVE NothingIsLeft
    OBVIOUS
  <2>1. Sound(Now, component, alive)
    BY DEF RoomsInv
  <2>2. \A p \in Providers : providers[p].attached =>
          \/ \E i \in DOMAIN timers : timers[i].of = p
          \/ \E r \in RoomSlots : rooms[r].provider = p
    BY <2>1, NowFields DEF Sound, AttachedIsUsed, IsComing
  <2>3. \A w \in alive : (\E i \in DOMAIN timers : timers[i].of = w) \/ (component.mounted /\ component.ref = w)
    BY <2>1, NowFields DEF Sound, SocketsAreOwned, IsComing
  <2> QED BY <2>2, <2>3 DEF NothingIsLeft
<1> QED BY <1>1, RoomsInvariant, PTL
=============================================================================
