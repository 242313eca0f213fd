# Verification of the collab_api server, its provider and its extensions

This directory holds TLA+ modules of `collab_api` (a Yjs collaboration server,
its provider, extensions and React bindings), the TLC configurations that check them on
small instances, and TLAPS proofs of what must hold for every instance.

## 1. The system and its components

A *document* is a Yjs document with a name. Clients reach it through
websockets, or from the server's own code through direct connections. The
server loads it when somebody asks for it, keeps it in memory while it is used,
stores it after changes (debounced), and unloads it when nobody is left. All
of this is callbacks and promises on one JavaScript thread: a *turn* (a callback and
the promise reactions it triggers) is atomic, and every `await` of a hook is a
place where anything else can happen. On the client a provider keeps a copy of
a document in sync over a websocket that several providers share. Several instances of the
server exchange updates through Redis.

| component | code (`src/packages/`) | state | operations | what makes it correct | module |
|---|---|---|---|---|---|
| Debouncer | `server/src/util/debounce.ts` | `timers`, `runningExecutions` | `debounce`, `executeNow`, timeouts, `run` | no invocation waits for ever, no entry stays for ever, no wake-up of a newer call is lost | `Debounce` |
| Document lifecycle | `server/src/CollabApi.ts`, `Document.ts` | `documents`, `loadingDocuments`, `unloadingDocuments`, `isLoading`, `isDestroyed`, `saveMutex` | `createDocument`, `loadDocument`, `handleDocumentUpdate`, `storeDocumentHooks`, `unloadDocument`, `closeConnections`, `flushPendingStores` | one live object per name; nobody is attached to a destroyed one; every edit is stored before the unload; an unused document is unloaded | `DocumentLifecycle` |
| Direct connection | `server/src/DirectConnection.ts` | `document`, the document's `directConnectionsCount` | `transact`, `disconnect` | `disconnect` returns after the content is stored | `DocumentLifecycle` |
| Server | `server/src/Server.ts` | the extension that `destroy` pushes | `destroy`, exit | `destroy` ends, and what it leaves is stored | `Shutdown` |
| Websocket session | `server/src/ClientConnection.ts` | per raw key: hook payload, queue, established flag, connection | first message, authentication, set-up, close, inactivity check | queued messages reach the connection once and in order; a session that closes during the handshake leaves nothing behind | `Session`, `Channel` |
| Connection, messages | `server/src/Connection.ts`, `MessageReceiver.ts`, `Document.ts` | `messageQueue`, `connections`, awareness states | `handleMessage`, `processMessages`, `close`, broadcasts | messages in order, one at a time; callbacks of a close; states go with their connection | `Session`, `Awareness` |
| Messages as bytes | `IncomingMessage`, `OutgoingMessage(s)`, `MessageReceiver` of both packages, `common/src` | - | write, read, route, answer | what is understood is what was meant; answers to answers end | `Wire` |
| Redis extension | `extension-redis/src/Redis.ts` | locks, subscriptions, pending disconnects | lock before storing, publish, subscribe | copies agree; no edit is left without a store; a store overwrites nothing that it could have had | `RedisStore`, `Wire` |
| Throttle extension | `extension-throttle/src/index.ts` | connections and bans per address | `throttle`, `clearMaps` | a ban lasts its time; no address within the limit is banned | `Throttle` |
| Provider | `provider/src/CollabApiProvider.ts` | `synced`, `unsyncedChanges`, `isAuthenticated`, attachment | updates, sync messages, attach/detach | when all is exchanged the copies agree and the provider says so; an edit arrives | `Provider` |
| Provider websocket | `provider/src/CollabApiProviderWebsocket.ts` | `status`, `shouldConnect`, retry, attempt, message queue, `providerMap` | `connect`, `disconnect`, `onClose`, `send`, `destroy` | connected in the end if wanted, no message twice | `ProviderWebsocket` |
| React bindings | `provider-react/src/*.tsx` | the room's provider, deferred destroys | mount, other props, unmount | a mounted room has its provider, nothing is left of the others | `Rooms` |
| Database extension | `extension-database/src/Database.ts` | external database | fetch, store | - | `DocumentLifecycle` |
| Webhook, logger, SQLite, S3, transformer, CLI, playground | other packages | - | - | not modelled, see section 6 | - |

Interactions: a websocket message goes `ClientConnection.handleMessage` ->
`Connection` queue -> `MessageReceiver` -> Yjs update -> `Document.handleUpdate`
-> `CollabApi.handleDocumentUpdate` -> `storeDocumentHooks` -> debouncer -> (later)
`saveMutex` -> `onStoreDocument` hooks (where Redis takes its lock) -> a `setTimeout(.., 0)` that
may unload. A close goes
`Connection.close` -> `onClose` of `ClientConnection` (waits for queued messages, then
`onDisconnect` hooks) -> the callback of `handleConnection`, which stores at once
or unloads. The maps of `CollabApi` are keyed by *name*, mutex and counters belong to an *object*; in
almost every hard case two objects of one name exist at once. The same holds, one level up, for the
maps of a websocket (keyed by raw key, while hooks belong to a session) and of the provider's
websocket (`providerMap`, keyed by effective name).

The hard behaviours are listed, with the line where each bites and the
properties that cover it, under `hazards` in `PROJECT.json`.

## 2. Modules

| module | models |
|---|---|
| `Debounce` | the debouncer, for one id |
| `DocumentLifecycle` | documents of one name, with their connections and stores; EXTENDS `Debounce` and uses its operators as the code calls the debouncer |
| `DocumentStoreProofs` | the debouncer's inductive invariant; types, refinement of `DebounceSpec`, who is attached to what; no edit is forgotten, unloading loses nothing, no store undoes another, `disconnect()` returns with its content written, and `Server.destroy` leaves everything stored |
| `Shutdown` | `Server.destroy` and the exit of the process; EXTENDS `DocumentLifecycle` |
| `Session` | one websocket: the sessions of its raw keys and their connections |
| `Channel` | what a session promises to its messages: an abstract specification that `Session` implements |
| `SessionProofs` | the session's inductive invariant; the session implements the channel, and is disconnected when all is handled |
| `Awareness`, `AwarenessProofs` | the connections of one document and the broadcasts to them; its three invariants, over the frames of the call stack |
| `Wire` | the messages of both packages and of the Redis channel, byte by byte, and who reads and answers them |
| `Provider`, `ProviderProofs` | a provider's copy of a document against the server's; its three invariants, over the messages in transit |
| `ProviderWebsocket`, `ProviderWebsocketProofs` | the shared websocket and its retries; its invariant |
| `RedisStore`, `RedisStoreProofs` | several instances, the store lock, messages in transit; its three invariants |
| `Throttle`, `ThrottleProofs` | attempts, bans, clean-ups; limit and ban for every configuration |
| `Rooms`, `RoomsProofs` | rooms and the websocket component under React's commits; its two invariants |
| `MC*` | definitions for TLC: symmetry, key sets, props |

Composition: `Session` covers a connection from its first message to the end of its `onDisconnect` hook,
`DocumentLifecycle` begins where a connection attaches and goes on where that hook ends;
`Provider` abstracts `Session` to its stages, `Wire` abstracts the life of documents and sessions to what
messages depend on, `RedisStore` abstracts `DocumentLifecycle` to load, pending store and unload.
Abstract specifications: `DebounceSpec` is implemented by `DocumentLifecycle`, `ChannelSpec` of `Channel` by `Session`.

### `Debounce`

`timer` is `timers.get(id)`: the closure and whether its timeout is armed.
`clearTimeout` leaves the entry (`Cleared`); `timers.delete` takes it away, and if its timeout is
armed it becomes an *orphan*, which will fire although `isDebounced` is false
(`DeleteTimer`). An invocation of `run` is a member of `Runs`: it waits once for the
execution it finds (`awaits`), or executes. `Finish` is the turn in which an
execution settles: its own `run` deletes the id, then every waiting invocation
goes on without looking again, so several executions can be in progress and the
last one is in `runningExecutions`; whichever finishes first deletes it.
The time that `maxDebounce` compares is not modelled: any existing entry may be
old enough (`Debounce`).

### `DocumentLifecycle` and `Shutdown`

`Docs` are the successive `Document` objects of one name. The content of an
object, and of the database, is a set of updates (Yjs updates commute and are
idempotent). A store reads the content when its `onStoreDocument` hook is
called (`StartStore`), overwrites the database (`WriteStore`), and settles after
`afterStoreDocument` (`StoreSucceeds`), or fails in either hook. The memory of an object
that nothing refers to any more may be used for a new one (`Unreferenced`).

| code | action |
|---|---|
| `createDocument` up to its await | `CreateDocument` |
| `onLoadDocument` resolves / the load resolves / a load hook throws | `FetchDocument` / `DocumentLoaded` / `LoadFails` |
| update on a connection -> `handleDocumentUpdate` | `Edit` |
| `Connection.close`, `closeConnections` | `CloseConnection`, `CloseConnections` |
| queued messages done, `onDisconnect` called / resolved | `CallOnDisconnect` / `Disconnected` (with `OnClose`) |
| `DirectConnection.disconnect`: first turn / store settled / hook resolved | `DisconnectDirect` / `ResumeDisconnect` / `Disconnected` |
| `flushPendingStores`, the timeouts | `FlushPendingStores`, `EntryTimerFires`, `OrphanTimerFires` |
| the store hooks | `StartStore`, `WriteStore`, `StoreSucceeds`, `StoreFails`, `StoreSkipped` |
| `setTimeout(.., 0)` after a store | `CheckUnload` |
| `unloadDocument` up to, and after, each hook | `UnloadDocument`, `BeforeUnloadResolves`, `BeforeUnloadThrows`, `AfterUnloadResolves`, `AfterUnloadThrows` |
| `Server.destroy` up to its await / the `onDestroy` hooks resolve | `Destroy` / `Destroyed` |

Auxiliary variables only record: `saved` (what an object's stores have
written), `failed`, `promised` (content when `disconnect()` was called),
`evicted` and `entryLost` (one of the two root causes of section 4 has occurred).

`Shutdown` adds what `destroy` does: a hook's chain is built when the hook is called, so a chain
under way does not have the extension that `destroy` pushes (`ChainBuilt`, `heard`). The websockets stay open:
documents may be asked for all along.

### `Session` and `Channel`

Sessions are numbered in the order they start; the number stands for the hook payload, the attempt that
authenticates it, and the connection made from it, so that the code's four maps, which are keyed by raw key,
can be seen to hold the wrong session's entry. A key with a session id and the plain name are two keys
(`Plain`): `ConnectionFor` is the fallback of `handleMessage`.

| code | action |
|---|---|
| `handleMessage`, document has a connection / not yet (`handleQueueingMessage`) | `ReceiveConnected` / `ReceiveQueueing` |
| `onConnect` and `onAuthenticate` resolve / a hook or the load rejects | `Authenticate` / `HookRejects` |
| `createDocument` resolves in `setUpNewConnection` | `DocumentLoaded` |
| the `connected` hook resolves / rejects | `ConnectedResolves` / `ConnectedRejects` |
| `Connection.processMessages` | `ProcessMessage` |
| an `onTokenSync` hook settles | `TokenSyncSettles` |
| queue is empty, `onDisconnect` is called / resolves | `CallOnDisconnect` / `Disconnected` |
| the websocket closes / its close event / `check` | `WebSocketCloses` / `HandleClose` / `Check` |

`accepted` and `delivered` record what a session took and handled; `robbed` records sessions whose entries
the late rejection of another one deleted (section 4). `Channel` is the promise: accept at the end,
deliver in order, and once shut accept nothing more. The refinement maps `shut` to the
sessions that no map has any more (`Ended`) and `discarded` to the ones that got no connection.

### `Awareness`

Everything a broadcast does is synchronous, so the call stack is a variable (`stack`): a
broadcast sends to one connection at a time (`SendNext`), a send to a websocket that has gone closes its connection, which
removes its users' states, and that is broadcast before the outer broadcast goes on. What is left of
`Connection.close` is a frame for each part of it: the connection is deleted (`FinishRemoval`), the `onClose` callbacks run
(`RunCallbacks`), the close message is sent, which closes again on a websocket that has gone (`SendCloseMessage`). All
other actions wait until the stack is empty. `Connect` finds the websocket open, gone, or with its close event handled; in
the latter two cases the constructor closes the connection if there are awareness states to send, before its callbacks
are `registered`, and otherwise `setUpNewConnection` does, after. The awareness states themselves are kept by
y-protocols (clocks; "added" only the first time).

### `Provider`

A copy is the set of its updates; a step 1 carries what its sender has, a step 2 what the
other lacks. `up` and `down` are the websocket's directions. On the server the session is reduced
to its stages, its `incomingMessageQueue` (`waiting`) and the connection's queue (`inbox`, which outlives
a close). The server decides at the start whether the connection is read-only; a replaced websocket gives a
new session. `onOpen` awaits the token (`opening` counts calls that wait, also those of
earlier websockets). `ServerHandle` is one message of `MessageReceiver.apply`, with its acknowledgement.

The server may also close the connection while the websocket stays open: `ServerCloses` (`ClientConnection.check`,
`closeConnections`, a token synchronisation that is rejected) and `ServerThrows` (a hook throws while a message is read: the
message is dropped and the connection closed, `Connection.ts:263-272`; the rest of its queue is handled all the same). The provider
does not authenticate again (`provider/src/MessageReceiver.ts:51-61`), and what it sends waits in the `incomingMessageQueue`. Only a new
websocket helps: `CheckConnection` is the interval of `checkConnection` (module `ProviderWebsocket`), which replaces a websocket that has
heard nothing for 30 s. A message for any provider of the websocket counts there, so it does not happen when `Busy`.
`dismissed` records such a close on the present websocket.

### `ProviderWebsocket`

Each call of `connect()` that gets past its guards starts a retry loop, a member of `loops`: it attempts at once
(`Create`), waits for the attempt (`attempting`), and is `due` again when the attempt is rejected. `current` is
the loop that `cancelWebsocketRetry` would cancel; `timers` counts the calls of `connect()` that `onClose` has
scheduled. The first message, not the open event, resolves an attempt. `CheckConnection` is the interval of
`checkConnection` with the timeouts it reads, any of which may have passed. `messageQueue` holds what
was sent while the websocket was down, with at most one awareness message: `Filtered` is the `filter` of `addToQueue`, written with the
position that each message gets.

### `RedisStore`

`phase` follows the document on each instance from the read of the storage to the delayed unload; `inbox` is the
subscription, in the order of the channel; `lock`
is the lock in Redis, which `LockExpires` takes from a failed store that never released it or, within `MaxExpiries`, from a
running one. A store may start at any time (`StoreStarts`): `maxDebounce`, the last client, a direct connection and a flush
store at once, and no instance waits for another one's messages. The one assumption about time is `disconnectDelay`: an instance that
leaves gives "last minute syncs" (`Redis.ts:79`) time to arrive (`Quiet` in `UnloadEnds`). The auxiliary variables record
that a message came before the document was in `documents` (`dropped`), that a running store began when nothing was in
transit and has kept its lock since (`sound`), and that a store has failed, has been skipped while no running one had its updates, or has
overwritten an update (`lossy`).

### `Throttle`

Time is a clock of ticks that starts later than the longest ban, as the real one does, because a missing
timestamp reads as 0. The timestamps of an address are a set of attempts, since the code counts and filters them and never looks at
their order. `banTime` is chosen once, shorter or longer than the interval. `ClearMaps` is the
interval that forgets old connections and ended bans.

### `Wire`

A message is a sequence of numbers, with lengths before strings as lib0 writes them, and beside
them what the sender meant (`key`, `kind`, `body`), which no definition of the code
reads; `misread` collects messages that were understood otherwise. The document has one update, and an awareness state is its
clock: only what decides who answers what is kept. Handlers of one message run to their end in one step
(`ServerReceives`, `ClientReceives`, `PeerReceives`), with the broadcasts and publications they cause.

### `Rooms`

React is the environment: a commit renders, runs the cleanups of effects that change, and then the effects, as
one step; a state update is rendered later (`Rerender`); in StrictMode the effects of a mounting component run,
are cleaned up, and run again. `timers` are the deferred destroys. `Batched`, `Reused` and `Dropped` switch on
three orders of events that the code does not survive (section 4). A switch of the websocket changes every room in one
commit, so the operators of the effects take sets of rooms and providers (`Created`, `Destroy`, `Recreate`, `Unmounted`).

## 3. Runs

| run | instance | properties |
|---|---|---|
| `clients` | 2 objects, 2 clients, 2 updates, 2 invocations of `run`, 1 failing hook, `unloadImmediately` | `TypeOK`; `AttachedIsReady`; `AttachedIsMappedUntilEviction`; `UnsavedIsScheduled`; `UnloadedIsSaved`; `DebounceSpec` (refinement) |
| `direct` | 2 objects, 1 direct connection, 2 updates, 3 invocations, no failures | `NoLostWakeup`; `DeadEntryIsDeleted`; `StoresDoNotGoBack`; `DisconnectIsStored`; `StoreLosesNothing` |
| `shutdown` | 2 objects, 2 clients, 1 update, 2 invocations, 1 call of `destroy`, fairness | `EditIsStoredUntilExit`; `LeavingUnloadsUntilExit`; `DestroyIsStored`; `DestroyEnds` |
| `session` | 1 raw key, 2 sessions, 4 messages, `connected` hooks that may reject, fairness | `AttachedIsCurrent`; `ClosedIsDetached`; `HandledBeforeDisconnect`; `ChannelSpec` (refinement); `ClosedIsDisconnected` |
| `awareness` | 2 users, 3 connections, 2 changes, websockets that go at any time, also before the connection is made | `ViewsAgree`; `StatesAreOwned`; `ClosedIsCalledBack` |
| `wire` | 2 sessions of a name of 7 letters on one websocket, 2 instances, 1 event, 2 messages in transit, fairness | `UnderstoodAsMeant`; `ConversationEnds`; `QuietAgree` |
| `provider` | 2 own updates and 1 of others, 2 edits, 1 event (close, denial, detach, `forceSync`, a close or an exception of the server), read-only or not, fairness | `ServedIsSynced`; `ServedIsAuthenticated`; `ReadOnlyIsHonest`; `EditArrives` |
| `websocket` | 1 provider, 2 faults, 2 calls, 1 message, `destroy`, fairness | `SocketIsSound` (status, announcement, queue, retries); `WantedIsEstablished` |
| `redis` | 2 instances, 2 updates, 3 loads, 1 failing store, 1 lock that expires during its store, fairness | `QuietAgree`; `EditsAreStored`; `StorageKeeps` |
| `throttle` | 2 addresses, limit 2 in 2 ticks, bans of 1 or 3 ticks, 5 ticks, 4 attempts each | `AtMostThrottle`; `BansAreFair` |
| `rooms` | 2 rooms, 4 providers, 3 props (2 names, 2 tokens), 1 own websocket and 1 external, StrictMode or not, fairness | `MountedIsAttached`; `NothingIsLeft`; `NamesAreReleased` |
| `eviction` | the smallest that shows it | `AttachedIsMapped`, violated: section 4 |

Bounds, and why they are enough:

- `Docs`: two objects. What goes wrong takes an old object and a new one; identities
  are reused, so any number of objects can succeed one another.
- `Runs`: how many invocations of `run` are in progress at once. Two show one
  that waits for another; three show two that wait for the same one and start
  together, and one that joins while they execute.
- `MaxOrphans = 1`: armed timeouts without an entry, per object.
- `MaxFailures`: hooks that throw. One is enough to see what each failure leaves behind.
- `Updates`: two distinguish an older capture from a newer one; three are needed
  (`MCLifecyclePendingSave`) for a store in progress, a waiting one and a newer timeout.
- A client of the lifecycle may leave and come back without bound, so one connection already
  goes through every object of the name.
- `MaxSessions = 2`, `MaxMessages = 4`: what goes wrong takes a session and the one after it
  on the same raw key; each needs an authentication message, and one message is left for each queue. Two raw keys,
  with the fallback from one to the other, and three sessions with three messages, give
  the same results; three sessions are needed for the deviation of `MCSessionRobbed`. `MCSession.cfg` has
  `DocumentAwareness = FALSE`, see `MCSessionFastClose`.
- `MaxConnections = 3`: one that is broadcast to, one whose send fails, and one that the inner
  broadcast reaches first; a user may be on two of them.
- `Provider`: one event is one interruption (a close, a denial, a detach, `forceSync`, a close or an exception of the server) at any point of the exchange, with
  edits before, during and after it; `CheckConnection` is not counted. Two events with one edit (1,850,604 states) give the same result. Two updates of the client distinguish what was sent before from after.
- `ProviderWebsocket`: two faults make a retry fail again or meet a second loop; `loops` is
  bounded by faults and calls.
- `RedisStore`: three loads are both instances and one of them again; one failure and one expired lock meet in one run with two edits,
  so that a store without its lock, one that was skipped and one that is sound can be in progress or follow each other.
- `Throttle`: five ticks let a ban longer than the interval end and a clean-up fall anywhere.
- `Wire`: the name's length and the length of the first raw key are chosen so that a first byte equals the number of
  `Ping` (9), the only place where a length is compared with a number.
- `Rooms`: two rooms can want the same name, and four providers are the mounted ones, the one a change creates
  and one that waits for its deferred destroy.

Symmetry is used in safety runs only. Deadlock is checked in `clients`, `direct` and `eviction`. The others set
`CHECK_DEADLOCK FALSE` since the system may stop: a bound is used up and everybody has left, a websocket is
closed for good, a process has exited.

**Fairness.** Weak fairness is enough everywhere since each step named stays enabled until it is taken. Nothing is
assumed of callers: nobody has to join, edit, leave, flush, connect, or mount.

- `DocumentLifecycle`, `Shutdown`: hooks resolve, armed timeouts fire, messages that were received are
  processed. A hook that never settles would block the code as well; failing hooks are excluded from
  the liveness run by `MaxFailures = 0` and are covered by the safety runs.
- `Session`: hooks and loads settle (either way), queued messages are handled, and a closing websocket emits
  its close event (the `ws` library destroys the socket after a timeout).
- `Provider`: messages are delivered, tokens are fetched, hooks resolve, and the websocket is retried, which
  `WantedIsEstablished` justifies. `CheckConnection` is fair since it is an interval: it is enabled when the provider has
  no session and nothing is on its way to it, and stays so unless other providers are sent messages (`Busy`). `ServerDenies` and the
  other events are not fair.
- `ProviderWebsocket`: timers fire; a connection that the network does not fail opens and brings a
  message. The close event of a closing websocket is *not* fair: it may never come, and `checkConnection` must do without.
- `RedisStore`: messages are delivered, loads and stores end, a lock is released or expires.
- `Wire`: messages arrive and are handled, a document that is asked for is loaded.
- `Rooms`: timeouts fire.

## 4. What the checks show about the code

The properties of the passing runs hold. Several statements made in comments, release notes or tests do not. One is a
run, the others are further configurations in this directory, or changes to one of them that the item names, and TLC finds each violated in seconds; run them as
`tlc -config <name>.cfg <module>`. Where a deviation would make a property of a passing run fail, that property
says so (a condition such as `~evicted`, `robbed = {}`, `~dropped`, `~lossy`) or its instance leaves the case out; it does not catch that deviation then.

The document's life:

1. **Eviction** (run `eviction`). `unloadDocument` deletes by name. Two clients leave; the
   first one's `onDisconnect` hook resolves and the object is unloaded, while the second one's is
   still pending and another client loads a new object. When that hook resolves too,
   after the first unload is over, it starts an unload of the *old* object, which passes every
   check (its own connection count is 0) and takes the *new* object out of `documents`
   (`CollabApi.ts:579`). `AttachedIsMappedUntilEviction`, checked and proved, says that this is the only way.
2. **Failed store** (`MCLifecycleFailedStore`, module `MCDocumentLifecycle`, `FailedStaysInMemory`). After a store hook
   throws there is no retry (`CollabApi.ts:487`), and the next disconnect unloads the document.
3. **Pending save** (`MCLifecyclePendingSave`, `PendingSaveIsNotUnloaded`). A `run` that waited deletes the entry of a
   newer call (`debounce.ts:30`). With `entryLost` false, `UnloadedIsSaved` holds.
4. **Leak** (`MCLifecycleLeak`, `IdleIsUnloaded`). An unload requested while another object's `afterUnloadDocument`
   hook runs is dropped (`CollabApi.ts:562`). `LeavingUnloadsUntilExit` says that this is the only reason.
5. **`destroy()` waits for ever** (`MCShutdownAlways`, module `Shutdown`, `DestroyAlwaysEnds`): the same dropped unload leaves a document, and
   no `afterUnloadDocument` hook is called for it.
6. **Lost at exit** (`MCShutdownExit`, `ExitIsStored`). `destroy()` looks at `getDocumentsCount()` (`Server.ts:211`), which does not
   count a document that is loading: it resolves at once, and an update that is taken while the `onDestroy` hooks run is lost.

The websocket session:

7. **Denied but connected** (`MCSessionDenied`, module `MCSession`, `DeniedIsFresh`). The catch at `ClientConnection.ts:388-392` leaves
   `documentConnections`, although its comment says that all state is cleaned up: a client that the `connected` hook denied keeps its connection.
8. **Robbed** (`MCSessionRobbed`, `ClosedIsAlwaysDetached`). The same catch deletes by raw key. A session is closed while its
   `connected` hook runs, the client starts a second one, and the rejection deletes the second one's payload and queue; a third one
   starts beside it, both get a connection, both from the third one's payload, `documentConnections` has room for one, and the other survives the close of the websocket.
9. **Fast close** (`MCSessionFastClose`, `FastCloseCleansUp`; `RemovedIsCalledBack` in the place of `ViewsAgree` in `MCAwareness.cfg`). The constructor of `Connection` sends the document's awareness
   (`Connection.ts:83`); on a websocket that has closed, that closes the connection before its callbacks are registered, and the
   clean-up of `ClientConnection.ts:277-285` finds nothing: no `onDisconnect`, and nothing unloads the document. `ClosedIsCalledBack` says that
   this is the only connection that nobody hears of.
10. **Called back twice** (`CalledBackOnce` in the place of `ViewsAgree` in `MCAwareness.cfg`). `removeConnection` broadcasts before it deletes
   the connection (`Document.ts:120-132`); the broadcast's send to that connection closes it again, inside. `ClosedIsCalledBack` bounds the calls
   by two, and by one over an open websocket.
11. **Mixed providers** (`MCWireMixed`, module `MCWire`, `UnderstoodAsMeant`). A provider with a session id falls back to the connection of the plain name on
   the same websocket (`ClientConnection.ts:421`): its token is taken for that one's, and it is never authenticated.

The provider:

12. **Early `synced`** (`MCProviderEarlySynced`, module `MCProvider`, `SyncedIsHandshake`). An acknowledgement of an earlier attachment counts down to 0
   (`CollabApiProvider.ts:301`) before the server's step 2 has come.
13. **Unsynced but 0** (`MCProviderUnsynced`, `NoUnsyncedMeansSent`). `resetUnsyncedChanges` sets the count to 1 whatever is not acknowledged yet.
14. **Read-only** (`MCProviderReadOnlyForceSync`, `ReadOnlyKeepsUnsynced`). A forced synchronisation on a read-only connection resets the count, and
   its acknowledgement makes it 0 with changes that the server refused.
15. **Not served after attach** (`MCProviderReattach`, `AttachedIsServed`). The token of a provider that attaches again is taken for a token
   synchronisation of the old connection, which its earlier close message then closes (`MessageReceiver.ts:106`).
16. **Closed by the server** (`EditArrivesOnBusy` in the place of `EditArrives` in `MCProvider.cfg`, with `Busy = TRUE`, and `MaxUpdates = 1` to
   see it in seconds). After a hook has thrown, or the server has closed the connection otherwise, the provider does not authenticate again
   (provider `MessageReceiver.ts:57`). Its edits wait in the server's `incomingMessageQueue` until the websocket is replaced, which never happens while
   other providers of the websocket receive messages. `EditArrives` says that this is the only reason.
17. **Two retry loops** (`MCWebsocketTwoRetries`, module `ProviderWebsocket`, `OneRetryer`). `onOpen` forgets `cancelWebsocketRetry` while its loop
   still waits for the first message (`CollabApiProviderWebsocket.ts:214`).
18. **`disconnect()` undone** (`MCWebsocketDisconnect`, `DisconnectIsKept`). The timer of `onClose` connects without
   looking whether `disconnect()` was called since (`:578`).
19. **Alive after `destroy()`** (`MCWebsocketDestroyed`, `DestroyedIsClosed`). The same timer, after `destroy()`.

Redis and React:

20. **Skipped store** (`MCRedisSkipped`, module `RedisStore`, `IdleIsStored`). An instance that finds the lock taken gives up its store, but the
   other one's snapshot may be older (`Redis.ts:270`). `EditsAreStored` says that an edit is lost only by such a store, a failed one or one that overwrites.
21. **Expired lock** (`OneStorer` in the place of `QuietAgree` in `MCRedis.cfg`). Nothing extends the lock of a store that takes long
   (`Redis.ts:254`): it lasts 1000 ms by default, and a store of a test takes 3 s (`tests/extension-redis/onStoreDocument.ts:103`).
22. **Own lock** (`SkippedForAnother` in the place of `StorageKeeps` in `MCRedis.cfg`). A store that fails never releases its lock, and the next one of the same instance is skipped.
23. **Early reply** (`RepliesAreHeard` in the place of `QuietAgree` in `MCRedis.cfg`). Replies to the first sync message that come while the
   `afterLoadDocument` hooks of other extensions run find no entry in `documents` and are lost (`Redis.ts:376`).
24. **Stored too early** (`StoresWithoutConflicts` in the place of `StorageKeeps` in `MCRedis.cfg`). A store need not wait for the updates of another instance that are on
   their way: `unloadImmediately`, the default (`CollabApi.ts:36`), makes the last client of an instance store at once, as do `maxDebounce`, a direct
   connection and a flush. It takes out of the storage what the other instance has written ("stores documents without
   conflicts", `tests/extension-redis/onStoreDocument.ts:8`). `StorageKeeps` says which stores do not: those that begin when nothing is in transit and keep their lock.
25. **Changed again before rendered** (`MCRoomsBatched`, module `MCRooms`, `NothingIsLeft`). A room gets other props while the provider of its last change
   is not rendered: it is destroyed, and the next effect attaches it for ever (`CollabApiRoom.tsx:99`).
26. **Name taken over** (`MCRoomsReused`, `MountedIsAttached`). A room mounts in the commit that unmounts another one of its
   name; `detach` deletes by name (`CollabApiProviderWebsocket.ts:246`), and the new provider gets no messages.
27. **Websocket forgotten** (`MCRoomsDropped`, `NothingIsLeft`). The effect clears the timeout that its own cleanup has armed when the application hands in its own
   websocket (`CollabApiProviderWebsocketComponent.tsx:55`): the component's one is never destroyed.

## 5. Proofs

The proof modules hold for every value of the constants, under
the named assumptions of the modules (absent values are not members, the two
kinds of connections are disjoint, configuration values have their types, bounds are natural numbers, and `Undefined` is not a queue).

`DocumentStoreProofs`:

- `DebounceInv` is `DebounceTypeOK /\ NoLostWakeup /\ DeadEntryIsDeleted` and is inductive as
  it stands: that an invocation waits for an execution in progress is what makes the entry
  deleted when that execution finishes (`FinishKeepsInv`).
- `LifecycleInv` strengthens what is to be proved by: `DebounceInv`; `StoreIsExecution` (hooks of a store
  run only inside an execution of the debouncer); and `MapIsSound` (the object in the map is
  loaded and not destroyed; nothing is loaded while the map has an entry). The latter is needed
  because a connection attaches to whatever the map has, and because a load that resolves
  puts a new object into the map: nobody may be attached to another one then.
- `NextIsDebounceStep` shows that each action is a step of the debouncer or leaves it alone.
  With it `LifecycleImplementsDebounce` (`Spec => DebounceSpec`) follows, and the debouncer's
  theorems carry over without being proved again.
- `LifecycleNextInv` has one lemma per kind of action; `LeaveStep` and `UpdateStep` are the
  arguments shared by actions in which connections only leave, or only content changes.
- Theorems: `LifecycleTypeOK`, `LifecycleAttachedIsReady`, `LifecycleAttachedIsMapped`,
  `LifecycleImplementsDebounce`, `LifecycleLosesNoWakeup`, `LifecycleDeletesDeadEntries`.
- `StoreInv` adds `ScheduleInv`, which holds until an eviction. That
  a store is coming (`UnsavedIsScheduled`) is not inductive alone, since a store that is
  coming can belong to the wrong object, or write an old capture. So `ScheduleInv` says
  where entries and stores point (`TimerIsMapped`, `StoresAreMapped`, `HeldIsMapped`), that objects outside
  the map have nothing scheduled and nothing unsaved (`LoadingIsUnused`, `UnmappedIsSaved`), that a
  store in progress holds the current content or a later one will (`CaptureIsCurrent`), and
  that an entry without a timeout has a waiting invocation of the same object (`DeadEntryIsStored`).
- `SchedulerStep` is what each call of the debouncer preserves, proved once per call
  (`RunForMapped`, `OrphanKeepsSchedule`, `FinishKeepsSchedule`, ...); `ScheduleStep` and
  `LeaveKeepsSchedule` turn it into `ScheduleInv'` for the actions that call it.
- `StoreUnloadedIsSaved` is an action theorem: only `BeforeUnloadResolves` destroys a document, its
  check leaves no entry and no execution of it, by `NoLostWakeup` nobody waits either,
  so no store is coming and by `ScheduleInv` none is needed.
- `WriteInv` holds whatever is evicted, fails or loses its entry, and adds to `LifecycleInv` how stores follow each other: an object has one store at a
  time (`StoresAreAlone`); what a store has read lies between what was written last and the content (`CaptureIsBetween`); and a `disconnect()` awaits a store of its
  own object that has read, or will read, what was promised (`PromiseIsKept`). An object whose load has not read the database is used by nobody
  (`LoadingIsUnreferenced`): the read replaces its content, which would break all three. `WriteStep` is the argument for every action but the stores' own.
- `StorageIsSaved` (until an eviction or a lost entry, the object in the map has read or written what the database has) joins `StoreInv` and `WriteInv`: only the
  object in the map writes (`OnlyMappedWrites`), and what it writes contains what it saved. Failed stores need no exception.
- Theorems: `StoreUnsavedIsScheduled`, `StoreUnloadedIsSaved`, `StoreDoesNotGoBack`, `StoreDisconnectIsStored`, `StoreNothingIsLost`.
- `Shutdown` extends `DocumentLifecycle`, and the last part of `DocumentStoreProofs` carries the invariants over to it: `Destroy` closes all
  connections and flushes all stores in one turn (`DestroyKeepsStorage`), every other step is one of the lifecycle or leaves it alone.
  `AcceptedIsKept` says where an update is that a document has taken: in the database, or in the content of the object in the map, until
  a hook has thrown, an eviction or a lost entry. Only an unload takes that object away; by `UnloadIsSaved` its content was saved, and by `SavedIsStored`
  what is saved is in the database (`LeavingIsStored`). When `destroy()` goes on the map is empty, so all is stored.
- Theorems: `ShutdownTypeOK`, `ShutdownKeepsDocuments`, `ShutdownDestroyIsStored`.

`RedisStoreProofs`:

- `QuietAgree` speaks of moments at which nothing is in transit, so `RedisInv` says for every update where it is when the copies differ. What one
  instance has gets to each other one (`HeldGetsToAll`): that one has it, or is being sent it (`IsComing`), or is about to be asked what it has
  (`WillAsk`), or will be answered (`WillAnswer`). An answer carries what its sender has when it reads the question, so what is still on the
  way must get to all others too, from its place in the queue on (`BroughtGetsToAll`). Somebody has what is stored (`StoredIsHeld`): a document
  that loads may read an older storage. All this until a message was dropped (item 23).
- `FirstStepKeepsTransit` is the publication of a first step, `DeliverKeepsTransit` the delivery of any message, and
  `PhaseKeepsTransit` what an instance that leaves changes.
- A lock may expire during its store, so that several instances store at a time, some with an old snapshot. `LockInv` says that whoever has a *sound*
  store holds the lock; `SoundInv` that what such a store is about to write has what the storage has, and what every other running store is about to
  write. It holds when the store begins, since nothing is in transit then and by `RedisInv` its copy has all the others', whose snapshots are older;
  and nobody takes a new snapshot without the lock. So a store that ends meanwhile, however unsound, writes nothing that the sound one lacks.
- `EditsInv` follows an update without any assumption about locks or messages: it is in the storage, in the snapshot of a running store, or in the copy of an
  instance that has a store scheduled, until a store fails, is skipped too early, or overwrites.
- Theorems: `RedisQuietAgree`, `RedisStorageKeeps`, `RedisEditsAreStored`.

`AwarenessProofs`:

- `AwarenessInv` is `TypeInv`, `OwnedInv` and, for the calls in progress, `StackInv` and `CallsInv`. `StackInv`: an open connection has been sent everything but what a
  broadcast on the stack owes it (`ViewsMatch`), only the outermost call broadcasts an update of the document (`UpdatesFirst`), and a connection
  that is being closed has no states left (`ClosingIsClean`), so that the close that ends has nothing to broadcast.
- `CallsInv` follows the calls in progress that close one connection (`CallsOf`). A second one is made only within the first, by a send to a websocket that has gone, and
  is the innermost; so a connection that is being closed has been called back at most once, and never over an open websocket. One that its
  constructor closed (item 9) is not `registered`, and the document has it only while that close is on the stack.
- A send to a websocket that has gone pushes a close, and that one a broadcast: `RemoveConnectionInv` is the argument for the states that go, with up to two
  frames pushed (`FirstExists`, `TwoFramesPushed`), `RestOfBroadcast` for the broadcast that goes on.
- The bound on changes is a fold over the clocks, of which nothing can be proved, so `TypeInv` types the counters by `Nat`.
- Theorems: `AwarenessViewsAgree`, `AwarenessStatesAreOwned`, `AwarenessClosedIsCalledBack`.

`ProviderProofs`:

- The three properties speak of moments at which nothing is in transit, too. `ProviderInv` says for an update that one side lacks where it is: in a step 2
  or an update on its way, or in the difference that a step 1 on its way will bring (`GetsToServer`, `GetsToClient`); `WillSync` is a step 1 that is
  to come. A session has a step 1 to come when it begins, since `onOpen` sends its token and its step 1 in one turn (`StepFollows`, `AuthIsFollowed`).
- A server that closed the connection may take what the client has only after a new session (`Takes`), so what the copies have in common says nothing while
  there is none. Its session ends with a close message, as others do, and what was dropped is no longer counted exactly (`dismissed` in `UnsyncedInv`).
- `synced` is FALSE after a close message, and a step 2 is behind every close message that comes (`GetsSynced`, `SyncedAtLast`).
- What is unsynced is bounded by the acknowledgements that are to come (`UnsyncedInv`), a step 1 counted for the step 2 that answers it. It is no equation:
  `resetUnsyncedChanges` forgets what is outstanding (item 13), and then more acknowledgements come than changes are counted.
- A read-only connection refuses edits without an acknowledgement, so `HonestInv` counts exactly: without edits what is unsynced is the handshake, and with an
  edit more is unsynced than acknowledgements come (`SavedToCome`). This needs that there is one handshake (`OnceInv`) and that a step 2 without edits has
  nothing the server lacks (`TypeInv`).
- `Count` is how many messages of a kind are in a sequence. `CountJoined`, `CountHead`, `InJoined`, `InHead`, `FollowedJoined`, `FollowedTail`,
  `LastJoined` and `LastTail` are all that the steps need of sequences; `SendIsToServer`, `SendCounts`, `FlushIs` and `AnswerIs` apply them to what is sent.
- Theorems: `ProviderServedIsSynced`, `ProviderServedIsAuthenticated`, `ProviderReadOnlyIsHonest`, `ProviderTypeOK`.

`SessionProofs`:

- `SessionInv` has two parts. `StartInv` holds whatever is rejected: types, that sessions are numbered without
  gaps (`StartedInOrder`, which makes the number that `StartSession` gives a fresh one), and that what a map has for a raw key is a session of
  that key (`EntriesAreStarted`). The second part holds until a session is robbed: an attempt in progress has its key's payload to itself and no
  connection stands in its way (`AttemptsAreAlone`), and a document has only connections that were made (`AttachedIsMade`).
- `AttachedIsCurrent` is not inductive alone: `DocumentLoaded` writes its session into `documentConnections`, and only `AttemptsAreAlone` says that
  no attached connection had the place. `ClosedIsDetached` needs that an attempt finds the websocket closed when its load resolves, and that
  closing the websocket finds every attached connection by its key, which is `AttachedIsCurrent`.
- `CloseKeepsAlone` is the argument shared by all actions that close connections, `RejectKeepsAlone` by the two catches.
- Theorems: `SessionInvariant`, `SessionTypeOK`, `SessionAttachedIsCurrent`, `SessionClosedIsDetached`.
- `ChannelInv` (the second part of the module) adds `QueueInv` to `SessionInv`, which holds until a session is robbed. A message of the client lies in one of two queues, so the
  promise of `Channel` says where: what a session without a connection has accepted is the queue of its raw key (`WaitingIsQueued`), and once the
  connection is made it is what was handled followed by the connection's queue (`AcceptedIsInOrder`). `DocumentLoaded` moves the first to the second.
  For this the payload and the queue of a key must belong to the session that waits or to the one that has the connection, never to two
  (`EntriesBelongTogether`), and a connection that was closed must be given nothing more (`ClosedIsLeft`): else a message would be accepted after
  `onDisconnect`.
- `HeadMoves`, `HeadIsNext` and `NewIsLast` are what the two queues need of sequences. `CloseKeepsQueue` is the argument shared by the actions that close
  connections, `QueueProgress` by those that only move a session on.
- The refinement has one lemma per kind of step: `AcceptStep` and `AcceptQueueingStep`, `DeliverStep`, and `EndStep` for everything in which sessions
  only end (`EndedStays`). It is proved under `~DocumentAwareness`: otherwise a connection that is made on a closed websocket is not attached, its
  messages are discarded, and its key still leads to it (`MCSessionFastClose`).
- Theorems: `SessionChannelInvariant`, `SessionHandledBeforeDisconnect`, `SessionImplementsChannel` (`Spec => ChannelSpec`).

`ProviderWebsocketProofs`:

- `SocketInv` is the types, in parts that change together, the four parts of `SocketIsSound`, and two facts that `RetryIsComing` rests on: a
  loop whose attempt is outstanding waits for it and nobody has cancelled it (`LoopsTyped`), so that the rejection of an attempt makes a loop
  due again; and `current` is forgotten when a websocket opens (`OpenIsAnnounced`), so that the close of one that was open starts a timer.
- `PositionsInOrder` and `FilteredInOrder` say that filtering keeps the order and what it keeps; `SendKeepsQueue` applies them to `addToQueue`.
- `ConnectEffect` is what `connect()` does to the loops, `OnCloseKeepsInv` the argument for the event and for `checkConnection`, which calls `onClose` itself.
- Theorems: `SocketInvariant`, `SocketTypeOK`, `SocketSound`.

`ThrottleProofs`:

- `AtMostThrottle` is about what was accepted, the code looks at what it remembers. `ThrottleInv` relates them: every accepted attempt is remembered as
  long as it counts (`AcceptedAreRemembered`), whatever `clearMaps` took away, and what is remembered was tried (`RememberedWereTried`), so
  that a ban is deserved. The time of a ban is forgotten only when it is over (`BanIsRemembered`). What is remembered of an address
  has no other bound than `FullIsBanned` gives it: more than `throttle` attempts only with the ban that the last one brought.
- Theorems: `ThrottleInvariant`, `ThrottleAtMost`, `ThrottleBansAreFair`.

`RoomsProofs`:

- The effects of a commit run one after the other on a state that nobody else sees, so the invariant is an operator on that state: `Sound(s, c, a)`, of
  the state within the commit, the component and its live websockets. Each operator of the model is shown to keep it, or to
  bring it back, and one lemma per action puts the pieces of a commit together.
- `MountedIsAttached` speaks of rooms whose updates are rendered. A room between two commits has a provider that is
  pending, new, and owned by nobody else, and its old one is detached (`RecreatedIsSound` makes such rooms, `AttachedIsSound` ends them).
- `detach` deletes by name, so a deferred destroy must find nobody else under the name: no two rooms have a name in common, the names of
  their old providers included, and none has that of a provider whose destroy is queued. With it `ProviderIsDestroyed` follows, and that a room
  that attaches finds its name free (`NameIsFree`).
- A cleared timeout must be the one of the cleanup that ran just before (`ClearArmed`): between commits no timeout has an owner any more.
  That is why StrictMode's second run of the effects leaves one attached provider and nothing queued.
- `CollectedIsSound` shows that what is taken from the pool of providers after each commit is referred to by nothing.
- Theorems: `RoomsInvariant`, `RoomsTypeOK`, `RoomsMountedIsAttached`, `RoomsNothingIsLeft`, under `~Batched`, `~Reused` and `~Dropped`: items
  25, 26 and 27 are the other cases, in which the properties are violated.

Only model-checked:

- Liveness, in every module: fairness and ENABLED are out of the prover's reach.
- `UnderstoodAsMeant` and `QuietAgree` of `Wire`: reading and writing are recursive definitions over bytes, and what they compute for every
  input needs induction over data.

## 6. Not modelled, and why

- Webhook, logger: HTTP requests and log lines; the webhook's debounced `onChange` uses the debouncer of module `Debounce`.
- SQLite, S3: the database extension with a table or a bucket, pure I/O.
- Transformer, CLI, playground: conversions and examples without state of their own.
- In `CollabApi.ts`: `configure`, edits that hooks make to a document while it loads, and `shouldSkipStoreHooks` (`:297-299`): `Edit` of
  `DocumentLifecycle` is an update whose origin stores. What Redis brings has an origin that does not, as `Deliver` of `RedisStore` says. In `DirectConnection.ts`: a
  second `disconnect()`, and `transact` while `disconnect()` awaits `unloadDocument`. Other names (no state is shared between names).
- Early replies in `Wire`: `Load` reads, subscribes and enters the document in one step. `RepliesAreHeard` of `RedisStore` has the case (item 23).
- In `ClientConnection.ts`: an `onDisconnect` hook that rejects, which nothing catches and which ends the process.
- In `Server.ts`: listening, HTTP requests, the upgrade of a websocket.
- In `provider-react`: the `useCollabApi*` hooks, which subscribe to events of the provider and keep nothing else.
- Types and event emitters, which have no behaviour.
