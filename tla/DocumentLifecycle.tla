-------------------------- MODULE DocumentLifecycle --------------------------
(***************************************************************************)
(* packages/server/src/CollabApi.ts: loading, storing and unloading the    *)
(* documents of ONE name, with the connections that use them.  Successive  *)
(* Document objects of the name are members of Docs; the maps `documents', *)
(* `loadingDocuments' and `unloadingDocuments' are keyed by the name, so   *)
(* each is one variable here.                                              *)
(*                                                                         *)
(* A hook is asynchronous: the step that calls it and the step that goes   *)
(* on after it are two actions, and anything may happen in between.        *)
(* A document's content is the set of updates it has; storing overwrites   *)
(* the database with the content read when onStoreDocument is called, and  *)
(* loading applies what the database has (packages/extension-database).    *)
(***************************************************************************)
EXTENDS Debounce, FiniteSets

CONSTANTS
    Clients,            \* websocket connections
    Directs,            \* direct connections
    Updates,            \* the edits that may be made
    UnloadImmediately,  \* configuration.unloadImmediately
    SkippingExtension,  \* some extension may throw SkipFurtherHooksError when storing
    MaxFailures         \* bound: hooks that throw

Connections == Clients \cup Directs

ASSUME ConnectionsAssumption == Clients \cap Directs = {}
ASSUME ConfigurationAssumption ==
    /\ UnloadImmediately \in BOOLEAN
    /\ SkippingExtension \in BOOLEAN
    /\ MaxFailures \in Nat

VARIABLES
    documents,  \* documents.get(name)
    loading,    \* the object that loadingDocuments.get(name) will resolve to
    unloading,  \* unloadingDocuments.get(name): the object and how far it is
    checks,     \* objects with a setTimeout(.., 0) that may unload them (lines 478, 493)
    stage,      \* isLoading and isDestroyed of each object
    content,    \* what each object contains
    conn,       \* progress of each connection
    connDoc,    \* the object a connection holds
    discRun,    \* the store that DirectConnection.disconnect awaits
    promised,   \* auxiliary: the content when disconnect() was called
    store,      \* progress of the hooks of an execution; "none": queued on saveMutex
    captured,   \* the content an execution is storing
    db,         \* what the database has
    saved,      \* auxiliary: what the stores of each object have written, or its load has read
    failed,     \* auxiliary: objects whose last store failed
    failures,   \* number of hooks that threw
    evicted     \* auxiliary: an unload took the entry of another object out of `documents'

storeVars == <<store, captured, db, saved, failed>>
directVars == <<discRun, promised>>
connVars  == <<conn, connDoc, directVars>>
mapVars   == <<documents, loading, unloading, evicted>>
docVars   == <<stage, content>>
vars == <<debounceVars, storeVars, connVars, mapVars, docVars, checks, failures>>

NotUnloading == [doc |-> NoDoc, phase |-> "none"]

TypeOK ==
    /\ DebounceTypeOK
    /\ documents \in Docs \cup {NoDoc}
    /\ loading \in Docs \cup {NoDoc}
    /\ unloading \in [doc : Docs, phase : {"before", "after", "stuck"}] \cup {NotUnloading}
    /\ checks \subseteq Docs
    /\ stage \in [Docs -> {"unused", "loading", "ready", "destroyed"}]
    /\ content \in [Docs -> SUBSET Updates]
    /\ conn \in [Connections -> {"out", "joining", "in", "draining", "storing", "hook"}]
    /\ connDoc \in [Connections -> Docs \cup {NoDoc}]
    /\ \A c \in Connections : conn[c] \notin {"out", "joining"} => connDoc[c] \in Docs
    /\ discRun \in [Directs -> Runs \cup {NoRun}]
    /\ promised \in [Directs -> SUBSET Updates]
    /\ store \in [Runs -> {"none", "storing", "written"}]
    /\ captured \in [Runs -> SUBSET Updates]
    /\ db \in SUBSET Updates
    /\ saved \in [Docs -> SUBSET Updates]
    /\ failed \subseteq Docs
    /\ failures \in 0 .. MaxFailures
    /\ evicted \in BOOLEAN

Init ==
    /\ DebounceInit
    /\ documents = NoDoc /\ loading = NoDoc /\ unloading = NotUnloading
    /\ checks = {}
    /\ stage = [d \in Docs |-> "unused"]
    /\ content = [d \in Docs |-> {}]
    /\ conn = [c \in Connections |-> "out"]
    /\ connDoc = [c \in Connections |-> NoDoc]
    /\ discRun = [x \in Directs |-> NoRun]
    /\ promised = [x \in Directs |-> {}]
    /\ store = [r \in Runs |-> "none"]
    /\ captured = [r \in Runs |-> {}]
    /\ db = {}
    /\ saved = [d \in Docs |-> {}]
    /\ failed = {} /\ failures = 0 /\ evicted = FALSE

-----------------------------------------------------------------------------
\* Document.getConnectionsCount() > 0.  A direct connection is not counted from
\* the start of disconnect() on, a websocket from the start of close() on.
HasConnections(d) == \E c \in Connections : conn[c] = "in" /\ connDoc[c] = d

\* saveMutex.isLocked(): a store of this object is running or queued.
IsLocked(d) == \E r \in Runs : runState[r] = "executing" /\ runFunc[r] = d

\* Mutants: one of the conditions is missing.
ShouldUnloadIgnoringTimers(d) ==
    ~IsCurrentlyExecuting /\ ~IsLocked(d) /\ ~HasConnections(d)
ShouldUnloadIgnoringStores(d) == ~IsDebounced /\ ~HasConnections(d)
ShouldUnloadIgnoringConnections(d) ==
    ~IsDebounced /\ ~IsCurrentlyExecuting /\ ~IsLocked(d)

\* debounce and execution are looked up by name, the rest by object.
ShouldUnloadDocument(d) ==
    /\ ~IsDebounced
    /\ ~IsCurrentlyExecuting
    /\ ~IsLocked(d)
    /\ ~HasConnections(d)

\* unloadDocument(d) up to its first await.
UnloadDocument(d) ==
    IF ShouldUnloadDocument(d) /\ documents # NoDoc /\ unloading = NotUnloading
    THEN unloading' = [doc |-> d, phase |-> "before"]
    ELSE UNCHANGED unloading

\* Nothing refers to the object any more, so its identity may be used again.
Unreferenced(d) ==
    /\ documents # d /\ loading # d /\ unloading.doc # d /\ timer.func # d
    /\ d \notin checks /\ orphans[d] = 0
    /\ \A c \in Connections : connDoc[c] # d
    /\ \A r \in Runs : runFunc[r] # d

Fail == failures < MaxFailures /\ failures' = failures + 1

-----------------------------------------------------------------------------
\* loadDocument up to its first await: a new object of the name.
LoadDocument(d) ==
    /\ Unreferenced(d)
    /\ loading' = d
    /\ stage' = [stage EXCEPT ![d] = "loading"]
    /\ content' = [content EXCEPT ![d] = {}]
    /\ saved' = [saved EXCEPT ![d] = {}]
    /\ failed' = failed \ {d}

\* Mutant: a caller does not wait for the load in progress.
CreateDocumentNotAwaitingLoad(c) ==
    /\ conn[c] = "out"
    /\ \/ /\ loading # NoDoc \/ documents # NoDoc
          /\ conn' = [conn EXCEPT ![c] = "in"]
          /\ connDoc' = [connDoc EXCEPT ![c] = documents]
          /\ UNCHANGED <<loading, docVars, saved, failed>>
       \/ /\ loading = NoDoc /\ documents = NoDoc
          /\ conn' = [conn EXCEPT ![c] = "joining"]
          /\ \E d \in Docs : LoadDocument(d)
          /\ UNCHANGED connDoc
    /\ UNCHANGED <<debounceVars, documents, unloading, evicted, directVars, store,
                   captured, db, checks, failures>>

\* createDocument: wait for the load in progress, use the object in the map, or
\* start loading a new one.
CreateDocument(c) ==
    /\ conn[c] = "out"
    /\ \/ /\ loading # NoDoc
          /\ conn' = [conn EXCEPT ![c] = "joining"]
          /\ UNCHANGED <<connDoc, loading, docVars, saved, failed>>
       \/ /\ loading = NoDoc /\ documents # NoDoc
          /\ conn' = [conn EXCEPT ![c] = "in"]
          /\ connDoc' = [connDoc EXCEPT ![c] = documents]
          /\ UNCHANGED <<loading, docVars, saved, failed>>
       \/ /\ loading = NoDoc /\ documents = NoDoc
          /\ conn' = [conn EXCEPT ![c] = "joining"]
          /\ \E d \in Docs : LoadDocument(d)
          /\ UNCHANGED connDoc
    /\ UNCHANGED <<debounceVars, documents, unloading, evicted, directVars, store,
                   captured, db, checks, failures>>

\* The onLoadDocument hook applies what the database has; from here on updates
\* are observed.  The afterLoadDocument hook is still to come.
FetchDocument(d) ==
    /\ loading = d /\ stage[d] = "loading"
    /\ stage' = [stage EXCEPT ![d] = "ready"]
    /\ content' = [content EXCEPT ![d] = db]
    /\ saved' = [saved EXCEPT ![d] = db]
    /\ UNCHANGED <<debounceVars, mapVars, connVars, store, captured, db, failed,
                   checks, failures>>

\* The load resolves: the object enters the map and every call that awaits it
\* attaches its connection.
DocumentLoaded(d) ==
    /\ loading = d /\ stage[d] = "ready"
    /\ documents' = d /\ loading' = NoDoc
    /\ conn' = [c \in Connections |-> IF conn[c] = "joining" THEN "in" ELSE conn[c]]
    /\ connDoc' = [c \in Connections |-> IF conn[c] = "joining" THEN d ELSE connDoc[c]]
    /\ UNCHANGED <<debounceVars, storeVars, docVars, unloading, evicted, directVars,
                   checks, failures>>

\* A load hook throws: every call that awaits the load is rejected.  There is no
\* entry in `documents' during a load, so closeConnections finds nothing.
LoadFails(d) ==
    /\ loading = d
    /\ Fail
    /\ loading' = NoDoc
    /\ conn' = [c \in Connections |-> IF conn[c] = "joining" THEN "out" ELSE conn[c]]
    /\ IF stage[d] = "loading" THEN UnloadDocument(d) ELSE UNCHANGED unloading
    /\ UNCHANGED <<debounceVars, storeVars, docVars, connDoc, directVars, documents,
                   evicted, checks>>

-----------------------------------------------------------------------------
\* Mutant: no store is scheduled while one is in progress.
EditNotStoredWhileStoring(c, u) ==
    /\ conn[c] = "in"
    /\ u \notin content[connDoc[c]]
    /\ content' = [content EXCEPT ![connDoc[c]] = @ \cup {u}]
    /\ IF IsCurrentlyExecuting THEN UNCHANGED debounceVars ELSE Debounce(connDoc[c])
    /\ UNCHANGED <<storeVars, connVars, mapVars, stage, checks, failures>>

\* An update arrives on a connection: apply it, and let handleDocumentUpdate
\* debounce the store.  A closing websocket still processes the messages that
\* it has received, and disconnect() clears its `document' last.  A destroyed
\* Y.Doc has no observers.
Edit(c, u) ==
    /\ \/ conn[c] = "in"
       \/ c \in Clients /\ conn[c] = "draining"
       \/ c \in Directs /\ conn[c] \in {"storing", "hook"}
    /\ LET d == connDoc[c] IN
       /\ u \notin content[d]
       /\ content' = [content EXCEPT ![d] = @ \cup {u}]
       /\ IF stage[d] = "ready" THEN Debounce(d) ELSE UNCHANGED debounceVars
    /\ UNCHANGED <<storeVars, connVars, mapVars, stage, checks, failures>>

\* Connection.close: the connection leaves the document at once; its onClose
\* callback waits for the received messages, then calls the onDisconnect hook.
CloseConnection(c) ==
    /\ conn[c] = "in"
    /\ conn' = [conn EXCEPT ![c] = "draining"]
    /\ UNCHANGED <<debounceVars, storeVars, connDoc, directVars, mapVars, docVars,
                   checks, failures>>

\* closeConnections(name) closes the websockets of the object in the map.
CloseConnections ==
    /\ documents # NoDoc
    /\ conn' = [c \in Connections |->
                  IF c \in Clients /\ conn[c] = "in" /\ connDoc[c] = documents
                  THEN "draining" ELSE conn[c]]
    /\ UNCHANGED <<debounceVars, storeVars, connDoc, directVars, mapVars, docVars,
                   checks, failures>>

CallOnDisconnect(c) ==
    /\ conn[c] = "draining"
    /\ conn' = [conn EXCEPT ![c] = "hook"]
    /\ UNCHANGED <<debounceVars, storeVars, connDoc, directVars, mapVars, docVars,
                   checks, failures>>

\* Mutant: the last connection does not unload a document with nothing scheduled.
OnCloseNotUnloading(d) ==
    IF ~HasConnections(d) /\ IsDebounced /\ UnloadImmediately
    THEN (\E r \in Runs : ExecuteNow(r)) /\ UNCHANGED unloading
    ELSE UNCHANGED <<debounceVars, unloading>>

\* The callback that handleConnection passes to onClose.
OnClose(d) ==
    IF HasConnections(d) THEN UNCHANGED <<debounceVars, unloading>>
    ELSE IF stage[d] # "loading" /\ IsDebounced
    THEN /\ IF UnloadImmediately THEN \E r \in Runs : ExecuteNow(r)
            ELSE UNCHANGED debounceVars
         /\ UNCHANGED unloading
    ELSE UnloadDocument(d) /\ UNCHANGED debounceVars

\* The onDisconnect hook resolves.
Disconnected(c) ==
    /\ conn[c] = "hook"
    /\ conn' = [conn EXCEPT ![c] = "out"]
    /\ connDoc' = [connDoc EXCEPT ![c] = NoDoc]
    /\ IF c \in Clients
       THEN OnClose(connDoc[c])
       ELSE UnloadDocument(connDoc[c]) /\ UNCHANGED debounceVars
    /\ UNCHANGED <<storeVars, directVars, docVars, documents, loading, evicted,
                   checks, failures>>

\* Mutant: disconnect() awaits the execution in progress, not its own store.
DisconnectDirectAwaitingOther(x) ==
    /\ conn[x] = "in"
    /\ conn' = [conn EXCEPT ![x] = "storing"]
    /\ \E r \in Runs :
         /\ DebounceNow(r, connDoc[x])
         /\ discRun' = [discRun EXCEPT ![x] = IF IsCurrentlyExecuting THEN running ELSE r]
    /\ promised' = [promised EXCEPT ![x] = content[connDoc[x]]]
    /\ UNCHANGED <<storeVars, connDoc, mapVars, docVars, checks, failures>>

\* DirectConnection.disconnect: no longer counted, and a store with no delay
\* whose settlement is awaited.
DisconnectDirect(x) ==
    /\ conn[x] = "in"
    /\ conn' = [conn EXCEPT ![x] = "storing"]
    /\ \E r \in Runs :
         /\ DebounceNow(r, connDoc[x])
         /\ discRun' = [discRun EXCEPT ![x] = r]
    /\ promised' = [promised EXCEPT ![x] = content[connDoc[x]]]
    /\ UNCHANGED <<storeVars, connDoc, mapVars, docVars, checks, failures>>

\* disconnect() goes on in the turn in which its store settles.
ResumeDisconnect(r) ==
    LET Awaiting(c) == c \in Directs /\ conn[c] = "storing" /\ discRun[c] = r
        StillLocked(d) == \E q \in Runs \ {r} :
            runFunc[q] = d /\ (runState[q] = "executing" \/ q \in Waiters(r))
        Last(c) == ~HasConnections(connDoc[c]) /\ ~StillLocked(connDoc[c])
    IN  /\ conn' = [c \in Connections |->
                      IF ~Awaiting(c) THEN conn[c]
                      ELSE IF Last(c) THEN "hook" ELSE "out"]
        /\ connDoc' = [c \in Connections |->
                         IF Awaiting(c) /\ ~Last(c) THEN NoDoc ELSE connDoc[c]]
        /\ discRun' = [x \in Directs |-> IF Awaiting(x) THEN NoRun ELSE discRun[x]]
        /\ promised' = [x \in Directs |-> IF Awaiting(x) THEN {} ELSE promised[x]]

-----------------------------------------------------------------------------
\* flushPendingStores, called on shutdown.
FlushPendingStores ==
    /\ documents # NoDoc /\ stage[documents] # "loading"
    /\ \E r \in Runs : ExecuteNow(r)
    /\ UNCHANGED <<storeVars, connVars, mapVars, docVars, checks, failures>>

EntryTimerFires ==
    /\ \E r \in Runs : TimerFires(r)
    /\ UNCHANGED <<storeVars, connVars, mapVars, docVars, checks, failures>>

OrphanTimerFires(d) ==
    /\ \E r \in Runs : OrphanFires(r, d)
    /\ UNCHANGED <<storeVars, connVars, mapVars, docVars, checks, failures>>

\* Mutant: no saveMutex.
StartStoreUnlocked(r) ==
    /\ runState[r] = "executing" /\ store[r] = "none"
    /\ store' = [store EXCEPT ![r] = "storing"]
    /\ captured' = [captured EXCEPT ![r] = content[runFunc[r]]]
    /\ UNCHANGED <<debounceVars, db, saved, failed, connVars, mapVars, docVars,
                   checks, failures>>

\* saveMutex is free: the onStoreDocument hook reads the content.
StartStore(r) ==
    /\ runState[r] = "executing" /\ store[r] = "none"
    /\ \A q \in Runs : store[q] # "none" => runFunc[q] # runFunc[r]
    /\ store' = [store EXCEPT ![r] = "storing"]
    /\ captured' = [captured EXCEPT ![r] = content[runFunc[r]]]
    /\ UNCHANGED <<debounceVars, db, saved, failed, connVars, mapVars, docVars,
                   checks, failures>>

\* What the onStoreDocument hook read has reached the database.
WriteStore(r) ==
    /\ store[r] = "storing"
    /\ store' = [store EXCEPT ![r] = "written"]
    /\ db' = captured[r]
    /\ saved' = [saved EXCEPT ![runFunc[r]] = captured[r]]
    /\ failed' = failed \ {runFunc[r]}
    /\ UNCHANGED <<debounceVars, captured, connVars, mapVars, docVars, checks,
                   failures>>

\* The mutex is released, the execution settles, and whoever awaits it goes on.
SettleStore(r) ==
    /\ Finish(r)
    /\ store' = [store EXCEPT ![r] = "none"]
    /\ captured' = [captured EXCEPT ![r] = {}]
    /\ ResumeDisconnect(r)
    /\ UNCHANGED <<db, saved, mapVars, docVars>>

\* afterStoreDocument has resolved too.
StoreSucceeds(r) ==
    /\ store[r] = "written"
    /\ SettleStore(r)
    /\ checks' = checks \cup {runFunc[r]}
    /\ UNCHANGED <<failed, failures>>

\* Mutant: the error is not caught, so run() does not reach its last lines.
StoreFailsUncaught(r) ==
    /\ store[r] \in {"storing", "written"}
    /\ Fail
    /\ runState' = [runState EXCEPT ![r] = "idle"]
    /\ store' = [store EXCEPT ![r] = "none"]
    /\ failed' = failed \cup {runFunc[r]}
    /\ UNCHANGED <<timer, orphans, runFunc, awaits, running, entryLost, captured, db,
                   saved, connVars, mapVars, docVars, checks>>

\* A store hook throws: logged, no retry and no unload.
StoreFails(r) ==
    /\ store[r] \in {"storing", "written"}
    /\ Fail
    /\ SettleStore(r)
    /\ failed' = IF store[r] = "storing" THEN failed \cup {runFunc[r]} ELSE failed
    /\ UNCHANGED checks

\* An onStoreDocument hook throws SkipFurtherHooksError before the database's
\* turn: somebody else is taken to have stored the document.
StoreSkipped(r) ==
    /\ SkippingExtension
    /\ store[r] = "storing"
    /\ Fail
    /\ SettleStore(r)
    /\ failed' = failed \cup {runFunc[r]}
    /\ checks' = checks \cup {runFunc[r]}

-----------------------------------------------------------------------------
CheckUnload(d) ==
    /\ d \in checks
    /\ checks' = checks \ {d}
    /\ UnloadDocument(d)
    /\ UNCHANGED <<debounceVars, storeVars, connVars, docVars, documents, loading,
                   evicted, failures>>

\* Mutant: no second check after the hook.
BeforeUnloadResolvesUnchecked ==
    /\ unloading.phase = "before"
    /\ documents' = NoDoc
    /\ stage' = [stage EXCEPT ![unloading.doc] = "destroyed"]
    /\ unloading' = [doc |-> unloading.doc, phase |-> "after"]
    /\ evicted' = (evicted \/ documents \notin {unloading.doc, NoDoc})
    /\ UNCHANGED <<debounceVars, storeVars, connVars, loading, content, checks,
                   failures>>

\* beforeUnloadDocument resolves: unless the object is in use again, delete the
\* entry under its NAME and destroy it.
BeforeUnloadResolves ==
    /\ unloading.phase = "before"
    /\ LET d == unloading.doc IN
       IF ShouldUnloadDocument(d)
       THEN /\ documents' = NoDoc
            /\ evicted' = (evicted \/ documents \notin {d, NoDoc})
            /\ stage' = [stage EXCEPT ![d] = "destroyed"]
            /\ unloading' = [doc |-> unloading.doc, phase |-> "after"]
       ELSE /\ unloading' = NotUnloading
            /\ UNCHANGED <<documents, evicted, stage>>
    /\ UNCHANGED <<debounceVars, storeVars, connVars, loading, content, checks,
                   failures>>

\* A beforeUnloadDocument hook throws to keep the document in memory.
BeforeUnloadThrows ==
    /\ unloading.phase = "before"
    /\ Fail
    /\ unloading' = NotUnloading
    /\ UNCHANGED <<debounceVars, storeVars, connVars, docVars, documents, loading,
                   evicted, checks>>

AfterUnloadResolves ==
    /\ unloading.phase = "after"
    /\ unloading' = NotUnloading
    /\ UNCHANGED <<debounceVars, storeVars, connVars, docVars, documents, loading,
                   evicted, checks, failures>>

\* An afterUnloadDocument hook throws: line 590 is not reached.
AfterUnloadThrows ==
    /\ unloading.phase = "after"
    /\ Fail
    /\ unloading' = [doc |-> unloading.doc, phase |-> "stuck"]
    /\ UNCHANGED <<debounceVars, storeVars, connVars, docVars, documents, loading,
                   evicted, checks>>

Next ==
    \/ \E c \in Connections :
         CreateDocument(c) \/ Disconnected(c) \/ \E u \in Updates : Edit(c, u)
    \/ \E c \in Clients : CloseConnection(c) \/ CallOnDisconnect(c)
    \/ \E x \in Directs : DisconnectDirect(x)
    \/ CloseConnections \/ FlushPendingStores \/ EntryTimerFires
    \/ \E d \in Docs : OrphanTimerFires(d) \/
         FetchDocument(d) \/ DocumentLoaded(d) \/ LoadFails(d) \/ CheckUnload(d)
    \/ \E r \in Runs :
         \/ StartStore(r) \/ WriteStore(r)
         \/ StoreSucceeds(r) \/ StoreFails(r) \/ StoreSkipped(r)
    \/ BeforeUnloadResolves \/ BeforeUnloadThrows
    \/ AfterUnloadResolves \/ AfterUnloadThrows

Spec == Init /\ [][Next]_vars

\* Hooks resolve, armed timeouts fire, received messages are processed.  Nothing
\* is assumed of the callers: joining, editing, leaving, flushing.
Fairness ==
    /\ \A d \in Docs : WF_vars(FetchDocument(d)) /\ WF_vars(DocumentLoaded(d))
    /\ \A d \in Docs : WF_vars(CheckUnload(d))
    /\ \A c \in Clients : WF_vars(CallOnDisconnect(c))
    /\ \A c \in Connections : WF_vars(Disconnected(c))
    /\ \A r \in Runs :
         WF_vars(StartStore(r)) /\ WF_vars(WriteStore(r)) /\ WF_vars(StoreSucceeds(r))
    /\ WF_vars(EntryTimerFires)
    /\ \A d \in Docs : WF_vars(OrphanTimerFires(d))
    /\ WF_vars(BeforeUnloadResolves) /\ WF_vars(AfterUnloadResolves)

FairSpec == Spec /\ Fairness

-----------------------------------------------------------------------------
\* A connection is never attached to a document that has been destroyed, or
\* that is still loading: the check after the beforeUnloadDocument hook sees
\* every connection that came in meanwhile (CollabApi.ts:577), and
\* createDocument never returns such an object.
AttachedIsReady ==
    \A c \in Connections : conn[c] = "in" => stage[connDoc[c]] = "ready"

\* A connection relies on its document being the one in the map: a second
\* object of the name would split its users and overwrite its stores.
AttachedIsMapped ==
    \A c \in Connections : conn[c] = "in" => documents = connDoc[c]

\* The missing identity check in unloadDocument (CollabApi.ts:559, 579) is the
\* only way to lose the entry: until an unload has taken away the entry of
\* another object, every connection's document is the one in the map.
AttachedIsMappedUntilEviction == ~evicted => AttachedIsMapped

\* A timeout, an entry or an invocation that will read the content of d.
StoreIsComing(d) ==
    \/ timer.func = d \/ orphans[d] > 0
    \/ \E r \in Runs : runFunc[r] = d /\ runState[r] # "idle" /\ store[r] = "none"
    \/ \E r \in Runs : runFunc[r] = d /\ store[r] = "storing" /\ captured[r] = content[d]

\* No edit is forgotten: while a document has content that its stores have not
\* written, a store that includes it is scheduled, waiting or in progress,
\* unless the last store failed.
UnsavedIsScheduled ==
    ~evicted => \A d \in Docs :
        stage[d] = "ready" /\ content[d] # saved[d] /\ d \notin failed => StoreIsComing(d)

\* What the stores of one object write never goes back: saveMutex keeps an
\* older capture from being written after a newer one.
StoresDoNotGoBack ==
    [][\A d \in Docs : stage[d] # "loading" /\ stage'[d] # "loading" =>
          saved[d] \subseteq saved'[d]]_vars

\* A document is unloaded with everything written, unless its store failed,
\* until the debouncer drops an entry whose timeout is armed (debounce.ts:30).
UnloadedIsSaved ==
    [][\A d \in Docs :
          stage[d] = "ready" /\ stage'[d] = "destroyed"
          /\ ~evicted /\ ~entryLost /\ d \notin failed => content[d] = saved[d]]_vars

\* No store takes an edit out of the database that another store had written,
\* in the same life of the document or an earlier one, whatever has failed, as
\* long as neither root cause above has occurred.
StoreLosesNothing ==
    [][~evicted /\ ~entryLost => db \subseteq db']_vars

\* When disconnect() goes on after its store, everything the document had when
\* disconnect() was called has been written, even if the store had to wait for
\* another one ("direct connection transact awaits until onStoreDocument has
\* finished", tests/server/openDirectConnection.ts:204).
DisconnectIsStored ==
    [][\A x \in Directs :
          conn[x] = "storing" /\ conn'[x] # "storing" /\ connDoc[x] \notin failed' =>
              promised[x] \subseteq saved'[connDoc[x]]]_vars

\* "the document should be unloaded if there is no other connection left"
\* (tests/server/openDirectConnection.ts:153).
IdleIsUnloaded ==
    \A d \in Docs :
        documents = d /\ ~HasConnections(d) ~> documents # d \/ HasConnections(d)

\* "Document stays in memory to avoid data loss" (CollabApi.ts:487): a document
\* whose last store failed is not unloaded before a store has succeeded.
FailedStaysInMemory ==
    [][\A d \in Docs : d \in failed /\ stage[d] = "ready" => stage'[d] = "ready"]_vars

\* "Does not unload prematurely when a debounced save is pending"
\* (tests/server/onStoreDocument.ts:675): no timeout of a document is armed when
\* it is destroyed.
PendingSaveIsNotUnloaded ==
    [][\A d \in Docs : stage[d] = "ready" /\ stage'[d] = "destroyed" =>
          orphans[d] = 0 /\ ~(timer.func = d /\ timer.armed)]_vars
=============================================================================
