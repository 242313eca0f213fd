------------------------ MODULE DocumentStoreProofs ------------------------
(***************************************************************************)
(* For every number of documents, connections, updates, concurrent stores  *)
(* and failing hooks, in this order.                                       *)
(*                                                                         *)
(* The debouncer keeps its types, loses no wake-up and leaves no dead      *)
(* entry behind, and CollabApi uses it as its specification allows.  No    *)
(* connection is attached to a destroyed document, and only an eviction    *)
(* detaches a connection's document from the map.                          *)
(*                                                                         *)
(* No edit is forgotten, and a document is unloaded with everything        *)
(* written, up to the root causes that MCLifecycleEviction and             *)
(* MCLifecyclePendingSave show.  Whatever is evicted, fails or loses its   *)
(* entry: what the stores of an object write never goes back, and a direct *)
(* connection's disconnect() waits for what it was promised.  Until an     *)
(* eviction or a lost entry, no store undoes another, in any life.         *)
(*                                                                         *)
(* When destroy() of the server goes on to the onDestroy hooks, every      *)
(* update that a document has taken is stored.                             *)
(***************************************************************************)
EXTENDS Shutdown, TLAPS

-----------------------------------------------------------------------------
(* The debouncer, whatever its callers do and however many invocations of  *)
(* run() are in progress.                                                  *)

\* The three facts are inductive together.
DebounceInv == DebounceTypeOK /\ NoLostWakeup /\ DeadEntryIsDeleted

LEMMA DebounceInitInv == DebounceInit => DebounceInv
<1> SUFFICES ASSUME DebounceInit PROVE DebounceInv
  OBVIOUS
<1>1. DebounceTypeOK
  BY DEF DebounceInit, DebounceTypeOK
<1>2. NoLostWakeup
  BY DEF DebounceInit, NoLostWakeup, IsCurrentlyExecuting
<1>3. DeadEntryIsDeleted
  BY DEF DebounceInit, DeadEntryIsDeleted, IsDebounced
<1> QED BY <1>1, <1>2, <1>3 DEF DebounceInv

\* What a caller of Run has to show: the entry and the orphans that it passes are
\* well-formed, and a dead entry has a waiting invocation or is about to get one.
LEMMA RunKeepsInv ==
    ASSUME DebounceInv, NEW r \in Runs, NEW d \in Docs,
           NEW entry \in [func : Docs, armed : BOOLEAN] \cup {NoTimer},
           NEW orph \in [Docs -> Nat],
           Run(r, d, entry, orph)
    PROVE  DebounceInv'
<1> USE NullAssumption DEF DebounceInv
<1>0. entry.armed => entry.func \in Docs
  BY DEF NoTimer
<1>1. CASE IsCurrentlyExecuting
  <2>1. /\ runState' = [runState EXCEPT ![r] = "waiting"]
        /\ runFunc' = [runFunc EXCEPT ![r] = d]
        /\ awaits' = [awaits EXCEPT ![r] = running]
        /\ timer' = entry /\ orphans' = orph
        /\ running' = running /\ entryLost' = entryLost
        /\ runState[r] = "idle"
    BY <1>1 DEF Run
  <2>2. DebounceTypeOK'
    BY <2>1 DEF DebounceTypeOK
  <2>3. NoLostWakeup'
    BY <1>1, <2>1 DEF NoLostWakeup, DebounceTypeOK, IsCurrentlyExecuting
  <2>4. DeadEntryIsDeleted'
    BY <2>1 DEF DeadEntryIsDeleted, DebounceTypeOK
  <2> QED BY <2>2, <2>3, <2>4
<1>2. CASE ~IsCurrentlyExecuting
  <2>1. /\ runState' = [runState EXCEPT ![r] = "executing"]
        /\ runFunc' = [runFunc EXCEPT ![r] = d]
        /\ awaits' = awaits
        /\ running' = r
        /\ DeleteTimer(entry, orph)
        /\ runState[r] = "idle"
    BY <1>2 DEF Run
  <2>2. DebounceTypeOK'
    BY <1>0, <2>1 DEF DebounceTypeOK, DeleteTimer
  <2>3. NoLostWakeup'
    BY <2>1 DEF NoLostWakeup, DebounceTypeOK, IsCurrentlyExecuting
  <2>4. DeadEntryIsDeleted'
    BY <2>1 DEF DeadEntryIsDeleted, DeleteTimer, IsDebounced
  <2> QED BY <2>2, <2>3, <2>4
<1> QED BY <1>1, <1>2

LEMMA ClearedIsEntry ==
    ASSUME DebounceTypeOK
    PROVE  Cleared(timer) \in [func : Docs, armed : BOOLEAN] \cup {NoTimer}
<1>1. CASE timer = NoTimer
  BY <1>1 DEF Cleared, NoTimer
<1>2. CASE timer \in [func : Docs, armed : BOOLEAN]
  BY <1>2 DEF Cleared
<1> QED BY <1>1, <1>2 DEF DebounceTypeOK

LEMMA FinishKeepsInv ==
    ASSUME DebounceInv, NEW r \in Runs, Finish(r)
    PROVE  DebounceInv'
<1> USE NullAssumption DEF DebounceInv
<1>0. timer.armed => timer.func \in Docs
  BY DEF DebounceTypeOK, NoTimer
<1>1. /\ runState \in [Runs -> {"idle", "waiting", "executing"}]
      /\ runState[r] = "executing"
      /\ \A q \in Runs : runState'[q] = IF q = r THEN "idle"
                                        ELSE IF q \in Waiters(r) THEN "executing"
                                        ELSE runState[q]
      /\ \A q \in Runs : awaits'[q] = IF q \in Waiters(r) THEN NoRun ELSE awaits[q]
      /\ r \notin Waiters(r)
      /\ Waiters(r) \subseteq Runs
      /\ \A q \in Runs : runState'[q] # "idle" => runFunc'[q] \in Docs
  BY DEF Finish, DebounceTypeOK, Waiters
<1>2. CASE Waiters(r) = {}
  <2>1. running' = NoRun /\ timer' = timer /\ orphans' = orphans /\ entryLost' = entryLost
    BY <1>2 DEF Finish
  <2>2. DebounceTypeOK'
    BY <2>1, <1>1 DEF DebounceTypeOK, Finish
  <2>3. NoLostWakeup'
    <3>1. \A q \in Runs : runState'[q] = "waiting" => runState[q] = "waiting" /\ awaits'[q] = awaits[q] /\ awaits[q] # r
      BY <1>1, <1>2 DEF Waiters
    <3> QED BY <2>1, <3>1, <1>1, <1>2 DEF NoLostWakeup, IsCurrentlyExecuting
  <2>4. DeadEntryIsDeleted'
    BY <2>1, <1>1, <1>2 DEF DeadEntryIsDeleted, IsDebounced
  <2> QED BY <2>2, <2>3, <2>4
<1>3. CASE running' \in Waiters(r) /\ DeleteTimer(timer, orphans)
  <2>2. DebounceTypeOK'
    BY <1>0, <1>1, <1>3 DEF DebounceTypeOK, Finish, DeleteTimer
  <2>3. NoLostWakeup'
    <3>1. \A q \in Runs : runState'[q] = "waiting" => runState[q] = "waiting" /\ awaits'[q] = awaits[q] /\ awaits[q] # r
      BY <1>1 DEF Waiters
    <3>2. \A q \in Runs : runState[q] = "executing" /\ q # r => runState'[q] = "executing"
      BY <1>1 DEF Waiters
    <3> QED BY <1>3, <3>1, <3>2, <1>1 DEF NoLostWakeup, IsCurrentlyExecuting
  <2>4. DeadEntryIsDeleted'
    BY <1>3 DEF DeadEntryIsDeleted, DeleteTimer, IsDebounced
  <2> QED BY <2>2, <2>3, <2>4
<1> QED BY <1>2, <1>3 DEF Finish

\* One step of the debouncer, one case per operation.
LEMMA DebounceNextInv == DebounceInv /\ [DebounceNext]_debounceVars => DebounceInv'
<1> SUFFICES ASSUME DebounceInv, [DebounceNext]_debounceVars PROVE DebounceInv'
  OBVIOUS
<1>0. /\ DebounceTypeOK
      /\ orphans \in [Docs -> Nat]
      /\ timer \in [func : Docs, armed : BOOLEAN] \cup {NoTimer}
      /\ IsDebounced \/ timer.armed => timer.func \in Docs
      /\ Cleared(timer) \in [func : Docs, armed : BOOLEAN] \cup {NoTimer}
  BY ClearedIsEntry DEF DebounceInv, DebounceTypeOK, IsDebounced, NoTimer
<1>1. ASSUME NEW d \in Docs, DebounceLater(d) PROVE DebounceInv'
  BY <1>1 DEF DebounceLater, DebounceInv, DebounceTypeOK, NoLostWakeup,
     DeadEntryIsDeleted, IsCurrentlyExecuting
<1>2. ASSUME NEW d \in Docs, NEW r \in Runs, DebounceNow(r, d) PROVE DebounceInv'
  BY <1>0, <1>2, RunKeepsInv DEF DebounceNow
<1>3. ASSUME NEW r \in Runs, ExecuteNow(r) PROVE DebounceInv'
  BY <1>0, <1>3, RunKeepsInv DEF ExecuteNow
<1>4. ASSUME NEW r \in Runs, TimerFires(r) PROVE DebounceInv'
  BY <1>0, <1>4, RunKeepsInv DEF TimerFires
<1>5. ASSUME NEW r \in Runs, NEW d \in Docs, OrphanFires(r, d) PROVE DebounceInv'
  <2>1. [orphans EXCEPT ![d] = @ - 1] \in [Docs -> Nat]
    BY <1>0, <1>5 DEF OrphanFires
  <2> QED BY <1>0, <1>5, <2>1, RunKeepsInv DEF OrphanFires
<1>6. ASSUME NEW r \in Runs, Finish(r) PROVE DebounceInv'
  BY <1>6, FinishKeepsInv
<1>7. CASE UNCHANGED debounceVars
  BY <1>7 DEF debounceVars, DebounceInv, DebounceTypeOK, NoLostWakeup,
     DeadEntryIsDeleted, IsDebounced, IsCurrentlyExecuting
<1> QED
  BY <1>1, <1>2, <1>3, <1>4, <1>5, <1>6, <1>7 DEF DebounceNext, Debounce

\* Types, lost wake-ups and dead entries: debounce.ts is right about all three
\* for every set of closures and any number of invocations.
THEOREM DebounceInvariant == DebounceSpec => []DebounceInv
BY DebounceInitInv, DebounceNextInv, PTL DEF DebounceSpec

\* No invocation of run() waits for an execution that has already settled, and
\* runningExecutions never keeps a settled one (debounce.ts:25-36).
THEOREM DebounceLosesNoWakeup == DebounceSpec => []NoLostWakeup
<1>1. DebounceInv => NoLostWakeup
  BY DEF DebounceInv
<1> QED BY <1>1, DebounceInvariant, PTL

\* Whenever an entry is left without an armed timeout, a waiting invocation will
\* delete it (debounce.ts:30, 41-50, 60-66).
THEOREM DebounceDeletesDeadEntries == DebounceSpec => []DeadEntryIsDeleted
<1>1. DebounceInv => DeadEntryIsDeleted
  BY DEF DebounceInv
<1> QED BY <1>1, DebounceInvariant, PTL

-----------------------------------------------------------------------------
(* The life of the documents.                                              *)

\* Hooks of a store run only inside an execution of the debouncer.
StoreIsExecution == \A r \in Runs : store[r] # "none" => runState[r] = "executing"

\* The object in the map is loaded and not destroyed, and nothing is loaded
\* while the map has an entry.
MapIsSound ==
    /\ documents # NoDoc => stage[documents] = "ready"
    /\ loading # NoDoc => documents = NoDoc

\* The inductive invariant.
LifecycleInv ==
    /\ TypeOK
    /\ DebounceInv
    /\ StoreIsExecution
    /\ MapIsSound
    /\ AttachedIsReady
    /\ AttachedIsMappedUntilEviction

LEMMA LifecycleInitInv == Init => LifecycleInv
<1> SUFFICES ASSUME Init PROVE LifecycleInv
  OBVIOUS
<1>1. DebounceInv /\ DebounceTypeOK
  BY DebounceInitInv DEF Init, DebounceInv
<1>2. TypeOK
  <2>1. failures \in 0 .. MaxFailures
    BY ConfigurationAssumption DEF Init
  <2>2. \A c \in Connections : conn[c] = "out"
    BY DEF Init
  <2> QED BY <1>1, <2>1, <2>2 DEF Init, TypeOK
<1>3. StoreIsExecution /\ MapIsSound /\ AttachedIsReady /\ AttachedIsMappedUntilEviction
  BY DEF Init, StoreIsExecution, MapIsSound, AttachedIsReady,
     AttachedIsMappedUntilEviction, AttachedIsMapped
<1> QED BY <1>1, <1>2, <1>3 DEF LifecycleInv

-----------------------------------------------------------------------------
(* What the actions do to the debouncer.                                   *)

LEMMA EditIsDebounceStep ==
    ASSUME TypeOK, NEW c \in Connections, NEW u \in Updates, Edit(c, u)
    PROVE  [DebounceNext]_debounceVars
<1>1. connDoc[c] \in Docs
  BY DEF Edit, TypeOK
<1> QED BY <1>1 DEF Edit, DebounceNext

LEMMA DisconnectedIsDebounceStep ==
    ASSUME TypeOK, NEW c \in Connections, Disconnected(c)
    PROVE  [DebounceNext]_debounceVars
BY DEF Disconnected, OnClose, DebounceNext

LEMMA DisconnectDirectIsDebounceStep ==
    ASSUME TypeOK, NEW x \in Directs, DisconnectDirect(x)
    PROVE  [DebounceNext]_debounceVars
<1>1. connDoc[x] \in Docs
  BY DEF DisconnectDirect, TypeOK, Connections
<1> QED BY <1>1 DEF DisconnectDirect, DebounceNext

LEMMA SettleIsDebounceStep ==
    ASSUME NEW r \in Runs, SettleStore(r)
    PROVE  DebounceNext
BY DEF SettleStore, DebounceNext

\* Every step of CollabApi is a step of the debouncer or leaves it alone.
LEMMA NextIsDebounceStep == TypeOK /\ [Next]_vars => [DebounceNext]_debounceVars
<1> SUFFICES ASSUME TypeOK, [Next]_vars PROVE [DebounceNext]_debounceVars
  OBVIOUS
<1>1. ASSUME NEW c \in Connections, CreateDocument(c) PROVE UNCHANGED debounceVars
  BY <1>1 DEF CreateDocument
<1>2. ASSUME NEW d \in Docs,
             FetchDocument(d) \/ DocumentLoaded(d) \/ LoadFails(d) \/ CheckUnload(d)
      PROVE  UNCHANGED debounceVars
  BY <1>2 DEF FetchDocument, DocumentLoaded, LoadFails, CheckUnload
<1>3. ASSUME NEW c \in Clients, CloseConnection(c) \/ CallOnDisconnect(c)
      PROVE  UNCHANGED debounceVars
  BY <1>3 DEF CloseConnection, CallOnDisconnect
<1>4. CASE CloseConnections
  BY <1>4 DEF CloseConnections
<1>5. CASE FlushPendingStores \/ EntryTimerFires
  BY <1>5 DEF FlushPendingStores, EntryTimerFires, DebounceNext
<1>6. ASSUME NEW d \in Docs, OrphanTimerFires(d) PROVE DebounceNext
  BY <1>6 DEF OrphanTimerFires, DebounceNext
<1>7. ASSUME NEW r \in Runs, StartStore(r) \/ WriteStore(r)
      PROVE  UNCHANGED debounceVars
  BY <1>7 DEF StartStore, WriteStore
<1>8. ASSUME NEW r \in Runs, StoreSucceeds(r) \/ StoreFails(r) \/ StoreSkipped(r)
      PROVE  DebounceNext
  BY <1>8, SettleIsDebounceStep DEF StoreSucceeds, StoreFails, StoreSkipped
<1>9. CASE BeforeUnloadResolves \/ BeforeUnloadThrows
           \/ AfterUnloadResolves \/ AfterUnloadThrows
  BY <1>9 DEF BeforeUnloadResolves, BeforeUnloadThrows, AfterUnloadResolves,
     AfterUnloadThrows
<1>10. CASE UNCHANGED vars
  BY <1>10 DEF vars
<1> QED
  BY <1>1, <1>2, <1>3, <1>4, <1>5, <1>6, <1>7, <1>8, <1>9, <1>10,
     EditIsDebounceStep, DisconnectedIsDebounceStep, DisconnectDirectIsDebounceStep
  DEF Next

\* No operation but Finish takes an execution out of progress.
LEMMA RunKeepsExecutions ==
    ASSUME DebounceTypeOK, NEW r, NEW d, NEW entry, NEW orph, Run(r, d, entry, orph)
    PROVE  \A q \in Runs : runState[q] = "executing" => runState'[q] = "executing"
BY DEF Run, DebounceTypeOK

LEMMA CallsKeepExecutions ==
    ASSUME DebounceTypeOK, NEW r, NEW d,
           \/ Debounce(d) \/ DebounceNow(r, d) \/ ExecuteNow(r)
           \/ TimerFires(r) \/ OrphanFires(r, d) \/ UNCHANGED debounceVars
    PROVE  \A q \in Runs : runState[q] = "executing" => runState'[q] = "executing"
<1>1. CASE DebounceLater(d) \/ UNCHANGED debounceVars
  BY <1>1 DEF DebounceLater, debounceVars
<1> QED
  BY <1>1, RunKeepsExecutions
  DEF Debounce, DebounceNow, ExecuteNow, TimerFires, OrphanFires

LEMMA UnloadKeepsType ==
    ASSUME TypeOK, NEW d \in Docs, UnloadDocument(d)
    PROVE  unloading' \in [doc : Docs, phase : {"before", "after", "stuck"}]
                             \cup {NotUnloading}
BY DEF TypeOK, UnloadDocument

\* The inductive step, given that the debouncer does its part, for the actions
\* that may change only the content and the debouncer.
LEMMA UpdateStep ==
    ASSUME LifecycleInv, DebounceInv',
           \A q \in Runs : runState[q] = "executing" => runState'[q] = "executing",
           content' \in [Docs -> SUBSET Updates],
           UNCHANGED <<storeVars, connVars, mapVars, stage, checks, failures>>
    PROVE  LifecycleInv'
<1>1. TypeOK'
  BY DEF LifecycleInv, TypeOK, DebounceInv, storeVars, connVars, directVars, mapVars
<1>2. StoreIsExecution'
  BY DEF LifecycleInv, TypeOK, StoreIsExecution, storeVars
<1>3. MapIsSound' /\ AttachedIsReady' /\ AttachedIsMappedUntilEviction'
  BY DEF LifecycleInv, MapIsSound, AttachedIsReady, AttachedIsMappedUntilEviction,
     AttachedIsMapped, connVars, mapVars
<1> QED BY <1>1, <1>2, <1>3 DEF LifecycleInv

\* For the actions in which connections only leave, or do not attach, and no
\* document changes its stage or its place in the map.
LEMMA LeaveStep ==
    ASSUME LifecycleInv, DebounceInv', TypeOK',
           \A q \in Runs : runState[q] = "executing" /\ store'[q] # "none" =>
                            runState'[q] = "executing",
           \A q \in Runs : store'[q] # "none" => runState[q] = "executing",
           \A c \in Connections : conn'[c] = "in" => conn[c] = "in" /\ connDoc'[c] = connDoc[c],
           documents' = documents, stage' = stage, evicted' = evicted,
           loading' \in {loading, NoDoc}
    PROVE  LifecycleInv'
<1>1. StoreIsExecution'
  BY DEF StoreIsExecution
<1>2. MapIsSound' /\ AttachedIsReady' /\ AttachedIsMappedUntilEviction'
  BY DEF LifecycleInv, MapIsSound, AttachedIsReady, AttachedIsMappedUntilEviction,
     AttachedIsMapped
<1> QED BY <1>1, <1>2 DEF LifecycleInv

-----------------------------------------------------------------------------
(* The inductive step of each kind of action.                              *)

LEMMA CreateDocumentInv ==
    ASSUME LifecycleInv, DebounceInv', NEW c \in Connections, CreateDocument(c)
    PROVE  LifecycleInv'
<1>0. /\ TypeOK /\ UNCHANGED <<debounceVars, documents, unloading, evicted, directVars,
                              store, captured, db, checks, failures>>
      /\ runState' = runState
  BY DEF LifecycleInv, CreateDocument, LoadDocument, debounceVars
<1>1. CASE loading # NoDoc /\ conn' = [conn EXCEPT ![c] = "joining"]
           /\ UNCHANGED <<connDoc, loading, docVars, saved, failed>>
  <2>1. TypeOK'
    BY <1>0, <1>1 DEF TypeOK, DebounceInv, directVars, docVars
  <2> QED BY <1>0, <1>1, <2>1, LeaveStep DEF LifecycleInv, StoreIsExecution, TypeOK, docVars
<1>2. CASE documents # NoDoc /\ conn' = [conn EXCEPT ![c] = "in"]
           /\ connDoc' = [connDoc EXCEPT ![c] = documents]
           /\ UNCHANGED <<loading, docVars, saved, failed>>
  <2>1. TypeOK'
    BY <1>0, <1>2 DEF TypeOK, DebounceInv, directVars, docVars
  <2>2. StoreIsExecution' /\ MapIsSound' /\ AttachedIsReady' /\ AttachedIsMappedUntilEviction'
    BY <1>0, <1>2 DEF LifecycleInv, TypeOK, StoreIsExecution, MapIsSound, AttachedIsReady,
       AttachedIsMappedUntilEviction, AttachedIsMapped, docVars
  <2> QED BY <2>1, <2>2 DEF LifecycleInv
<1>3. ASSUME NEW d \in Docs, documents = NoDoc, Unreferenced(d),
             conn' = [conn EXCEPT ![c] = "joining"], UNCHANGED connDoc,
             loading' = d, stage' = [stage EXCEPT ![d] = "loading"],
             content' = [content EXCEPT ![d] = {}],
             saved' = [saved EXCEPT ![d] = {}], failed' = failed \ {d}
      PROVE  LifecycleInv'
  <2>1. TypeOK'
    BY <1>0, <1>3 DEF TypeOK, DebounceInv, directVars
  <2>2. \A x \in Connections : connDoc[x] # d
    BY <1>3 DEF Unreferenced
  <2>3. StoreIsExecution' /\ MapIsSound'
    BY <1>0, <1>3 DEF LifecycleInv, TypeOK, StoreIsExecution, MapIsSound
  <2>4. AttachedIsReady' /\ AttachedIsMappedUntilEviction'
    BY <1>0, <1>3, <2>2 DEF LifecycleInv, TypeOK, AttachedIsReady,
       AttachedIsMappedUntilEviction, AttachedIsMapped
  <2> QED BY <2>1, <2>3, <2>4 DEF LifecycleInv
<1> QED BY <1>1, <1>2, <1>3 DEF CreateDocument, LoadDocument

LEMMA LoadInv ==
    ASSUME LifecycleInv, DebounceInv', NEW d \in Docs,
           FetchDocument(d) \/ DocumentLoaded(d) \/ LoadFails(d)
    PROVE  LifecycleInv'
<1>0. TypeOK /\ UNCHANGED debounceVars /\ UNCHANGED <<runState, store>>
  BY DEF LifecycleInv, FetchDocument, DocumentLoaded, LoadFails, debounceVars, storeVars
<1>1. CASE FetchDocument(d)
  <2>1. TypeOK'
    BY <1>0, <1>1 DEF FetchDocument, TypeOK, DebounceInv, mapVars, connVars, directVars
  <2>2. StoreIsExecution' /\ MapIsSound' /\ AttachedIsReady' /\ AttachedIsMappedUntilEviction'
    BY <1>0, <1>1 DEF FetchDocument, LifecycleInv, TypeOK, StoreIsExecution, MapIsSound,
       AttachedIsReady, AttachedIsMappedUntilEviction, AttachedIsMapped, mapVars, connVars
  <2> QED BY <2>1, <2>2 DEF LifecycleInv
<1>2. CASE DocumentLoaded(d)
  <2>1. TypeOK'
    BY <1>0, <1>2 DEF DocumentLoaded, TypeOK, DebounceInv, storeVars, docVars, directVars
  <2>2. documents = NoDoc
    BY <1>2, NullAssumption DEF DocumentLoaded, LifecycleInv, MapIsSound
  \* Nobody is attached yet, unless an eviction has taken place.
  <2>3. ~evicted => \A c \in Connections : conn[c] # "in"
    BY <1>0, <2>2, NullAssumption
    DEF LifecycleInv, TypeOK, AttachedIsMappedUntilEviction, AttachedIsMapped
  <2>4. StoreIsExecution' /\ MapIsSound'
    BY <1>0, <1>2 DEF DocumentLoaded, LifecycleInv, StoreIsExecution, MapIsSound, docVars
  <2>5. AttachedIsReady' /\ AttachedIsMappedUntilEviction'
    BY <1>0, <1>2, <2>3 DEF DocumentLoaded, LifecycleInv, AttachedIsReady,
       AttachedIsMappedUntilEviction, AttachedIsMapped, docVars
  <2> QED BY <2>1, <2>4, <2>5 DEF LifecycleInv
<1>3. CASE LoadFails(d)
  <2>1. TypeOK'
    <3>1. unloading' \in [doc : Docs, phase : {"before", "after", "stuck"}]
                             \cup {NotUnloading}
      BY <1>0, <1>3, UnloadKeepsType DEF LoadFails, TypeOK
    <3>2. failures' \in 0 .. MaxFailures
      BY <1>0, <1>3, ConfigurationAssumption DEF LoadFails, Fail, TypeOK
    <3> QED BY <1>0, <1>3, <3>1, <3>2
        DEF LoadFails, TypeOK, DebounceInv, storeVars, docVars, directVars
  <2> QED BY <1>0, <1>3, <2>1, LeaveStep
      DEF LoadFails, LifecycleInv, StoreIsExecution, storeVars, docVars
<1> QED BY <1>1, <1>2, <1>3

LEMMA EditInv ==
    ASSUME LifecycleInv, DebounceInv', NEW c \in Connections, NEW u \in Updates, Edit(c, u)
    PROVE  LifecycleInv'
<1>1. TypeOK /\ DebounceTypeOK
  BY DEF LifecycleInv, TypeOK
<1>2. content' \in [Docs -> SUBSET Updates]
  BY <1>1 DEF Edit, TypeOK
<1>3. Debounce(connDoc[c]) \/ UNCHANGED debounceVars
  BY DEF Edit
<1>4. \A q \in Runs : runState[q] = "executing" => runState'[q] = "executing"
  BY <1>1, <1>3, CallsKeepExecutions
<1> QED BY <1>2, <1>4, UpdateStep DEF Edit

LEMMA TimersInv ==
    ASSUME LifecycleInv, DebounceInv',
           FlushPendingStores \/ EntryTimerFires \/ \E d \in Docs : OrphanTimerFires(d)
    PROVE  LifecycleInv'
<1>1. TypeOK /\ DebounceTypeOK
  BY DEF LifecycleInv, TypeOK
<1>2. UNCHANGED <<storeVars, connVars, mapVars, docVars, checks, failures>>
  BY DEF FlushPendingStores, EntryTimerFires, OrphanTimerFires
<1>3. \A q \in Runs : runState[q] = "executing" => runState'[q] = "executing"
  BY <1>1, CallsKeepExecutions DEF FlushPendingStores, EntryTimerFires, OrphanTimerFires
<1> QED BY <1>1, <1>2, <1>3, UpdateStep DEF TypeOK, docVars

LEMMA CloseInv ==
    ASSUME LifecycleInv, DebounceInv',
           \/ \E c \in Clients : CloseConnection(c) \/ CallOnDisconnect(c)
           \/ CloseConnections
    PROVE  LifecycleInv'
<1>1. /\ TypeOK /\ UNCHANGED <<debounceVars, storeVars, connDoc, directVars, mapVars, docVars,
                              checks, failures>>
      /\ UNCHANGED <<runState, store, documents, stage, evicted, loading>>
  BY DEF LifecycleInv, CloseConnection, CallOnDisconnect, CloseConnections, debounceVars,
     storeVars, mapVars, docVars
<1>2. \/ \E c \in Clients : conn[c] # "out" /\ conn[c] # "joining"
                            /\ \E s \in {"draining", "hook"} : conn' = [conn EXCEPT ![c] = s]
      \/ conn' = [c \in Connections |->
                  IF c \in Clients /\ conn[c] = "in" /\ connDoc[c] = documents
                  THEN "draining" ELSE conn[c]]
  BY DEF CloseConnection, CallOnDisconnect, CloseConnections
<1>3. TypeOK'
  BY <1>1, <1>2 DEF TypeOK, DebounceInv, Connections, storeVars, directVars, mapVars, docVars
<1>4. \A c \in Connections : conn'[c] = "in" => conn[c] = "in"
  BY <1>1, <1>2 DEF TypeOK
<1> QED BY <1>1, <1>3, <1>4, LeaveStep DEF LifecycleInv, StoreIsExecution

LEMMA DisconnectedInv ==
    ASSUME LifecycleInv, DebounceInv', NEW c \in Connections, Disconnected(c)
    PROVE  LifecycleInv'
<1>1. TypeOK /\ DebounceTypeOK /\ connDoc[c] \in Docs
  BY DEF LifecycleInv, TypeOK, Disconnected
<1>2. /\ UNCHANGED <<storeVars, directVars, docVars, documents, loading, evicted, checks,
                     failures>>
      /\ conn' = [conn EXCEPT ![c] = "out"] /\ connDoc' = [connDoc EXCEPT ![c] = NoDoc]
  BY DEF Disconnected
<1>3. UnloadDocument(connDoc[c]) \/ UNCHANGED unloading
  BY DEF Disconnected, OnClose
<1>4. (\E r \in Runs : ExecuteNow(r)) \/ UNCHANGED debounceVars
  BY DEF Disconnected, OnClose
<1>5. \A q \in Runs : runState[q] = "executing" => runState'[q] = "executing"
  BY <1>1, <1>4, CallsKeepExecutions
<1>6. TypeOK'
  <2>1. unloading' \in [doc : Docs, phase : {"before", "after", "stuck"}] \cup {NotUnloading}
    BY <1>1, <1>3, UnloadKeepsType DEF TypeOK
  <2> QED BY <1>1, <1>2, <2>1 DEF TypeOK, DebounceInv, storeVars, directVars, docVars
<1>7. \A x \in Connections : conn'[x] = "in" => conn[x] = "in" /\ connDoc'[x] = connDoc[x]
  BY <1>1, <1>2 DEF TypeOK
<1> QED BY <1>2, <1>5, <1>6, <1>7, LeaveStep DEF LifecycleInv, StoreIsExecution, storeVars, docVars

LEMMA DisconnectDirectInv ==
    ASSUME LifecycleInv, DebounceInv', NEW x \in Directs, DisconnectDirect(x)
    PROVE  LifecycleInv'
<1>1. TypeOK /\ DebounceTypeOK /\ x \in Connections /\ connDoc[x] \in Docs
  BY DEF LifecycleInv, TypeOK, DisconnectDirect, Connections
<1>2. PICK r \in Runs : DebounceNow(r, connDoc[x]) /\ discRun' = [discRun EXCEPT ![x] = r]
  BY DEF DisconnectDirect
<1>3. \A q \in Runs : runState[q] = "executing" => runState'[q] = "executing"
  BY <1>1, <1>2, CallsKeepExecutions
<1>4. TypeOK'
  BY <1>1, <1>2 DEF DisconnectDirect, TypeOK, DebounceInv, storeVars, mapVars, docVars
<1>5. \A c \in Connections : conn'[c] = "in" => conn[c] = "in" /\ connDoc'[c] = connDoc[c]
  BY <1>1 DEF DisconnectDirect, TypeOK
<1> QED BY <1>3, <1>4, <1>5, LeaveStep
    DEF DisconnectDirect, LifecycleInv, StoreIsExecution, storeVars, mapVars, docVars
LEMMA StartStoreInv ==
    ASSUME LifecycleInv, DebounceInv', NEW r \in Runs, StartStore(r) \/ WriteStore(r)
    PROVE  LifecycleInv'
<1>1. /\ TypeOK /\ UNCHANGED <<debounceVars, connVars, mapVars, docVars, checks, failures>>
      /\ UNCHANGED <<runState, runFunc, conn, connDoc, documents, stage, evicted, loading>>
      /\ runState[r] = "executing"
  BY DEF LifecycleInv, StoreIsExecution, StartStore, WriteStore, debounceVars, connVars,
     mapVars, docVars
<1>2. runFunc[r] \in Docs
  BY <1>1 DEF TypeOK, DebounceTypeOK
<1>3. TypeOK'
  BY <1>1, <1>2 DEF StartStore, WriteStore, TypeOK, DebounceInv, connVars, directVars,
     mapVars, docVars
<1>4. \A q \in Runs : store'[q] # "none" => runState[q] = "executing"
  BY <1>1 DEF StartStore, WriteStore, LifecycleInv, TypeOK, StoreIsExecution
<1> QED BY <1>1, <1>3, <1>4, LeaveStep DEF LifecycleInv

\* The connections that go on after an execution were waiting in disconnect().
LEMMA SettleStoreInv ==
    ASSUME LifecycleInv, DebounceInv', NEW r \in Runs,
           StoreSucceeds(r) \/ StoreFails(r) \/ StoreSkipped(r)
    PROVE  LifecycleInv'
<1>1. /\ TypeOK /\ Finish(r) /\ ResumeDisconnect(r)
      /\ store' = [store EXCEPT ![r] = "none"]
      /\ captured' = [captured EXCEPT ![r] = {}]
      /\ UNCHANGED <<db, saved, mapVars, docVars>>
  BY DEF LifecycleInv, StoreSucceeds, StoreFails, StoreSkipped, SettleStore
<1>2. runState[r] = "executing" /\ runFunc[r] \in Docs
  BY <1>1 DEF Finish, TypeOK, DebounceTypeOK
<1>3. checks' \subseteq Docs /\ failed' \subseteq Docs
  BY <1>1, <1>2 DEF StoreSucceeds, StoreFails, StoreSkipped, TypeOK
<1>4. failures' \in 0 .. MaxFailures
  BY <1>1, ConfigurationAssumption DEF StoreSucceeds, StoreFails, StoreSkipped, Fail, TypeOK
<1>5. /\ conn' \in [Connections -> {"out", "joining", "in", "draining", "storing", "hook"}]
      /\ connDoc' \in [Connections -> Docs \cup {NoDoc}]
      /\ \A c \in Connections : conn'[c] \notin {"out", "joining"} => connDoc'[c] \in Docs
      /\ discRun' \in [Directs -> Runs \cup {NoRun}]
      /\ promised' \in [Directs -> SUBSET Updates]
      /\ \A c \in Connections : conn'[c] = "in" =>
            conn[c] = "in" /\ connDoc'[c] = connDoc[c]
  BY <1>1 DEF ResumeDisconnect, TypeOK
<1>6. TypeOK'
  BY <1>1, <1>3, <1>4, <1>5 DEF TypeOK, DebounceInv, mapVars, docVars
<1>7. \A q \in Runs : q # r /\ runState[q] = "executing" => runState'[q] = "executing"
  BY <1>1 DEF Finish, Waiters, TypeOK, DebounceTypeOK
<1>8. \A q \in Runs : store'[q] # "none" => runState[q] = "executing" /\ q # r
  BY <1>1 DEF LifecycleInv, TypeOK, StoreIsExecution
<1> QED BY <1>1, <1>5, <1>6, <1>7, <1>8, LeaveStep DEF mapVars, docVars

LEMMA UnloadInv ==
    ASSUME LifecycleInv, DebounceInv',
           \/ \E d \in Docs : CheckUnload(d)
           \/ BeforeUnloadThrows \/ AfterUnloadResolves \/ AfterUnloadThrows
    PROVE  LifecycleInv'
<1>1. /\ TypeOK /\ UNCHANGED <<debounceVars, storeVars, connVars, docVars, documents, loading,
                              evicted>>
      /\ UNCHANGED <<runState, store, conn, connDoc, stage>>
  BY DEF LifecycleInv, CheckUnload, BeforeUnloadThrows, AfterUnloadResolves,
     AfterUnloadThrows, debounceVars, storeVars, connVars, docVars
<1>2. unloading' \in [doc : Docs, phase : {"before", "after", "stuck"}] \cup {NotUnloading}
  BY <1>1, UnloadKeepsType
  DEF CheckUnload, BeforeUnloadThrows, AfterUnloadResolves, AfterUnloadThrows, TypeOK,
      NotUnloading
<1>3. checks' \subseteq Docs /\ failures' \in 0 .. MaxFailures
  BY <1>1, ConfigurationAssumption
  DEF CheckUnload, BeforeUnloadThrows, AfterUnloadResolves, AfterUnloadThrows, TypeOK, Fail
<1>4. TypeOK'
  BY <1>1, <1>2, <1>3 DEF TypeOK, DebounceInv, storeVars, connVars, directVars, docVars
<1> QED BY <1>1, <1>4, LeaveStep DEF LifecycleInv, StoreIsExecution

\* The step that destroys a document: nobody is attached to it, and if it is not
\* the one in the map the eviction is recorded.
LEMMA BeforeUnloadResolvesInv ==
    ASSUME LifecycleInv, DebounceInv', BeforeUnloadResolves
    PROVE  LifecycleInv'
<1>1. /\ TypeOK /\ unloading.doc \in Docs
      /\ UNCHANGED <<debounceVars, storeVars, connVars, loading, content, checks, failures>>
      /\ UNCHANGED <<runState, store, conn, connDoc>>
  BY DEF LifecycleInv, BeforeUnloadResolves, TypeOK, NotUnloading, debounceVars, storeVars,
     connVars
<1>2. CASE unloading' = NotUnloading /\ UNCHANGED <<documents, evicted, stage>>
  <2>1. TypeOK'
    BY <1>1, <1>2 DEF TypeOK, DebounceInv, storeVars, connVars, directVars
  <2> QED BY <1>1, <1>2, <2>1, LeaveStep DEF LifecycleInv, StoreIsExecution
<1>3. CASE /\ ShouldUnloadDocument(unloading.doc)
           /\ documents' = NoDoc
           /\ evicted' = (evicted \/ documents \notin {unloading.doc, NoDoc})
           /\ stage' = [stage EXCEPT ![unloading.doc] = "destroyed"]
           /\ unloading' = [doc |-> unloading.doc, phase |-> "after"]
  <2>1. TypeOK'
    BY <1>1, <1>3 DEF TypeOK, DebounceInv, storeVars, connVars, directVars
  <2>2. StoreIsExecution' /\ MapIsSound'
    BY <1>1, <1>3 DEF LifecycleInv, StoreIsExecution, MapIsSound
  <2>3. \A c \in Connections : conn[c] = "in" => connDoc[c] # unloading.doc
    BY <1>3 DEF ShouldUnloadDocument, HasConnections
  <2>4. AttachedIsReady'
    BY <1>1, <1>3, <2>3 DEF LifecycleInv, TypeOK, AttachedIsReady
  <2>5. ASSUME ~evicted', NEW c \in Connections, conn'[c] = "in" PROVE FALSE
    <3>1. ~evicted /\ documents \in {unloading.doc, NoDoc}
      BY <1>3, <2>5
    <3>2. conn[c] = "in" /\ connDoc[c] \in Docs /\ documents = connDoc[c]
      BY <1>1, <2>5, <3>1
      DEF LifecycleInv, TypeOK, AttachedIsMappedUntilEviction, AttachedIsMapped
    <3> QED BY <2>3, <3>1, <3>2, NullAssumption
  <2>6. AttachedIsMappedUntilEviction'
    BY <2>5 DEF AttachedIsMappedUntilEviction, AttachedIsMapped
  <2> QED BY <2>1, <2>2, <2>4, <2>6 DEF LifecycleInv
<1> QED BY <1>2, <1>3 DEF BeforeUnloadResolves

\* Every step of CollabApi preserves the inductive invariant.
LEMMA LifecycleNextInv == LifecycleInv /\ [Next]_vars => LifecycleInv'
<1> SUFFICES ASSUME LifecycleInv, [Next]_vars PROVE LifecycleInv'
  OBVIOUS
<1>1. DebounceInv'
  BY NextIsDebounceStep, DebounceNextInv DEF LifecycleInv
<1>2. CASE UNCHANGED vars
  <2>1. TypeOK'
    BY <1>1, <1>2 DEF LifecycleInv, TypeOK, DebounceInv, vars, storeVars, connVars,
       directVars, mapVars, docVars
  <2> QED BY <1>1, <1>2, <2>1, LeaveStep
      DEF LifecycleInv, StoreIsExecution, vars, debounceVars, storeVars, connVars, mapVars,
          docVars
<1>3. CASE Next
  <2>1. ASSUME NEW c \in Connections,
               CreateDocument(c) \/ Disconnected(c) \/ \E u \in Updates : Edit(c, u)
        PROVE  LifecycleInv'
    BY <1>1, <2>1, CreateDocumentInv, DisconnectedInv, EditInv
  <2>2. ASSUME NEW d \in Docs,
               FetchDocument(d) \/ DocumentLoaded(d) \/ LoadFails(d) \/ CheckUnload(d)
        PROVE  LifecycleInv'
    BY <1>1, <2>2, LoadInv, UnloadInv
  <2>3. ASSUME NEW r \in Runs,
               StartStore(r) \/ WriteStore(r) \/ StoreSucceeds(r) \/ StoreFails(r)
               \/ StoreSkipped(r)
        PROVE  LifecycleInv'
    BY <1>1, <2>3, StartStoreInv, SettleStoreInv
  <2> QED BY <1>1, <1>3, <2>1, <2>2, <2>3, CloseInv, DisconnectDirectInv, TimersInv,
             UnloadInv, BeforeUnloadResolvesInv DEF Next
<1> QED BY <1>2, <1>3

-----------------------------------------------------------------------------
\* The inductive invariant holds in every state of every behaviour.
LEMMA LifecycleInvariant == Spec => []LifecycleInv
<1> QED BY LifecycleInitInv, LifecycleNextInv, PTL DEF Spec

\* Every variable of CollabApi and of the debouncer keeps its type; in
\* particular a connection that holds a document holds an actual object.
THEOREM LifecycleTypeOK == Spec => []TypeOK
<1>1. LifecycleInv => TypeOK
  BY DEF LifecycleInv
<1> QED BY <1>1, LifecycleInvariant, PTL

\* CollabApi.ts uses util/debounce.ts only through its operations: a behaviour
\* of the whole is a behaviour of the debouncer, whatever loads and unloads.
THEOREM LifecycleImplementsDebounce == Spec => DebounceSpec
<1>1. Init => DebounceInit
  BY DEF Init
<1>2. LifecycleInv /\ [Next]_vars => [DebounceNext]_debounceVars
  BY NextIsDebounceStep DEF LifecycleInv
<1> QED BY <1>1, <1>2, LifecycleInvariant, PTL DEF Spec, DebounceSpec

\* A connection is never attached to a document that is destroyed or still
\* loading (CollabApi.ts:577 checks again after the beforeUnloadDocument hook).
THEOREM LifecycleAttachedIsReady == Spec => []AttachedIsReady
<1>1. LifecycleInv => AttachedIsReady
  BY DEF LifecycleInv
<1> QED BY <1>1, LifecycleInvariant, PTL

\* An unload of another object of the same name (CollabApi.ts:559, 579) is the
\* only way in which a connection's document can cease to be the one in the map.
THEOREM LifecycleAttachedIsMapped == Spec => []AttachedIsMappedUntilEviction
<1>1. LifecycleInv => AttachedIsMappedUntilEviction
  BY DEF LifecycleInv
<1> QED BY <1>1, LifecycleInvariant, PTL

\* In CollabApi no store waits for an execution that is over, and none is left
\* in runningExecutions (debounce.ts:25-38).
THEOREM LifecycleLosesNoWakeup == Spec => []NoLostWakeup
BY LifecycleImplementsDebounce, DebounceLosesNoWakeup, PTL

\* In CollabApi an entry of timers whose timeout is not armed belongs to a store
\* that will delete it (debounce.ts:30), so isDebounced is not true for ever.
THEOREM LifecycleDeletesDeadEntries == Spec => []DeadEntryIsDeleted
BY LifecycleImplementsDebounce, DebounceDeletesDeadEntries, PTL

-----------------------------------------------------------------------------
(* The stores of a document. *)

\* The entry of timers is one of the object in the map.
TimerIsMapped == IsDebounced => timer.func = documents

\* A connection that has not let go of a document that is alive has the one in
\* the map.
HeldIsMapped ==
    \A c \in Connections :
        conn[c] \notin {"out", "joining"} /\ stage[connDoc[c]] = "ready" =>
            connDoc[c] = documents

\* No timeout without an entry, and no invocation of run(), belongs to d.
NoStores(d) == orphans[d] = 0 /\ \A r \in Runs : runFunc[r] # d

LoadingIsUnused ==
    \A d \in Docs : stage[d] = "loading" =>
        NoStores(d) /\ \A c \in Connections : connDoc[c] # d

UnmappedIsSaved ==
    \A d \in Docs : stage[d] = "ready" /\ d # documents =>
        NoStores(d) /\ content[d] = saved[d]

\* A store of d that has not read the content yet.
StoreIsLater(d) ==
    \/ timer.func = d \/ orphans[d] > 0
    \/ \E r \in Runs : runFunc[r] = d /\ runState[r] # "idle" /\ store[r] = "none"

\* A store writes the current content, or a later one will.
CaptureIsCurrent ==
    \A r \in Runs : store[r] = "storing" /\ stage[runFunc[r]] = "ready" =>
        captured[r] = content[runFunc[r]] \/ StoreIsLater(runFunc[r])

\* The invocation that will delete a dead entry stores the same object.
DeadEntryIsStored ==
    IsDebounced /\ ~timer.armed =>
        \E r \in Runs : runState[r] = "waiting" /\ runFunc[r] = timer.func

\* As long as no entry has been lost, stores are those of the object in the map.
StoresAreMapped ==
    ~entryLost => /\ \A d \in Docs : orphans[d] = 0
                  /\ \A r \in Runs : runState[r] # "idle" => runFunc[r] = documents

\* What holds until an eviction, and implies UnsavedIsScheduled.
ScheduleInv ==
    /\ TimerIsMapped
    /\ HeldIsMapped
    /\ LoadingIsUnused
    /\ UnmappedIsSaved
    /\ CaptureIsCurrent
    /\ DeadEntryIsStored
    /\ StoresAreMapped
    /\ \A d \in Docs : stage[d] = "ready" /\ content[d] # saved[d] /\ d \notin failed =>
           StoreIsComing(d)

\* The inductive invariant.
StoreInv == LifecycleInv /\ (~evicted => ScheduleInv)

-----------------------------------------------------------------------------
(* What the debouncer's operations do to the stores that are to come.      *)

\* What every call of the debouncer preserves.
SchedulerStep ==
    /\ TimerIsMapped' /\ DeadEntryIsStored' /\ StoresAreMapped'
    /\ \A d \in Docs : StoreIsLater(d) => StoreIsLater(d)'
    /\ \A d \in Docs : NoStores(d) /\ d # documents => NoStores(d)'

\* An invocation of run() is idle only with no hooks in progress, and an entry
\* belongs to an actual object.
LEMMA SchedulerFacts ==
    ASSUME LifecycleInv
    PROVE  /\ DebounceTypeOK /\ TypeOK
           /\ \A r \in Runs : runState[r] \in {"idle", "waiting"} => store[r] = "none"
           /\ IsDebounced => timer.func \in Docs
           /\ ~IsDebounced => timer.func = NoDoc /\ ~timer.armed
           /\ \A r \in Runs : runState[r] # "idle" => runFunc[r] \in Docs
BY NullAssumption DEF LifecycleInv, TypeOK, DebounceTypeOK, StoreIsExecution, IsDebounced, NoTimer

\* A new invocation for the object in the map, after its timeout was cleared.
LEMMA RunForMapped ==
    ASSUME LifecycleInv, ScheduleInv, documents \in Docs, NEW r \in Runs,
           Run(r, documents, Cleared(timer), orphans), store' = store, documents' = documents
    PROVE  SchedulerStep
<1>1. /\ runState[r] = "idle" /\ store[r] = "none" /\ DebounceTypeOK
      /\ runFunc' = [runFunc EXCEPT ![r] = documents]
      /\ \A q \in Runs : q # r /\ runState[q] # "idle" => runState'[q] # "idle"
      /\ runState'[r] # "idle" /\ runFunc'[r] = documents
      /\ \A d \in Docs : timer.func = d => d = documents
  BY SchedulerFacts, NullAssumption DEF Run, DebounceTypeOK, ScheduleInv, TimerIsMapped
<1>2. StoreIsLater(documents)'
  BY <1>1 DEF StoreIsLater
<1>3. ASSUME NEW d \in Docs, d # documents, StoreIsLater(d) PROVE StoreIsLater(d)'
  <2>1. CASE orphans[d] > 0
    <3>1. orphans'[d] = orphans[d]
      BY <1>1, <1>3 DEF Run, DeleteTimer, Cleared, DebounceTypeOK
    <3> QED BY <2>1, <3>1 DEF StoreIsLater
  <2>2. CASE \E q \in Runs : runFunc[q] = d /\ runState[q] # "idle" /\ store[q] = "none"
    BY <1>1, <2>2 DEF StoreIsLater, DebounceTypeOK
  <2> QED BY <1>1, <1>3, <2>1, <2>2 DEF StoreIsLater
<1>4. CASE IsCurrentlyExecuting
  <2>1. runState'[r] = "waiting" /\ timer' = Cleared(timer) /\ orphans' = orphans
        /\ entryLost' = entryLost /\ runState' = [runState EXCEPT ![r] = "waiting"]
    BY <1>1, <1>4 DEF Run, DebounceTypeOK
  <2>2. TimerIsMapped' /\ DeadEntryIsStored'
    BY <1>1, <2>1, SchedulerFacts
    DEF TimerIsMapped, DeadEntryIsStored, ScheduleInv, Cleared, IsDebounced, NoTimer
  <2>3. StoresAreMapped'
    BY <1>1, <2>1 DEF StoresAreMapped, ScheduleInv, DebounceTypeOK
  <2>4. \A d \in Docs : NoStores(d) /\ d # documents => NoStores(d)'
    BY <1>1, <2>1 DEF NoStores, DebounceTypeOK
  <2> QED BY <1>2, <1>3, <2>2, <2>3, <2>4 DEF SchedulerStep
<1>5. CASE ~IsCurrentlyExecuting
  <2>1. timer' = NoTimer /\ orphans' = orphans /\ entryLost' = entryLost
        /\ runState' = [runState EXCEPT ![r] = "executing"]
    BY <1>1, <1>5 DEF Run, DeleteTimer, Cleared, DebounceTypeOK
  <2>2. TimerIsMapped' /\ DeadEntryIsStored'
    BY <2>1 DEF TimerIsMapped, DeadEntryIsStored, IsDebounced
  <2>3. StoresAreMapped'
    BY <1>1, <2>1 DEF StoresAreMapped, ScheduleInv, DebounceTypeOK
  <2>4. \A d \in Docs : NoStores(d) /\ d # documents => NoStores(d)'
    BY <1>1, <2>1 DEF NoStores, DebounceTypeOK
  <2> QED BY <1>2, <1>3, <2>2, <2>3, <2>4 DEF SchedulerStep
<1> QED BY <1>4, <1>5

\* An orphan that fires becomes a store of the same object.  If it deletes an
\* entry, that becomes an orphan, or one of the waiting stores stands for it.
LEMMA OrphanKeepsSchedule ==
    ASSUME LifecycleInv, ScheduleInv, NEW r \in Runs, NEW f \in Docs, OrphanFires(r, f),
           store' = store, documents' = documents
    PROVE  SchedulerStep
<1>1. /\ runState[r] = "idle" /\ store[r] = "none" /\ DebounceTypeOK
      /\ orphans[f] > 0 /\ runFunc' = [runFunc EXCEPT ![r] = f]
      /\ \A q \in Runs : q # r /\ runState[q] # "idle" => runState'[q] # "idle"
      /\ \A q \in Runs : runState[q] = "waiting" => q # r /\ runState'[q] = "waiting"
      /\ runState'[r] # "idle" /\ runFunc'[r] = f
  BY SchedulerFacts DEF OrphanFires, Run, DebounceTypeOK
<1>2. \A d \in Docs : d # f /\ orphans[d] > 0 => orphans'[d] > 0
  BY <1>1 DEF OrphanFires, Run, DeleteTimer, DebounceTypeOK, NoTimer
<1>3. ASSUME NEW d \in Docs, timer.func = d
      PROVE  timer'.func = d \/ orphans'[d] > 0
             \/ (DeadEntryIsStored /\ IsDebounced /\ ~timer.armed)
  <2>1. CASE timer' = timer
    BY <1>3, <2>1
  <2>2. CASE DeleteTimer(timer, [orphans EXCEPT ![f] = @ - 1]) /\ timer.armed
    <3>1. orphans' = [[orphans EXCEPT ![f] = @ - 1] EXCEPT ![d] = @ + 1]
      BY <1>3, <2>2 DEF DeleteTimer
    <3> QED BY <1>1, <3>1 DEF DebounceTypeOK
  <2>3. CASE ~timer.armed
    BY <1>3, <2>3, NullAssumption DEF ScheduleInv, IsDebounced, NoTimer
  <2>4. timer' = timer \/ DeleteTimer(timer, [orphans EXCEPT ![f] = @ - 1])
    BY DEF OrphanFires, Run
  <2> QED BY <2>1, <2>2, <2>3, <2>4
<1>4. ASSUME NEW d \in Docs, StoreIsLater(d) PROVE StoreIsLater(d)'
  <2>1. CASE d = f
    BY <1>1, <2>1 DEF StoreIsLater
  <2>2. CASE d # f /\ orphans[d] > 0
    BY <1>2, <2>2 DEF StoreIsLater
  <2>3. CASE \E q \in Runs : runFunc[q] = d /\ runState[q] # "idle" /\ store[q] = "none"
    BY <1>1, <2>3 DEF StoreIsLater, DebounceTypeOK
  <2>4. CASE timer.func = d
    <3>1. CASE timer'.func = d \/ orphans'[d] > 0
      BY <3>1 DEF StoreIsLater
    <3>2. CASE DeadEntryIsStored /\ IsDebounced /\ ~timer.armed
      <4>1. PICK q \in Runs : runState[q] = "waiting" /\ runFunc[q] = d
        BY <2>4, <3>2 DEF DeadEntryIsStored
      <4>2. store[q] = "none" /\ runState'[q] = "waiting" /\ runFunc'[q] = d
        BY <1>1, <4>1, SchedulerFacts DEF DebounceTypeOK
      <4> QED BY <4>2 DEF StoreIsLater
    <3> QED BY <1>3, <2>4, <3>1, <3>2
  <2> QED BY <1>4, <2>1, <2>2, <2>3, <2>4 DEF StoreIsLater
<1>5. timer' = timer \/ timer' = NoTimer
  BY DEF OrphanFires, Run, DeleteTimer
<1>6. TimerIsMapped' /\ DeadEntryIsStored'
  BY <1>1, <1>5 DEF TimerIsMapped, DeadEntryIsStored, ScheduleInv, IsDebounced, DebounceTypeOK
<1>7. StoresAreMapped'
  <2>1. entryLost
    BY <1>1 DEF StoresAreMapped, ScheduleInv
  <2>2. entryLost'
    BY <1>1, <2>1 DEF OrphanFires, Run, DeleteTimer
  <2> QED BY <2>2 DEF StoresAreMapped
<1>8. ASSUME NEW d \in Docs, NoStores(d), d # documents PROVE NoStores(d)'
  <2>1. d # f
    BY <1>1, <1>8 DEF NoStores
  <2>2. timer.func # d
    BY <1>8, SchedulerFacts, NullAssumption DEF ScheduleInv, TimerIsMapped
  <2>3. orphans'[d] = 0
    BY <1>1, <1>8, <2>1, <2>2 DEF OrphanFires, Run, DeleteTimer, DebounceTypeOK, NoStores, NoTimer
  <2> QED BY <1>1, <1>8, <2>1, <2>3 DEF NoStores, DebounceTypeOK
<1> QED BY <1>4, <1>6, <1>7, <1>8 DEF SchedulerStep

LEMMA DebounceLaterKeepsSchedule ==
    ASSUME LifecycleInv, ScheduleInv, documents \in Docs, DebounceLater(documents),
           store' = store, documents' = documents
    PROVE  SchedulerStep
<1>1. \A d \in Docs : timer.func = d => d = documents
  BY SchedulerFacts, NullAssumption DEF ScheduleInv, TimerIsMapped
<1>2. TimerIsMapped' /\ DeadEntryIsStored' /\ StoresAreMapped'
  BY DEF DebounceLater, TimerIsMapped, DeadEntryIsStored, StoresAreMapped, ScheduleInv
<1>3. \A d \in Docs : StoreIsLater(d) => StoreIsLater(d)'
  BY <1>1 DEF DebounceLater, StoreIsLater
<1>4. \A d \in Docs : NoStores(d) => NoStores(d)'
  BY DEF DebounceLater, NoStores
<1> QED BY <1>2, <1>3, <1>4 DEF SchedulerStep

\* executeNow, and the timeout of the entry.
LEMMA EntryKeepsSchedule ==
    ASSUME LifecycleInv, ScheduleInv, NEW r \in Runs, ExecuteNow(r) \/ TimerFires(r),
           store' = store, documents' = documents
    PROVE  SchedulerStep
<1>1. IsDebounced /\ Run(r, timer.func, Cleared(timer), orphans)
  BY DEF ExecuteNow, TimerFires, IsDebounced, NoTimer
<1>2. timer.func = documents /\ documents \in Docs
  BY <1>1, SchedulerFacts DEF ScheduleInv, TimerIsMapped
<1> QED BY <1>1, <1>2, RunForMapped

LEMMA UnchangedKeepsSchedule ==
    ASSUME ScheduleInv, UNCHANGED debounceVars, store' = store, documents' = documents
    PROVE  SchedulerStep
BY DEF ScheduleInv, SchedulerStep, TimerIsMapped, DeadEntryIsStored, StoresAreMapped,
   StoreIsLater, NoStores, debounceVars, IsDebounced

\* The end of an execution, whatever its hooks did.
LEMMA FinishKeepsSchedule ==
    ASSUME LifecycleInv, ScheduleInv, NEW r \in Runs, Finish(r), store[r] # "none",
           store' = [store EXCEPT ![r] = "none"], documents' = documents
    PROVE  SchedulerStep
<1>1. /\ TypeOK /\ DebounceTypeOK /\ runState[r] = "executing"
      /\ runFunc' = [runFunc EXCEPT ![r] = NoDoc]
      /\ \A q \in Runs : q # r /\ runState[q] # "idle" => runState'[q] # "idle"
      /\ \A q \in Runs : runState'[q] # "idle" => q # r /\ runState[q] # "idle"
      /\ \A q \in Runs : store[q] = "none" => q # r /\ store'[q] = "none"
  BY SchedulerFacts DEF Finish, Waiters, TypeOK, DebounceTypeOK
<1>2. ASSUME NEW d \in Docs,
             \E q \in Runs : runFunc[q] = d /\ runState[q] # "idle" /\ store[q] = "none"
      PROVE  StoreIsLater(d)'
  BY <1>1, <1>2 DEF StoreIsLater, DebounceTypeOK
<1>3. CASE Waiters(r) = {} /\ UNCHANGED <<timer, orphans, entryLost>>
  <2>1. \A q \in Runs : runState[q] = "waiting" => q # r /\ runState'[q] = "waiting"
    BY <1>1, <1>3 DEF Finish, DebounceTypeOK
  <2>2. TimerIsMapped' /\ DeadEntryIsStored'
    BY <1>1, <1>3, <2>1
    DEF TimerIsMapped, DeadEntryIsStored, ScheduleInv, IsDebounced, DebounceTypeOK
  <2>3. StoresAreMapped'
    BY <1>1, <1>3 DEF StoresAreMapped, ScheduleInv, DebounceTypeOK
  <2>4. \A d \in Docs : StoreIsLater(d) => StoreIsLater(d)'
    BY <1>2, <1>3 DEF StoreIsLater
  <2>5. \A d \in Docs : NoStores(d) => NoStores(d)'
    BY <1>1, <1>3, NullAssumption DEF NoStores, DebounceTypeOK
  <2> QED BY <2>2, <2>3, <2>4, <2>5 DEF SchedulerStep
<1>4. CASE DeleteTimer(timer, orphans)
  <2>1. TimerIsMapped' /\ DeadEntryIsStored'
    BY <1>4 DEF TimerIsMapped, DeadEntryIsStored, IsDebounced, DeleteTimer
  <2>2. StoresAreMapped'
    BY <1>1, <1>4 DEF StoresAreMapped, ScheduleInv, DeleteTimer, DebounceTypeOK
  <2>3. ASSUME NEW d \in Docs, StoreIsLater(d) PROVE StoreIsLater(d)'
    <3>1. CASE orphans[d] > 0
      <4>1. orphans'[d] > 0
        BY <1>1, <1>4, <3>1 DEF DeleteTimer, DebounceTypeOK, NoTimer
      <4> QED BY <4>1 DEF StoreIsLater
    <3>2. CASE timer.func = d /\ timer.armed
      <4>1. orphans'[d] > 0
        BY <1>1, <1>4, <3>2 DEF DeleteTimer, DebounceTypeOK
      <4> QED BY <4>1 DEF StoreIsLater
    <3>3. CASE timer.func = d /\ ~timer.armed
      <4>1. IsDebounced
        BY <3>3, NullAssumption DEF IsDebounced, NoTimer
      <4>2. PICK q \in Runs : runState[q] = "waiting" /\ runFunc[q] = d
        BY <3>3, <4>1 DEF ScheduleInv, DeadEntryIsStored
      <4> QED BY <1>2, <4>2, SchedulerFacts
    <3> QED BY <1>2, <2>3, <3>1, <3>2, <3>3 DEF StoreIsLater
  <2>4. ASSUME NEW d \in Docs, NoStores(d), d # documents PROVE NoStores(d)'
    <3>1. timer.func # d
      BY <2>4, SchedulerFacts, NullAssumption DEF ScheduleInv, TimerIsMapped
    <3>2. orphans'[d] = 0
      BY <1>1, <1>4, <2>4, <3>1 DEF DeleteTimer, DebounceTypeOK, NoStores, NoTimer
    <3> QED BY <1>1, <2>4, <3>2, NullAssumption DEF NoStores, DebounceTypeOK
  <2> QED BY <2>1, <2>2, <2>3, <2>4 DEF SchedulerStep
<1> QED BY <1>3, <1>4 DEF Finish

-----------------------------------------------------------------------------
(* The inductive step.                                                     *)

\* The actions that read nothing for a store and write nothing to the database:
\* they call the debouncer, change the content of the object in the map with a
\* store scheduled, let connections go, or end a store.
LEMMA ScheduleStep ==
    ASSUME StoreInv, LifecycleInv', ~evicted, SchedulerStep,
           UNCHANGED <<saved, stage, documents>>,
           failed \subseteq failed',
           \A r \in Runs : store'[r] = "storing" =>
               store[r] = "storing" /\ runFunc'[r] = runFunc[r] /\ captured'[r] = captured[r],
           \A r \in Runs : store[r] = "storing" =>
               runFunc[r] \in failed' \/ (store'[r] = "storing" /\ runFunc'[r] = runFunc[r]),
           \A d \in Docs : stage[d] = "ready" /\ content'[d] # content[d] =>
               d = documents /\ StoreIsLater(d)',
           \A c \in Connections : conn'[c] \notin {"out", "joining"} =>
               conn[c] \notin {"out", "joining"} /\ connDoc'[c] = connDoc[c],
           \A c \in Connections : connDoc'[c] \in {connDoc[c], NoDoc}
    PROVE  ScheduleInv'
<1>1. LifecycleInv /\ ScheduleInv /\ TypeOK
  BY DEF StoreInv, LifecycleInv
<1>2. TimerIsMapped' /\ DeadEntryIsStored' /\ StoresAreMapped'
  BY DEF SchedulerStep
<1>3. HeldIsMapped'
  BY <1>1 DEF ScheduleInv, HeldIsMapped
<1>4. LoadingIsUnused'
  <2>1. \A d \in Docs : stage[d] = "loading" => d # documents
    BY <1>1, NullAssumption DEF LifecycleInv, MapIsSound
  <2> QED BY <1>1, <2>1, NullAssumption DEF ScheduleInv, LoadingIsUnused, SchedulerStep
<1>5. UnmappedIsSaved'
  BY <1>1 DEF ScheduleInv, UnmappedIsSaved, SchedulerStep
<1>6. CaptureIsCurrent'
  <2> SUFFICES ASSUME NEW r \in Runs, store'[r] = "storing", stage[runFunc[r]] = "ready"
               PROVE  captured[r] = content'[runFunc[r]] \/ StoreIsLater(runFunc[r])'
    BY DEF CaptureIsCurrent
  <2>1. runFunc[r] \in Docs
    BY <1>1, SchedulerFacts DEF LifecycleInv, StoreIsExecution
  <2> QED BY <1>1, <2>1 DEF ScheduleInv, CaptureIsCurrent, SchedulerStep
<1>7. ASSUME NEW d \in Docs, stage'[d] = "ready", content'[d] # saved'[d], d \notin failed'
      PROVE  StoreIsComing(d)'
  <2>1. CASE StoreIsLater(d)'
    BY <2>1 DEF StoreIsLater, StoreIsComing
  <2>2. CASE content'[d] = content[d] /\ ~StoreIsLater(d)
    <3>1. StoreIsComing(d)
      BY <1>1, <1>7, <2>2 DEF ScheduleInv
    <3>2. PICK r \in Runs : runFunc[r] = d /\ store[r] = "storing" /\ captured[r] = content[d]
      BY <2>2, <3>1 DEF StoreIsLater, StoreIsComing
    <3> QED BY <1>7, <2>2, <3>2 DEF StoreIsComing
  <2> QED BY <1>7, <2>1, <2>2 DEF SchedulerStep
<1> QED BY <1>2, <1>3, <1>4, <1>5, <1>6, <1>7 DEF ScheduleInv


\* For the actions that leave the debouncer, the stores and the documents alone,
\* and in which connections at most let go.
LEMMA LeaveKeepsSchedule ==
    ASSUME StoreInv, LifecycleInv', ~evicted,
           UNCHANGED <<debounceVars, storeVars, docVars, documents>>,
           \A c \in Connections : conn'[c] \notin {"out", "joining"} =>
               conn[c] \notin {"out", "joining"} /\ connDoc'[c] = connDoc[c],
           \A c \in Connections : connDoc'[c] \in {connDoc[c], NoDoc}
    PROVE  ScheduleInv'
<1>1. SchedulerStep
  BY UnchangedKeepsSchedule DEF StoreInv, storeVars
<1> QED BY <1>1, ScheduleStep DEF storeVars, docVars, debounceVars

LEMMA CreateDocumentSchedule ==
    ASSUME StoreInv, LifecycleInv', ~evicted, NEW c \in Connections, CreateDocument(c)
    PROVE  ScheduleInv'
<1>1. /\ LifecycleInv /\ ScheduleInv /\ TypeOK
      /\ UNCHANGED <<debounceVars, documents, store, captured>>
      /\ UNCHANGED <<timer, orphans, runState, runFunc, entryLost>>
  BY DEF StoreInv, LifecycleInv, CreateDocument, debounceVars
<1>2. CASE loading # NoDoc /\ conn' = [conn EXCEPT ![c] = "joining"]
           /\ UNCHANGED <<connDoc, loading, docVars, saved, failed>>
  <2>1. UNCHANGED storeVars
    BY <1>2 DEF CreateDocument, storeVars
  <2> QED BY <1>1, <1>2, <2>1, LeaveKeepsSchedule DEF TypeOK
<1>3. CASE documents # NoDoc /\ conn' = [conn EXCEPT ![c] = "in"]
           /\ connDoc' = [connDoc EXCEPT ![c] = documents]
           /\ UNCHANGED <<loading, docVars, saved, failed>>
  <2>1. stage[documents] = "ready"
    BY <1>1, <1>3 DEF LifecycleInv, MapIsSound
  <2>2. HeldIsMapped' /\ LoadingIsUnused'
    BY <1>1, <1>3, <2>1
    DEF ScheduleInv, HeldIsMapped, LoadingIsUnused, NoStores, TypeOK, docVars
  <2>3. ScheduleInv'
    BY <1>1, <1>3, <2>2
    DEF ScheduleInv, TimerIsMapped, UnmappedIsSaved, CaptureIsCurrent, DeadEntryIsStored,
        StoresAreMapped, StoreIsComing, StoreIsLater, NoStores, docVars, IsDebounced
  <2> QED BY <2>3
<1>4. ASSUME NEW d \in Docs, documents = NoDoc, LoadDocument(d),
             conn' = [conn EXCEPT ![c] = "joining"], UNCHANGED connDoc
      PROVE  ScheduleInv'
  <2>1. /\ orphans[d] = 0 /\ timer.func # d
        /\ \A x \in Connections : connDoc[x] # d
        /\ \A r \in Runs : runFunc[r] # d
        /\ stage' = [stage EXCEPT ![d] = "loading"]
        /\ content' = [content EXCEPT ![d] = {}]
        /\ saved' = [saved EXCEPT ![d] = {}] /\ failed' = failed \ {d}
    BY <1>4 DEF LoadDocument, Unreferenced
  <2>2. HeldIsMapped' /\ LoadingIsUnused' /\ UnmappedIsSaved'
    BY <1>1, <1>4, <2>1
    DEF ScheduleInv, HeldIsMapped, LoadingIsUnused, UnmappedIsSaved, NoStores, TypeOK
  <2>3. CaptureIsCurrent'
    BY <1>1, <2>1, SchedulerFacts
    DEF ScheduleInv, CaptureIsCurrent, StoreIsLater, TypeOK, LifecycleInv, StoreIsExecution
  <2>4. ASSUME NEW e \in Docs, stage'[e] = "ready", content'[e] # saved'[e], e \notin failed'
        PROVE  StoreIsComing(e)'
    <3>1. e # d
      BY <1>1, <2>1, <2>4 DEF TypeOK
    <3>2. StoreIsComing(e)
      BY <1>1, <2>1, <2>4, <3>1 DEF ScheduleInv, TypeOK
    <3> QED BY <1>1, <2>1, <3>1, <3>2 DEF StoreIsComing, TypeOK
  <2>5. TimerIsMapped' /\ DeadEntryIsStored' /\ StoresAreMapped'
    BY <1>1 DEF ScheduleInv, TimerIsMapped, DeadEntryIsStored, StoresAreMapped, IsDebounced
  <2> QED BY <2>2, <2>3, <2>4, <2>5 DEF ScheduleInv
<1> QED BY <1>2, <1>3, <1>4 DEF CreateDocument

LEMMA FetchDocumentSchedule ==
    ASSUME StoreInv, LifecycleInv', ~evicted, NEW d \in Docs, FetchDocument(d)
    PROVE  ScheduleInv'
<1>1. /\ LifecycleInv /\ ScheduleInv /\ TypeOK
      /\ UNCHANGED <<timer, orphans, runState, runFunc, entryLost, documents, conn, connDoc,
                    store, captured, failed>>
      /\ stage[d] = "loading" /\ stage' = [stage EXCEPT ![d] = "ready"]
      /\ content' = [content EXCEPT ![d] = db] /\ saved' = [saved EXCEPT ![d] = db]
  BY DEF StoreInv, LifecycleInv, FetchDocument, debounceVars, mapVars, connVars
<1>2. NoStores(d) /\ \A c \in Connections : connDoc[c] # d
  BY <1>1 DEF ScheduleInv, LoadingIsUnused
<1>3. HeldIsMapped' /\ LoadingIsUnused' /\ UnmappedIsSaved'
  BY <1>1, <1>2
  DEF ScheduleInv, HeldIsMapped, LoadingIsUnused, UnmappedIsSaved, NoStores, TypeOK
<1>4. CaptureIsCurrent'
  BY <1>1, <1>2, SchedulerFacts
  DEF ScheduleInv, CaptureIsCurrent, StoreIsLater, NoStores, TypeOK, LifecycleInv,
      StoreIsExecution
<1>5. ASSUME NEW e \in Docs, stage'[e] = "ready", content'[e] # saved'[e], e \notin failed'
      PROVE  StoreIsComing(e)'
  <2>1. e # d
    BY <1>1, <1>5 DEF TypeOK
  <2>2. StoreIsComing(e)
    BY <1>1, <1>5, <2>1 DEF ScheduleInv, TypeOK
  <2> QED BY <1>1, <2>1, <2>2 DEF StoreIsComing, TypeOK
<1>6. TimerIsMapped' /\ DeadEntryIsStored' /\ StoresAreMapped'
  BY <1>1 DEF ScheduleInv, TimerIsMapped, DeadEntryIsStored, StoresAreMapped, IsDebounced
<1> QED BY <1>3, <1>4, <1>5, <1>6 DEF ScheduleInv

LEMMA DocumentLoadedSchedule ==
    ASSUME StoreInv, LifecycleInv', ~evicted, NEW d \in Docs, DocumentLoaded(d)
    PROVE  ScheduleInv'
<1>1. /\ LifecycleInv /\ ScheduleInv /\ TypeOK
      /\ UNCHANGED <<timer, orphans, runState, runFunc, entryLost, stage, content,
                    store, captured, saved, failed>>
      /\ stage[d] = "ready" /\ documents' = d
      /\ conn' = [c \in Connections |-> IF conn[c] = "joining" THEN "in" ELSE conn[c]]
      /\ connDoc' = [c \in Connections |-> IF conn[c] = "joining" THEN d ELSE connDoc[c]]
  BY DEF StoreInv, LifecycleInv, DocumentLoaded, debounceVars, docVars, storeVars
<1>2. documents = NoDoc
  BY NullAssumption DEF DocumentLoaded, StoreInv, LifecycleInv, MapIsSound
\* Until now nothing was scheduled and nobody held a document that is alive.
<1>3. ~IsDebounced /\ (~entryLost => \A r \in Runs : runState[r] = "idle")
  BY <1>1, <1>2, SchedulerFacts, NullAssumption DEF ScheduleInv, TimerIsMapped, StoresAreMapped
<1>4. \A c \in Connections : conn[c] \notin {"out", "joining"} => stage[connDoc[c]] # "ready"
  BY <1>1, <1>2, NullAssumption DEF ScheduleInv, HeldIsMapped, TypeOK
<1>5. HeldIsMapped' /\ LoadingIsUnused' /\ UnmappedIsSaved'
  BY <1>1, <1>2, <1>4, NullAssumption
  DEF ScheduleInv, HeldIsMapped, LoadingIsUnused, UnmappedIsSaved, NoStores, TypeOK
<1>6. TimerIsMapped' /\ DeadEntryIsStored' /\ StoresAreMapped'
  BY <1>1, <1>3
  DEF ScheduleInv, TimerIsMapped, DeadEntryIsStored, StoresAreMapped, IsDebounced
<1> QED BY <1>1, <1>5, <1>6 DEF ScheduleInv, CaptureIsCurrent, StoreIsLater, StoreIsComing


\* An edit of a document that is alive schedules a store of it.
LEMMA EditSchedule ==
    ASSUME StoreInv, LifecycleInv', ~evicted, NEW c \in Connections, NEW u \in Updates,
           Edit(c, u)
    PROVE  ScheduleInv'
<1> DEFINE d == connDoc[c]
<1>1. /\ LifecycleInv /\ ScheduleInv /\ TypeOK /\ d \in Docs
      /\ conn[c] \notin {"out", "joining"}
      /\ content' = [content EXCEPT ![d] = @ \cup {u}]
      /\ UNCHANGED <<store, captured, saved, failed, stage, documents, conn, connDoc>>
  BY DEF Edit, StoreInv, LifecycleInv, TypeOK, storeVars, connVars, mapVars
<1>2. CASE stage[d] = "ready" /\ Debounce(d)
  <2>1. d = documents
    BY <1>1, <1>2 DEF ScheduleInv, HeldIsMapped
  <2>2. CASE DebounceLater(d)
    <3>1. SchedulerStep
      BY <1>1, <2>1, <2>2, DebounceLaterKeepsSchedule
    <3>2. StoreIsLater(d)' /\ runFunc' = runFunc
      BY <1>1, <2>2 DEF DebounceLater, StoreIsLater
    <3> QED BY <1>1, <2>1, <3>1, <3>2, ScheduleStep DEF TypeOK
  <2>3. ASSUME NEW r \in Runs, DebounceNow(r, d) PROVE ScheduleInv'
    <3>1. SchedulerStep
      BY <1>1, <2>1, <2>3, RunForMapped DEF DebounceNow
    <3>2. /\ store[r] = "none" /\ runFunc' = [runFunc EXCEPT ![r] = d]
          /\ runState'[r] # "idle"
      BY <1>1, <2>3, SchedulerFacts DEF DebounceNow, Run, DebounceTypeOK
    <3>3. StoreIsLater(d)'
      BY <1>1, <3>2, SchedulerFacts DEF StoreIsLater, DebounceTypeOK
    <3> QED BY <1>1, <2>1, <3>1, <3>2, <3>3, SchedulerFacts, ScheduleStep
        DEF TypeOK, DebounceTypeOK
  <2> QED BY <1>2, <2>2, <2>3 DEF Debounce
<1>3. CASE stage[d] # "ready" /\ UNCHANGED debounceVars
  <2>1. SchedulerStep
    BY <1>1, <1>3, UnchangedKeepsSchedule
  <2> QED BY <1>1, <1>3, <2>1, ScheduleStep DEF TypeOK, debounceVars
<1> QED BY <1>2, <1>3 DEF Edit

\* A call of the debouncer that starts or queues an invocation of run() leaves
\* the invocations that are storing alone.
LEMMA RunKeepsStores ==
    ASSUME LifecycleInv, NEW r \in Runs, NEW f, NEW entry, NEW orph, Run(r, f, entry, orph)
    PROVE  \A q \in Runs : store[q] = "storing" => runFunc'[q] = runFunc[q]
BY SchedulerFacts DEF Run, DebounceTypeOK

LEMMA TimersSchedule ==
    ASSUME StoreInv, LifecycleInv', ~evicted,
           FlushPendingStores \/ EntryTimerFires \/ \E d \in Docs : OrphanTimerFires(d)
    PROVE  ScheduleInv'
<1>1. /\ LifecycleInv /\ ScheduleInv
      /\ UNCHANGED <<store, captured, saved, failed, stage, content, documents, conn, connDoc>>
  BY DEF FlushPendingStores, EntryTimerFires, OrphanTimerFires, StoreInv, storeVars, connVars,
     mapVars, docVars
<1>2. PICK r \in Runs : ExecuteNow(r) \/ TimerFires(r) \/ \E d \in Docs : OrphanFires(r, d)
  BY DEF FlushPendingStores, EntryTimerFires, OrphanTimerFires
<1>3. SchedulerStep
  BY <1>1, <1>2, EntryKeepsSchedule, OrphanKeepsSchedule
<1>4. \A q \in Runs : store[q] = "storing" => runFunc'[q] = runFunc[q]
  BY <1>1, <1>2, RunKeepsStores DEF ExecuteNow, TimerFires, OrphanFires
<1> QED BY <1>1, <1>3, <1>4, ScheduleStep

LEMMA DisconnectedSchedule ==
    ASSUME StoreInv, LifecycleInv', ~evicted, NEW c \in Connections, Disconnected(c)
    PROVE  ScheduleInv'
<1>1. /\ LifecycleInv /\ ScheduleInv /\ TypeOK
      /\ UNCHANGED <<store, captured, saved, failed, stage, content, documents>>
      /\ conn' = [conn EXCEPT ![c] = "out"] /\ connDoc' = [connDoc EXCEPT ![c] = NoDoc]
  BY DEF Disconnected, StoreInv, LifecycleInv, storeVars, docVars
<1>2. (\E r \in Runs : ExecuteNow(r)) \/ UNCHANGED debounceVars
  BY DEF Disconnected, OnClose
<1>3. SchedulerStep
  BY <1>1, <1>2, EntryKeepsSchedule, UnchangedKeepsSchedule
<1>4. \A q \in Runs : store[q] = "storing" => runFunc'[q] = runFunc[q]
  BY <1>1, <1>2, RunKeepsStores DEF ExecuteNow, debounceVars
<1> QED BY <1>1, <1>3, <1>4, ScheduleStep DEF TypeOK

LEMMA DisconnectDirectSchedule ==
    ASSUME StoreInv, LifecycleInv', ~evicted, NEW x \in Directs, DisconnectDirect(x)
    PROVE  ScheduleInv'
<1>1. /\ LifecycleInv /\ ScheduleInv /\ TypeOK /\ x \in Connections
      /\ UNCHANGED <<store, captured, saved, failed, stage, content, documents, connDoc>>
      /\ conn[x] = "in" /\ connDoc[x] \in Docs /\ conn' = [conn EXCEPT ![x] = "storing"]
  BY DEF DisconnectDirect, StoreInv, LifecycleInv, TypeOK, Connections, storeVars, docVars, mapVars
<1>2. connDoc[x] = documents
  BY <1>1 DEF LifecycleInv, AttachedIsReady, ScheduleInv, HeldIsMapped
<1>3. PICK r \in Runs : DebounceNow(r, documents)
  BY <1>2 DEF DisconnectDirect
<1>4. SchedulerStep
  BY <1>1, <1>2, <1>3, RunForMapped DEF DebounceNow
<1>5. \A q \in Runs : store[q] = "storing" => runFunc'[q] = runFunc[q]
  BY <1>1, <1>3, RunKeepsStores DEF DebounceNow
<1> QED BY <1>1, <1>4, <1>5, ScheduleStep DEF TypeOK

LEMMA CloseSchedule ==
    ASSUME StoreInv, LifecycleInv', ~evicted,
           \/ \E c \in Clients : CloseConnection(c) \/ CallOnDisconnect(c)
           \/ CloseConnections
    PROVE  ScheduleInv'
<1>1. TypeOK /\ UNCHANGED <<debounceVars, storeVars, docVars, documents, connDoc>>
  BY DEF StoreInv, LifecycleInv, CloseConnection, CallOnDisconnect, CloseConnections, mapVars
<1>2. \A c \in Connections : conn'[c] \notin {"out", "joining"} => conn[c] \notin {"out", "joining"}
  BY <1>1 DEF CloseConnection, CallOnDisconnect, CloseConnections, TypeOK
<1> QED BY <1>1, <1>2, LeaveKeepsSchedule

LEMMA LoadFailsSchedule ==
    ASSUME StoreInv, LifecycleInv', ~evicted, NEW d \in Docs, LoadFails(d)
    PROVE  ScheduleInv'
BY LeaveKeepsSchedule DEF LoadFails

\* The hook reads what the document contains now.
LEMMA StartStoreSchedule ==
    ASSUME StoreInv, LifecycleInv', ~evicted, NEW r \in Runs, StartStore(r)
    PROVE  ScheduleInv'
<1>1. /\ LifecycleInv /\ ScheduleInv /\ TypeOK
      /\ UNCHANGED <<timer, orphans, runState, runFunc, entryLost, saved, failed, stage, content,
                    documents, conn, connDoc>>
      /\ store' = [store EXCEPT ![r] = "storing"]
      /\ captured' = [captured EXCEPT ![r] = content[runFunc[r]]]
      /\ runState[r] = "executing"
      /\ \A q \in Runs : store[q] # "none" => runFunc[q] # runFunc[r]
  BY DEF StartStore, StoreInv, LifecycleInv, debounceVars, connVars, mapVars, docVars
<1>2. \A d \in Docs : d # runFunc[r] /\ StoreIsLater(d) => StoreIsLater(d)'
  BY <1>1 DEF StoreIsLater, TypeOK
<1>3. CaptureIsCurrent'
  BY <1>1, <1>2, SchedulerFacts
  DEF ScheduleInv, CaptureIsCurrent, TypeOK, LifecycleInv, StoreIsExecution
<1>4. ASSUME NEW d \in Docs, stage[d] = "ready", content[d] # saved[d], d \notin failed
      PROVE  StoreIsComing(d)'
  <2>1. CASE d = runFunc[r]
    BY <1>1, <2>1 DEF StoreIsComing, TypeOK
  <2>2. CASE d # runFunc[r]
    <3>1. StoreIsComing(d)
      BY <1>1, <1>4 DEF ScheduleInv
    <3> QED BY <1>1, <2>2, <3>1 DEF StoreIsComing, TypeOK
  <2> QED BY <2>1, <2>2
<1> QED
  BY <1>1, <1>3, <1>4
  DEF ScheduleInv, TimerIsMapped, HeldIsMapped, LoadingIsUnused, UnmappedIsSaved, NoStores,
      DeadEntryIsStored, StoresAreMapped, IsDebounced

\* What is written is current, or a later store will write again.
LEMMA WriteStoreSchedule ==
    ASSUME StoreInv, LifecycleInv', ~evicted, NEW r \in Runs, WriteStore(r)
    PROVE  ScheduleInv'
<1>1. /\ LifecycleInv /\ ScheduleInv /\ TypeOK
      /\ UNCHANGED <<timer, orphans, runState, runFunc, entryLost, captured, stage, content,
                    documents, conn, connDoc>>
      /\ store[r] = "storing" /\ store' = [store EXCEPT ![r] = "written"]
      /\ saved' = [saved EXCEPT ![runFunc[r]] = captured[r]]
      /\ failed' = failed \ {runFunc[r]} /\ runFunc[r] \in Docs
  BY SchedulerFacts
  DEF WriteStore, StoreInv, LifecycleInv, StoreIsExecution, debounceVars, connVars, mapVars, docVars
<1>2. \A d \in Docs : StoreIsLater(d) => StoreIsLater(d)'
  BY <1>1 DEF StoreIsLater, TypeOK
<1>3. CaptureIsCurrent'
  BY <1>1, <1>2, SchedulerFacts
  DEF ScheduleInv, CaptureIsCurrent, TypeOK, LifecycleInv, StoreIsExecution
<1>4. UnmappedIsSaved'
  BY <1>1 DEF ScheduleInv, UnmappedIsSaved, NoStores, TypeOK
<1>5. ASSUME NEW d \in Docs, stage[d] = "ready", content[d] # saved'[d], d \notin failed'
      PROVE  StoreIsComing(d)'
  <2>1. CASE d = runFunc[r]
    <3>1. StoreIsLater(d)
      BY <1>1, <1>5, <2>1 DEF ScheduleInv, CaptureIsCurrent, TypeOK
    <3> QED BY <1>2, <3>1 DEF StoreIsLater, StoreIsComing
  <2>2. CASE d # runFunc[r]
    <3>1. StoreIsComing(d)
      BY <1>1, <1>5, <2>2 DEF ScheduleInv, TypeOK
    <3> QED BY <1>1, <2>2, <3>1 DEF StoreIsComing, TypeOK
  <2> QED BY <2>1, <2>2
<1> QED
  BY <1>1, <1>3, <1>4, <1>5
  DEF ScheduleInv, TimerIsMapped, HeldIsMapped, LoadingIsUnused, NoStores,
      DeadEntryIsStored, StoresAreMapped, IsDebounced

LEMMA SettleSchedule ==
    ASSUME StoreInv, LifecycleInv', ~evicted, NEW r \in Runs,
           StoreSucceeds(r) \/ StoreFails(r) \/ StoreSkipped(r)
    PROVE  ScheduleInv'
<1>1. /\ LifecycleInv /\ ScheduleInv /\ TypeOK /\ Finish(r) /\ ResumeDisconnect(r)
      /\ store[r] # "none" /\ store' = [store EXCEPT ![r] = "none"]
      /\ captured' = [captured EXCEPT ![r] = {}]
      /\ UNCHANGED <<saved, stage, content, documents>>
  BY DEF StoreInv, LifecycleInv, StoreSucceeds, StoreFails, StoreSkipped, SettleStore, mapVars,
     docVars
<1>2. SchedulerStep
  BY <1>1, FinishKeepsSchedule
<1>3. /\ failed \subseteq failed'
      /\ store[r] = "storing" => runFunc[r] \in failed'
  BY DEF StoreSucceeds, StoreFails, StoreSkipped
<1>4. \A q \in Runs : q # r => runFunc'[q] = runFunc[q] /\ captured'[q] = captured[q]
                               /\ store'[q] = store[q]
  BY <1>1 DEF Finish, TypeOK, DebounceTypeOK
<1>5. \A c \in Connections : connDoc'[c] \in {connDoc[c], NoDoc}
  BY <1>1 DEF ResumeDisconnect, TypeOK
<1>6. \A c \in Connections : conn'[c] \notin {"out", "joining"} =>
         conn[c] \notin {"out", "joining"} /\ connDoc'[c] = connDoc[c]
  BY <1>1 DEF ResumeDisconnect, TypeOK
<1>7. store'[r] = "none"
  BY <1>1 DEF TypeOK
<1> QED BY <1>1, <1>2, <1>3, <1>4, <1>5, <1>6, <1>7, ScheduleStep

LEMMA UnloadSchedule ==
    ASSUME StoreInv, LifecycleInv', ~evicted,
           \/ \E d \in Docs : CheckUnload(d)
           \/ BeforeUnloadThrows \/ AfterUnloadResolves \/ AfterUnloadThrows
    PROVE  ScheduleInv'
<1>1. UNCHANGED <<debounceVars, storeVars, docVars, documents, conn, connDoc>>
  BY DEF CheckUnload, BeforeUnloadThrows, AfterUnloadResolves, AfterUnloadThrows, connVars
<1> QED BY <1>1, LeaveKeepsSchedule

\* A document is destroyed: nothing that is still scheduled belongs to it.
LEMMA BeforeUnloadResolvesSchedule ==
    ASSUME StoreInv, LifecycleInv', ~evicted', BeforeUnloadResolves
    PROVE  ScheduleInv'
<1> DEFINE d == unloading.doc
<1>1. /\ LifecycleInv /\ TypeOK /\ d \in Docs
      /\ UNCHANGED <<debounceVars, storeVars, conn, connDoc, content>>
      /\ UNCHANGED <<timer, orphans, runState, runFunc, entryLost, store, captured, saved, failed>>
  BY DEF StoreInv, LifecycleInv, BeforeUnloadResolves, TypeOK, NotUnloading, debounceVars,
     storeVars, connVars
<1>2. CASE UNCHANGED <<documents, evicted, stage>>
  BY <1>1, <1>2, LeaveKeepsSchedule DEF docVars
<1>3. CASE /\ ShouldUnloadDocument(d)
           /\ documents' = NoDoc
           /\ evicted' = (evicted \/ documents \notin {d, NoDoc})
           /\ stage' = [stage EXCEPT ![d] = "destroyed"]
  <2>1. ~evicted /\ documents \in {d, NoDoc}
    BY <1>3
  <2>2. ScheduleInv
    BY <2>1 DEF StoreInv
  <2>3. ~IsDebounced /\ \A r \in Runs : runState[r] = "executing" => runFunc[r] # d
    BY <1>3 DEF ShouldUnloadDocument, IsLocked
  <2>4. ASSUME ~entryLost, NEW r \in Runs, runState[r] # "idle" PROVE FALSE
    <3>1. \A q \in Runs : runState[q] # "idle" => runFunc[q] = d
      BY <1>1, <2>1, <2>2, <2>4, SchedulerFacts, NullAssumption DEF ScheduleInv, StoresAreMapped
    <3>2. runState[r] = "waiting" => awaits[r] \in Runs /\ runState[awaits[r]] = "executing"
      BY <1>1 DEF LifecycleInv, DebounceInv, NoLostWakeup
    <3> QED BY <1>1, <2>3, <2>4, <3>1, <3>2, SchedulerFacts DEF DebounceTypeOK
  <2>5. TimerIsMapped' /\ DeadEntryIsStored' /\ StoresAreMapped'
    BY <1>1, <2>2, <2>3, <2>4
    DEF ScheduleInv, TimerIsMapped, DeadEntryIsStored, StoresAreMapped, IsDebounced
  <2>6. \A e \in Docs : stage'[e] # "destroyed" => e # d /\ stage'[e] = stage[e]
    BY <1>1, <1>3 DEF TypeOK
  <2>7. HeldIsMapped'
    <3> SUFFICES ASSUME NEW c \in Connections, conn[c] \notin {"out", "joining"},
                        stage'[connDoc[c]] = "ready"
                 PROVE  FALSE
      BY <1>1 DEF HeldIsMapped
    <3>1. connDoc[c] \in Docs
      BY <1>1 DEF TypeOK
    <3>2. connDoc[c] # d /\ connDoc[c] = documents
      BY <2>2, <2>6, <3>1 DEF ScheduleInv, HeldIsMapped
    <3> QED BY <2>1, <3>1, <3>2, NullAssumption
  <2>8. LoadingIsUnused' /\ UnmappedIsSaved'
    BY <1>1, <2>1, <2>2, <2>6, NullAssumption
    DEF ScheduleInv, LoadingIsUnused, UnmappedIsSaved, NoStores
  <2>9. CaptureIsCurrent'
    BY <1>1, <2>2, <2>6, SchedulerFacts
    DEF ScheduleInv, CaptureIsCurrent, StoreIsLater, LifecycleInv, StoreIsExecution
  <2>10. ASSUME NEW e \in Docs, stage'[e] = "ready", content'[e] # saved'[e], e \notin failed'
         PROVE  StoreIsComing(e)'
    BY <1>1, <2>2, <2>6, <2>10 DEF ScheduleInv, StoreIsComing
  <2> QED BY <2>5, <2>7, <2>8, <2>9, <2>10 DEF ScheduleInv
<1> QED BY <1>2, <1>3 DEF BeforeUnloadResolves

LEMMA StoreInitInv == Init => StoreInv
<1> SUFFICES ASSUME Init PROVE ScheduleInv
  BY LifecycleInitInv DEF StoreInv
<1> QED
  BY DEF Init, DebounceInit, ScheduleInv, TimerIsMapped, HeldIsMapped, LoadingIsUnused,
     UnmappedIsSaved, CaptureIsCurrent, DeadEntryIsStored, StoresAreMapped, IsDebounced

\* Only an unload can evict, and an eviction is not undone.
LEMMA OnlyUnloadEvicts ==
    ASSUME Next PROVE BeforeUnloadResolves \/ UNCHANGED evicted
BY DEF Next, CreateDocument, Disconnected, Edit, CloseConnection, CallOnDisconnect,
   DisconnectDirect, CloseConnections, FlushPendingStores, EntryTimerFires, OrphanTimerFires,
   FetchDocument, DocumentLoaded, LoadFails, CheckUnload, StartStore, WriteStore, StoreSucceeds,
   StoreFails, StoreSkipped, SettleStore, BeforeUnloadThrows, AfterUnloadResolves,
   AfterUnloadThrows, mapVars

\* Every step of CollabApi preserves the inductive invariant.
LEMMA StoreNextInv == StoreInv /\ [Next]_vars => StoreInv'
<1> SUFFICES ASSUME StoreInv, [Next]_vars, ~evicted' PROVE ScheduleInv'
  BY LifecycleNextInv DEF StoreInv
<1>1. LifecycleInv'
  BY LifecycleNextInv DEF StoreInv
<1>2. CASE UNCHANGED vars
  <2>1. /\ UNCHANGED <<debounceVars, storeVars, docVars, documents>> /\ ~evicted
        /\ conn' = conn /\ connDoc' = connDoc
    BY <1>2 DEF vars, mapVars, connVars
  <2> QED BY <1>1, <2>1, LeaveKeepsSchedule
<1>3. CASE BeforeUnloadResolves
  BY <1>1, <1>3, BeforeUnloadResolvesSchedule
<1>4. CASE Next /\ ~evicted
  <2>1. ASSUME NEW c \in Connections,
               CreateDocument(c) \/ Disconnected(c) \/ \E u \in Updates : Edit(c, u)
        PROVE  ScheduleInv'
    BY <1>1, <1>4, <2>1, CreateDocumentSchedule, DisconnectedSchedule, EditSchedule
  <2>2. ASSUME NEW d \in Docs,
               FetchDocument(d) \/ DocumentLoaded(d) \/ LoadFails(d) \/ CheckUnload(d)
        PROVE  ScheduleInv'
    BY <1>1, <1>4, <2>2, FetchDocumentSchedule, DocumentLoadedSchedule, LoadFailsSchedule,
       UnloadSchedule
  <2>3. ASSUME NEW r \in Runs,
               StartStore(r) \/ WriteStore(r) \/ StoreSucceeds(r) \/ StoreFails(r)
               \/ StoreSkipped(r)
        PROVE  ScheduleInv'
    BY <1>1, <1>4, <2>3, StartStoreSchedule, WriteStoreSchedule, SettleSchedule
  <2> QED BY <1>1, <1>3, <1>4, <2>1, <2>2, <2>3, CloseSchedule, DisconnectDirectSchedule,
             TimersSchedule, UnloadSchedule DEF Next
<1> QED BY <1>2, <1>3, <1>4, OnlyUnloadEvicts

-----------------------------------------------------------------------------
LEMMA StoreInvariant == Spec => []StoreInv
<1> QED BY StoreInitInv, StoreNextInv, PTL DEF Spec

\* No edit is forgotten: until an eviction (CollabApi.ts:559, 579), content that
\* is not written yet has a store on its way, or the last store has failed.
THEOREM StoreUnsavedIsScheduled == Spec => []UnsavedIsScheduled
<1>1. StoreInv => UnsavedIsScheduled
  BY DEF StoreInv, ScheduleInv, UnsavedIsScheduled
<1> QED BY <1>1, StoreInvariant, PTL

\* The step in which a document is destroyed (CollabApi.ts:577-581).
LEMMA OnlyUnloadDestroys ==
    ASSUME StoreInv, [Next]_vars, NEW d \in Docs, stage[d] = "ready", stage'[d] = "destroyed"
    PROVE  BeforeUnloadResolves /\ ShouldUnloadDocument(d)
<1>1. stage \in [Docs -> {"unused", "loading", "ready", "destroyed"}]
  BY DEF StoreInv, LifecycleInv, TypeOK
<1>2. stage' # stage
  OBVIOUS
<1>3. ASSUME NEW c \in Connections, CreateDocument(c) PROVE FALSE
  BY <1>1, <1>2, <1>3 DEF CreateDocument, LoadDocument, docVars
<1>4. ASSUME NEW e \in Docs, FetchDocument(e) PROVE FALSE
  BY <1>1, <1>4 DEF FetchDocument
<1>5. BeforeUnloadResolves
  BY <1>2, <1>3, <1>4
  DEF Next, Disconnected, Edit, CloseConnection, CallOnDisconnect, DisconnectDirect,
      CloseConnections, FlushPendingStores, EntryTimerFires, OrphanTimerFires, DocumentLoaded,
      LoadFails, CheckUnload, StartStore, WriteStore, StoreSucceeds, StoreFails, StoreSkipped,
      SettleStore, BeforeUnloadThrows, AfterUnloadResolves, AfterUnloadThrows, docVars, vars
<1> QED BY <1>1, <1>5 DEF BeforeUnloadResolves

\* Nothing is scheduled for the object that is destroyed, so nothing of it is unsaved.
LEMMA UnloadIsSaved ==
    ASSUME StoreInv, [Next]_vars, NEW d \in Docs, stage[d] = "ready", stage'[d] = "destroyed",
           ~evicted, ~entryLost, d \notin failed
    PROVE  content[d] = saved[d]
<1>1. LifecycleInv /\ ScheduleInv
  BY DEF StoreInv
<1>2. CASE d # documents
  BY <1>1, <1>2 DEF ScheduleInv, UnmappedIsSaved
<1>3. CASE d = documents
  <2>1. ~IsDebounced /\ \A r \in Runs : runState[r] = "executing" => runFunc[r] # d
    BY OnlyUnloadDestroys DEF ShouldUnloadDocument, IsLocked
  <2>2. timer.func # d /\ orphans[d] = 0
    BY <1>1, <2>1, SchedulerFacts, NullAssumption DEF ScheduleInv, StoresAreMapped
  <2>3. \A r \in Runs : runState[r] # "executing"
    BY <1>1, <1>3, <2>1 DEF ScheduleInv, StoresAreMapped
  <2>4. \A r \in Runs : runState[r] # "waiting" /\ store[r] = "none"
    BY <1>1, <2>3 DEF LifecycleInv, DebounceInv, NoLostWakeup, StoreIsExecution
  <2>5. ~StoreIsComing(d)
    BY <1>1, <2>2, <2>3, <2>4, SchedulerFacts DEF StoreIsComing, DebounceTypeOK
  <2> QED BY <1>1, <2>5 DEF ScheduleInv
<1> QED BY <1>2, <1>3

\* A document is unloaded with everything written (CollabApi.ts:564, 577), up to
\* a failed store, an eviction and an entry that was lost (debounce.ts:30).
THEOREM StoreUnloadedIsSaved == Spec => UnloadedIsSaved
<1>1. StoreInv /\ [Next]_vars =>
        \A d \in Docs :
            stage[d] = "ready" /\ stage'[d] = "destroyed"
            /\ ~evicted /\ ~entryLost /\ d \notin failed => content[d] = saved[d]
  BY UnloadIsSaved
<1> QED BY <1>1, StoreInvariant, PTL DEF Spec, UnloadedIsSaved

-----------------------------------------------------------------------------
(* What a store writes, whatever is evicted or fails.                      *)

\* An object whose load has not read the database yet is used by nobody.
LoadingIsUnreferenced ==
    \A d \in Docs : loading = d /\ stage[d] = "loading" =>
        timer.func # d /\ NoStores(d) /\ \A c \in Connections : connDoc[c] # d

\* saveMutex: one store of an object at a time.
StoresAreAlone ==
    \A q, r \in Runs : store[q] # "none" /\ store[r] # "none" /\ runFunc[q] = runFunc[r] => q = r

\* A store was captured after the last one was written; what is written is content.
CaptureIsBetween ==
    /\ \A d \in Docs : saved[d] \subseteq content[d]
    /\ \A r \in Runs :
         /\ store[r] # "none" => captured[r] \subseteq content[runFunc[r]]
         /\ store[r] = "storing" => saved[runFunc[r]] \subseteq captured[r]

\* disconnect() awaits a store of its own object that has not settled, and that has read, or
\* will read, what is promised.
PromiseIsKept ==
    \A x \in Directs : conn[x] = "storing" =>
        LET r == discRun[x] IN
        /\ r \in Runs /\ runState[r] # "idle" /\ runFunc[r] = connDoc[x]
        /\ promised[x] \subseteq content[connDoc[x]]
        /\ store[r] = "storing" => promised[x] \subseteq captured[r]
        /\ store[r] = "written" => promised[x] \subseteq saved[connDoc[x]]

WriteInv ==
    /\ LoadingIsUnreferenced
    /\ StoresAreAlone
    /\ CaptureIsBetween
    /\ PromiseIsKept

LEMMA WriteInitInv == Init => WriteInv
BY NullAssumption DEF Init, WriteInv, LoadingIsUnreferenced, StoresAreAlone, CaptureIsBetween,
   PromiseIsKept, Connections

\* The debouncer's calls never take up an object that nobody uses.
LEMMA CallKeepsUnused ==
    ASSUME DebounceTypeOK, NEW d \in Docs, timer.func # d, NoStores(d), NEW r \in Runs,
           NEW f \in Docs,
           \/ f # d /\ (DebounceLater(f) \/ DebounceNow(r, f))
           \/ ExecuteNow(r) \/ TimerFires(r) \/ OrphanFires(r, f) \/ Finish(r)
    PROVE  timer'.func # d /\ NoStores(d)'
<1>1. ASSUME NEW g, g # d, NEW entry, entry.func # d, NEW orph, orph[d] = 0,
             entry = timer \/ entry = Cleared(timer),
             orph \in [Docs -> Nat], Run(r, g, entry, orph)
      PROVE  timer'.func # d /\ NoStores(d)'
  <2>1. \A q \in Runs : runFunc'[q] # d
    BY <1>1 DEF Run, DebounceTypeOK, NoStores
  <2>2. timer'.func # d /\ orphans'[d] = 0
    BY <1>1, NullAssumption DEF Run, DeleteTimer, NoTimer
  <2> QED BY <2>1, <2>2 DEF NoStores
<1>2. Cleared(timer).func = timer.func /\ orphans \in [Docs -> Nat] /\ orphans[d] = 0
  BY DEF Cleared, DebounceTypeOK, NoStores
<1>3. CASE f # d /\ DebounceLater(f)
  BY <1>3 DEF DebounceLater, NoStores
<1>4. CASE f # d /\ DebounceNow(r, f)
  BY <1>1, <1>2, <1>4 DEF DebounceNow
<1>5. CASE ExecuteNow(r) \/ TimerFires(r)
  BY <1>1, <1>2, <1>5 DEF ExecuteNow, TimerFires
<1>6. CASE OrphanFires(r, f)
  <2>1. /\ f # d /\ [orphans EXCEPT ![f] = @ - 1] \in [Docs -> Nat]
        /\ [orphans EXCEPT ![f] = @ - 1][d] = 0
    BY <1>2, <1>6 DEF OrphanFires
  <2> QED BY <1>1, <1>2, <1>6, <2>1 DEF OrphanFires
<1>7. CASE Finish(r)
  <2>1. \A q \in Runs : runFunc'[q] # d
    BY <1>7, NullAssumption DEF Finish, DebounceTypeOK, NoStores
  <2>2. timer'.func # d /\ orphans'[d] = 0
    BY <1>2, <1>7, NullAssumption DEF Finish, DeleteTimer, NoTimer, DebounceTypeOK
  <2> QED BY <2>1, <2>2 DEF NoStores
<1> QED BY <1>3, <1>4, <1>5, <1>6, <1>7

\* Nor do they change what an invocation in progress stores.
LEMMA CallKeepsInvocations ==
    ASSUME DebounceTypeOK, NEW r \in Runs, NEW f,
           \/ DebounceLater(f) \/ DebounceNow(r, f)
           \/ ExecuteNow(r) \/ TimerFires(r) \/ OrphanFires(r, f)
    PROVE  \A q \in Runs : runState[q] # "idle" => runState'[q] # "idle" /\ runFunc'[q] = runFunc[q]
<1>1. ASSUME NEW g, NEW entry, NEW orph, Run(r, g, entry, orph)
      PROVE  \A q \in Runs : runState[q] # "idle" =>
                 runState'[q] # "idle" /\ runFunc'[q] = runFunc[q]
  BY <1>1 DEF Run, DebounceTypeOK
<1> QED BY <1>1 DEF DebounceLater, DebounceNow, ExecuteNow, TimerFires, OrphanFires

\* The inductive step of everything but the stores themselves: content grows, except of an
\* object that nobody uses, and a promise is made for a store that has not begun.
LEMMA WriteStep ==
    ASSUME LifecycleInv, LifecycleInv', WriteInv, LoadingIsUnreferenced',
           UNCHANGED <<store, captured>>,
           \A d \in Docs :
              \/ content[d] \subseteq content'[d] /\ saved'[d] = saved[d]
              \/ /\ \A r \in Runs : runFunc[r] # d
                 /\ \A c \in Connections : connDoc[c] # d
                 /\ saved'[d] \subseteq content'[d],
           \A r \in Runs : runState[r] # "idle" =>
               runState'[r] # "idle" /\ runFunc'[r] = runFunc[r],
           \A x \in Directs : conn'[x] = "storing" =>
              \/ /\ conn[x] = "storing" /\ connDoc'[x] = connDoc[x]
                 /\ discRun'[x] = discRun[x] /\ promised'[x] = promised[x]
              \/ /\ discRun'[x] \in Runs /\ store[discRun'[x]] = "none"
                 /\ runState'[discRun'[x]] # "idle" /\ runFunc'[discRun'[x]] = connDoc'[x]
                 /\ promised'[x] \subseteq content'[connDoc'[x]]
    PROVE  WriteInv'
<1>1. \A r \in Runs : store[r] # "none" =>
         runState[r] # "idle" /\ runFunc'[r] = runFunc[r] /\ runFunc[r] \in Docs
  BY SchedulerFacts
<1>2. StoresAreAlone'
  BY <1>1 DEF WriteInv, StoresAreAlone
<1>3. CaptureIsBetween'
  <2>1. \A d \in Docs : saved'[d] \subseteq content'[d]
    BY DEF WriteInv, CaptureIsBetween
  <2>2. ASSUME NEW r \in Runs, store[r] # "none"
        PROVE  /\ captured[r] \subseteq content'[runFunc'[r]]
               /\ store[r] = "storing" => saved'[runFunc'[r]] \subseteq captured[r]
    BY <1>1, <2>2 DEF WriteInv, CaptureIsBetween
  <2> QED BY <2>1, <2>2 DEF CaptureIsBetween
<1>4. PromiseIsKept'
  <2> SUFFICES ASSUME NEW x \in Directs, conn'[x] = "storing"
               PROVE  /\ discRun'[x] \in Runs /\ runState'[discRun'[x]] # "idle"
                      /\ runFunc'[discRun'[x]] = connDoc'[x]
                      /\ promised'[x] \subseteq content'[connDoc'[x]]
                      /\ store[discRun'[x]] = "storing" =>
                            promised'[x] \subseteq captured[discRun'[x]]
                      /\ store[discRun'[x]] = "written" =>
                            promised'[x] \subseteq saved'[connDoc'[x]]
    BY DEF PromiseIsKept
  <2>1. CASE conn[x] = "storing" /\ connDoc'[x] = connDoc[x]
             /\ discRun'[x] = discRun[x] /\ promised'[x] = promised[x]
    <3>1. connDoc[x] \in Docs /\ x \in Connections
      BY <2>1 DEF LifecycleInv, TypeOK, Connections
    <3>2. /\ content[connDoc[x]] \subseteq content'[connDoc[x]]
          /\ saved'[connDoc[x]] = saved[connDoc[x]]
      BY <3>1
    <3>3. LET r == discRun[x] IN
             /\ r \in Runs /\ runState[r] # "idle" /\ runFunc[r] = connDoc[x]
             /\ promised[x] \subseteq content[connDoc[x]]
             /\ store[r] = "storing" => promised[x] \subseteq captured[r]
             /\ store[r] = "written" => promised[x] \subseteq saved[connDoc[x]]
      BY <2>1 DEF WriteInv, PromiseIsKept
    <3> QED BY <2>1, <3>2, <3>3
  <2>2. CASE ~(conn[x] = "storing" /\ connDoc'[x] = connDoc[x]
               /\ discRun'[x] = discRun[x] /\ promised'[x] = promised[x])
    BY <2>2
  <2> QED BY <2>1, <2>2
<1> QED BY <1>2, <1>3, <1>4 DEF WriteInv

\* The debouncer is called for an object that somebody holds, or by a timeout.
HeldCall ==
    \/ UNCHANGED debounceVars
    \/ \E c \in Connections : connDoc[c] \in Docs /\
         (DebounceLater(connDoc[c]) \/ \E r \in Runs : DebounceNow(r, connDoc[c]))
    \/ \E r \in Runs : ExecuteNow(r) \/ TimerFires(r) \/ \E f \in Docs : OrphanFires(r, f)

LEMMA LoadingStep ==
    ASSUME LifecycleInv, LoadingIsUnreferenced, HeldCall \/ \E r \in Runs : Finish(r),
           \A d \in Docs : stage'[d] = "loading" => stage[d] = "loading",
           loading' \in {loading, NoDoc},
           \A c \in Connections : connDoc'[c] \in {connDoc[c], NoDoc}
    PROVE  LoadingIsUnreferenced'
<1> SUFFICES ASSUME NEW d \in Docs, loading' = d, stage'[d] = "loading"
             PROVE  timer'.func # d /\ NoStores(d)' /\ \A c \in Connections : connDoc'[c] # d
  BY DEF LoadingIsUnreferenced
<1>1. DebounceTypeOK
  BY SchedulerFacts
<1>2. timer.func # d /\ NoStores(d) /\ \A c \in Connections : connDoc[c] # d
  BY NullAssumption DEF LoadingIsUnreferenced
<1>3. \A c \in Connections : connDoc'[c] # d
  BY <1>2, NullAssumption
<1>4. CASE UNCHANGED debounceVars
  BY <1>2, <1>3, <1>4 DEF debounceVars, NoStores
<1>5. ASSUME NEW c \in Connections, connDoc[c] \in Docs, DebounceLater(connDoc[c])
      PROVE  timer'.func # d /\ NoStores(d)'
  BY <1>2, <1>5 DEF DebounceLater, NoStores
<1>6. ASSUME NEW c \in Connections, connDoc[c] \in Docs, NEW r \in Runs,
             DebounceNow(r, connDoc[c])
      PROVE  timer'.func # d /\ NoStores(d)'
  BY <1>1, <1>2, <1>6, CallKeepsUnused
<1>7. ASSUME NEW r \in Runs,
             ExecuteNow(r) \/ TimerFires(r) \/ Finish(r) \/ \E f \in Docs : OrphanFires(r, f)
      PROVE  timer'.func # d /\ NoStores(d)'
  BY <1>1, <1>2, <1>7, CallKeepsUnused
<1> QED BY <1>3, <1>4, <1>5, <1>6, <1>7 DEF HeldCall

\* The actions that change neither the content nor what is saved, and in which no
\* connection begins to wait for a store.
LEMMA QuietWrite ==
    ASSUME LifecycleInv, LifecycleInv', WriteInv, HeldCall,
           UNCHANGED <<store, captured, saved, content, directVars>>,
           \A d \in Docs : stage'[d] = "loading" => stage[d] = "loading",
           loading' \in {loading, NoDoc},
           \A c \in Connections : connDoc'[c] \in {connDoc[c], NoDoc},
           \A x \in Directs : conn'[x] = "storing" =>
               conn[x] = "storing" /\ connDoc'[x] = connDoc[x]
    PROVE  WriteInv'
<1>1. DebounceTypeOK
  BY SchedulerFacts
<1>2. LoadingIsUnreferenced'
  BY LoadingStep DEF WriteInv
<1>3. \A q \in Runs : runState[q] # "idle" => runState'[q] # "idle" /\ runFunc'[q] = runFunc[q]
  <2>1. CASE UNCHANGED debounceVars \/ \E c \in Connections : DebounceLater(connDoc[c])
    BY <2>1 DEF debounceVars, DebounceLater
  <2> QED BY <1>1, <2>1, CallKeepsInvocations DEF HeldCall
<1> QED BY <1>2, <1>3, WriteStep DEF directVars

LEMMA QuietActionsWrite ==
    ASSUME LifecycleInv, LifecycleInv', WriteInv,
           \/ UNCHANGED vars
           \/ \E d \in Docs : LoadFails(d) \/ CheckUnload(d) \/ OrphanTimerFires(d)
           \/ \E c \in Clients : CloseConnection(c) \/ CallOnDisconnect(c)
           \/ \E c \in Connections : Disconnected(c)
           \/ CloseConnections \/ FlushPendingStores \/ EntryTimerFires
           \/ BeforeUnloadResolves \/ BeforeUnloadThrows
           \/ AfterUnloadResolves \/ AfterUnloadThrows
    PROVE  WriteInv'
<1>1. TypeOK
  BY DEF LifecycleInv
<1>2. HeldCall
  BY DEF vars, LoadFails, CheckUnload, OrphanTimerFires, CloseConnection, CallOnDisconnect,
     Disconnected, OnClose, CloseConnections, FlushPendingStores, EntryTimerFires,
     BeforeUnloadResolves, BeforeUnloadThrows, AfterUnloadResolves, AfterUnloadThrows, HeldCall
<1>3. UNCHANGED <<store, captured, saved, content, directVars>> /\ loading' \in {loading, NoDoc}
  BY DEF vars, LoadFails, CheckUnload, OrphanTimerFires, CloseConnection, CallOnDisconnect,
     Disconnected, CloseConnections, FlushPendingStores, EntryTimerFires, BeforeUnloadResolves,
     BeforeUnloadThrows, AfterUnloadResolves, AfterUnloadThrows, storeVars, connVars, mapVars,
     docVars
<1>4. \A d \in Docs : stage'[d] = "loading" => stage[d] = "loading"
  BY <1>1
  DEF vars, LoadFails, CheckUnload, OrphanTimerFires, CloseConnection, CallOnDisconnect,
      Disconnected, CloseConnections, FlushPendingStores, EntryTimerFires, BeforeUnloadResolves,
      BeforeUnloadThrows, AfterUnloadResolves, AfterUnloadThrows, docVars, TypeOK
<1>5. /\ \A c \in Connections : connDoc'[c] \in {connDoc[c], NoDoc}
      /\ \A x \in Directs : conn'[x] = "storing" => conn[x] = "storing" /\ connDoc'[x] = connDoc[x]
  BY <1>1
  DEF vars, LoadFails, CheckUnload, OrphanTimerFires, CloseConnection, CallOnDisconnect,
      Disconnected, CloseConnections, FlushPendingStores, EntryTimerFires, BeforeUnloadResolves,
      BeforeUnloadThrows, AfterUnloadResolves, AfterUnloadThrows, connVars, TypeOK, Connections
<1> QED BY <1>2, <1>3, <1>4, <1>5, QuietWrite

LEMMA CreateDocumentWrite ==
    ASSUME LifecycleInv, LifecycleInv', WriteInv, NEW c \in Connections, CreateDocument(c)
    PROVE  WriteInv'
<1>1. /\ TypeOK /\ UNCHANGED <<debounceVars, documents, directVars, store, captured>>
      /\ UNCHANGED <<timer, orphans, runState, runFunc, discRun, promised>>
  BY DEF LifecycleInv, CreateDocument, debounceVars, directVars
<1>2. CASE loading # NoDoc /\ conn' = [conn EXCEPT ![c] = "joining"]
           /\ UNCHANGED <<connDoc, loading, docVars, saved, failed>>
  BY <1>1, <1>2, QuietWrite DEF HeldCall, docVars, TypeOK, Connections
<1>3. CASE loading = NoDoc /\ conn' = [conn EXCEPT ![c] = "in"]
           /\ connDoc' = [connDoc EXCEPT ![c] = documents]
           /\ UNCHANGED <<loading, docVars, saved, failed>>
  <2>1. LoadingIsUnreferenced'
    BY <1>3, NullAssumption DEF LoadingIsUnreferenced
  <2>2. \A x \in Directs : conn'[x] = "storing" => conn[x] = "storing" /\ connDoc'[x] = connDoc[x]
    BY <1>1, <1>3 DEF TypeOK, Connections
  <2> QED BY <1>1, <1>3, <2>1, <2>2, WriteStep DEF docVars
<1>4. ASSUME NEW d \in Docs, LoadDocument(d), conn' = [conn EXCEPT ![c] = "joining"],
             UNCHANGED connDoc
      PROVE  WriteInv'
  <2>1. /\ timer.func # d /\ NoStores(d)
        /\ \A x \in Connections : connDoc[x] # d
        /\ loading' = d /\ content' = [content EXCEPT ![d] = {}]
        /\ saved' = [saved EXCEPT ![d] = {}]
    BY <1>4 DEF LoadDocument, Unreferenced, NoStores
  <2>2. LoadingIsUnreferenced'
    BY <1>1, <1>4, <2>1 DEF LoadingIsUnreferenced, NoStores
  <2>3. \A x \in Directs : conn'[x] = "storing" => conn[x] = "storing"
    BY <1>1, <1>4 DEF TypeOK, Connections
  <2>4. \A e \in Docs :
           \/ content[e] \subseteq content'[e] /\ saved'[e] = saved[e]
           \/ e = d /\ saved'[e] \subseteq content'[e]
    BY <1>1, <2>1 DEF TypeOK
  <2> QED BY <1>1, <1>4, <2>1, <2>2, <2>3, <2>4, WriteStep DEF NoStores
<1> QED BY <1>2, <1>3, <1>4 DEF CreateDocument

\* The database is applied to an object that nobody uses yet.
LEMMA FetchDocumentWrite ==
    ASSUME LifecycleInv, LifecycleInv', WriteInv, NEW d \in Docs, FetchDocument(d)
    PROVE  WriteInv'
<1>1. /\ TypeOK /\ loading = d /\ stage[d] = "loading"
      /\ UNCHANGED <<timer, orphans, runState, runFunc, loading, conn, connDoc, discRun, promised,
                     store, captured>>
      /\ stage' = [stage EXCEPT ![d] = "ready"]
      /\ content' = [content EXCEPT ![d] = db] /\ saved' = [saved EXCEPT ![d] = db]
  BY DEF FetchDocument, LifecycleInv, debounceVars, mapVars, connVars, directVars
<1>2. NoStores(d) /\ \A c \in Connections : connDoc[c] # d
  BY <1>1 DEF WriteInv, LoadingIsUnreferenced
<1>3. LoadingIsUnreferenced'
  BY <1>1 DEF LoadingIsUnreferenced, TypeOK
<1>4. \A e \in Docs :
         \/ content[e] \subseteq content'[e] /\ saved'[e] = saved[e]
         \/ e = d /\ saved'[e] \subseteq content'[e]
  BY <1>1 DEF TypeOK
<1> QED BY <1>1, <1>2, <1>3, <1>4, WriteStep DEF NoStores

LEMMA DocumentLoadedWrite ==
    ASSUME LifecycleInv, LifecycleInv', WriteInv, NEW d \in Docs, DocumentLoaded(d)
    PROVE  WriteInv'
<1>1. /\ TypeOK /\ loading' = NoDoc
      /\ UNCHANGED <<runState, runFunc, discRun, promised, store, captured, content, saved>>
      /\ conn' = [c \in Connections |-> IF conn[c] = "joining" THEN "in" ELSE conn[c]]
      /\ connDoc' = [c \in Connections |-> IF conn[c] = "joining" THEN d ELSE connDoc[c]]
  BY DEF DocumentLoaded, LifecycleInv, debounceVars, storeVars, docVars, directVars
<1>2. LoadingIsUnreferenced'
  BY <1>1, NullAssumption DEF LoadingIsUnreferenced
<1>3. \A x \in Directs : conn'[x] = "storing" => conn[x] = "storing" /\ connDoc'[x] = connDoc[x]
  BY <1>1 DEF Connections
<1> QED BY <1>1, <1>2, <1>3, WriteStep

\* An edit adds to the content, whatever store is in progress.
LEMMA EditWrite ==
    ASSUME LifecycleInv, LifecycleInv', WriteInv, NEW c \in Connections, NEW u \in Updates,
           Edit(c, u)
    PROVE  WriteInv'
<1>1. /\ TypeOK /\ connDoc[c] \in Docs
      /\ UNCHANGED <<conn, connDoc, discRun, promised, loading, stage, store, captured, saved>>
      /\ content' = [content EXCEPT ![connDoc[c]] = @ \cup {u}]
  BY DEF Edit, LifecycleInv, TypeOK, storeVars, connVars, directVars, mapVars
<1>2. UNCHANGED debounceVars \/ DebounceLater(connDoc[c])
      \/ \E r \in Runs : DebounceNow(r, connDoc[c])
  BY DEF Edit, Debounce
<1>3. LoadingIsUnreferenced'
  BY <1>1, <1>2, LoadingStep DEF WriteInv, HeldCall
<1>4. \A q \in Runs : runState[q] # "idle" => runState'[q] # "idle" /\ runFunc'[q] = runFunc[q]
  <2>1. CASE UNCHANGED debounceVars \/ DebounceLater(connDoc[c])
    BY <2>1 DEF debounceVars, DebounceLater
  <2> QED BY <1>2, <2>1, SchedulerFacts, CallKeepsInvocations
<1>5. \A e \in Docs : content[e] \subseteq content'[e]
  BY <1>1 DEF TypeOK
<1> QED BY <1>1, <1>3, <1>4, <1>5, WriteStep

\* disconnect() is promised what the document contains, by a store that has not begun.
LEMMA DisconnectDirectWrite ==
    ASSUME LifecycleInv, LifecycleInv', WriteInv, NEW x \in Directs, DisconnectDirect(x)
    PROVE  WriteInv'
<1>1. /\ TypeOK /\ connDoc[x] \in Docs /\ x \in Connections
      /\ UNCHANGED <<connDoc, loading, stage, content, store, captured, saved>>
      /\ conn' = [conn EXCEPT ![x] = "storing"]
      /\ promised' = [promised EXCEPT ![x] = content[connDoc[x]]]
  BY DEF DisconnectDirect, LifecycleInv, TypeOK, Connections, storeVars, mapVars, docVars
<1>2. PICK r \in Runs : DebounceNow(r, connDoc[x]) /\ discRun' = [discRun EXCEPT ![x] = r]
  BY DEF DisconnectDirect
<1>3. LoadingIsUnreferenced'
  BY <1>1, <1>2, LoadingStep DEF WriteInv, HeldCall
<1>4. \A q \in Runs : runState[q] # "idle" => runState'[q] # "idle" /\ runFunc'[q] = runFunc[q]
  BY <1>2, SchedulerFacts, CallKeepsInvocations
<1>5. store[r] = "none" /\ runState'[r] # "idle" /\ runFunc'[r] = connDoc[x]
  BY <1>2, SchedulerFacts DEF DebounceNow, Run, DebounceTypeOK
<1>6. \A y \in Directs \ {x} : conn'[y] = conn[y] /\ discRun'[y] = discRun[y]
                               /\ promised'[y] = promised[y]
  BY <1>1, <1>2 DEF TypeOK, Connections
<1>7. discRun'[x] = r /\ promised'[x] = content[connDoc[x]]
  BY <1>1, <1>2 DEF TypeOK
<1> QED BY <1>1, <1>3, <1>4, <1>5, <1>6, <1>7, WriteStep

\* A store begins alone, and reads what the last one has written, or more.
LEMMA StartStoreWrite ==
    ASSUME LifecycleInv, WriteInv, NEW r \in Runs, StartStore(r)
    PROVE  WriteInv'
<1>1. /\ TypeOK /\ runFunc[r] \in Docs
      /\ UNCHANGED <<timer, orphans, runState, runFunc, loading, stage, conn, connDoc, discRun,
                     promised, content, saved>>
      /\ \A q \in Runs : store[q] # "none" => runFunc[q] # runFunc[r]
      /\ store' = [store EXCEPT ![r] = "storing"]
      /\ captured' = [captured EXCEPT ![r] = content[runFunc[r]]]
  BY DEF StartStore, LifecycleInv, TypeOK, DebounceTypeOK, debounceVars, connVars, directVars,
     mapVars, docVars
<1>2. LoadingIsUnreferenced'
  BY <1>1 DEF WriteInv, LoadingIsUnreferenced, NoStores
<1>3. StoresAreAlone'
  BY <1>1 DEF WriteInv, StoresAreAlone, TypeOK
<1>4. CaptureIsBetween'
  BY <1>1 DEF WriteInv, CaptureIsBetween, TypeOK
<1>5. PromiseIsKept'
  BY <1>1 DEF WriteInv, PromiseIsKept, TypeOK
<1> QED BY <1>2, <1>3, <1>4, <1>5 DEF WriteInv

\* What is written is what was read; no other store of the object is in progress.
LEMMA WriteStoreWrite ==
    ASSUME LifecycleInv, WriteInv, NEW r \in Runs, WriteStore(r)
    PROVE  WriteInv'
<1>1. /\ TypeOK /\ runFunc[r] \in Docs /\ store[r] = "storing"
      /\ UNCHANGED <<timer, orphans, runState, runFunc, loading, stage, conn, connDoc, discRun,
                     promised, content, captured>>
      /\ store' = [store EXCEPT ![r] = "written"]
      /\ saved' = [saved EXCEPT ![runFunc[r]] = captured[r]]
  BY SchedulerFacts
  DEF WriteStore, LifecycleInv, StoreIsExecution, debounceVars, connVars, directVars, mapVars,
      docVars
<1>2. LoadingIsUnreferenced'
  BY <1>1 DEF WriteInv, LoadingIsUnreferenced, NoStores
<1>3. StoresAreAlone'
  BY <1>1 DEF WriteInv, StoresAreAlone, TypeOK
<1>4. captured[r] \subseteq content[runFunc[r]] /\ saved[runFunc[r]] \subseteq captured[r]
  BY <1>1 DEF WriteInv, CaptureIsBetween
<1>5. \A q \in Runs : q # r /\ store[q] # "none" => runFunc[q] # runFunc[r]
  BY <1>1 DEF WriteInv, StoresAreAlone
<1>6. CaptureIsBetween'
  <2>1. \A d \in Docs : saved'[d] \subseteq content[d]
    BY <1>1, <1>4 DEF WriteInv, CaptureIsBetween, TypeOK
  <2>2. ASSUME NEW q \in Runs, store'[q] # "none"
        PROVE  /\ captured[q] \subseteq content[runFunc[q]]
               /\ store'[q] = "storing" => saved'[runFunc[q]] \subseteq captured[q]
    <3>1. store[q] # "none" /\ (store'[q] = "storing" => store[q] = "storing" /\ q # r)
      BY <1>1, <2>2 DEF TypeOK
    <3>2. captured[q] \subseteq content[runFunc[q]]
      BY <3>1 DEF WriteInv, CaptureIsBetween
    <3>3. ASSUME store'[q] = "storing" PROVE saved'[runFunc[q]] \subseteq captured[q]
      <4>1. saved'[runFunc[q]] = saved[runFunc[q]]
        BY <1>1, <1>5, <3>1, <3>3 DEF TypeOK
      <4> QED BY <3>1, <3>3, <4>1 DEF WriteInv, CaptureIsBetween
    <3> QED BY <3>2, <3>3
  <2> QED BY <1>1, <2>1, <2>2 DEF CaptureIsBetween
<1>7. PromiseIsKept'
  <2> SUFFICES ASSUME NEW x \in Directs, conn[x] = "storing"
               PROVE  LET q == discRun[x] IN
                      /\ q \in Runs /\ runState[q] # "idle" /\ runFunc[q] = connDoc[x]
                      /\ promised[x] \subseteq content[connDoc[x]]
                      /\ store'[q] = "storing" => promised[x] \subseteq captured[q]
                      /\ store'[q] = "written" => promised[x] \subseteq saved'[connDoc[x]]
    BY <1>1 DEF PromiseIsKept
  <2>1. LET q == discRun[x] IN
        /\ q \in Runs /\ runState[q] # "idle" /\ runFunc[q] = connDoc[x]
        /\ promised[x] \subseteq content[connDoc[x]]
        /\ store[q] = "storing" => promised[x] \subseteq captured[q]
        /\ store[q] = "written" => promised[x] \subseteq saved[connDoc[x]]
    BY DEF WriteInv, PromiseIsKept
  <2>2. CASE discRun[x] = r
    BY <1>1, <2>1, <2>2 DEF TypeOK
  <2>3. CASE discRun[x] # r
    <3>1. store'[discRun[x]] = store[discRun[x]]
      BY <1>1, <2>1, <2>3 DEF TypeOK
    <3>2. store[discRun[x]] # "none" => saved'[connDoc[x]] = saved[connDoc[x]]
      BY <1>1, <1>5, <2>1, <2>3 DEF TypeOK
    <3> QED BY <2>1, <3>1, <3>2
  <2> QED BY <2>2, <2>3
<1> QED BY <1>2, <1>3, <1>6, <1>7 DEF WriteInv

\* The connections that awaited a store go on when it settles; the others wait on.
LEMMA SettleWrite ==
    ASSUME LifecycleInv, WriteInv, NEW r \in Runs,
           StoreSucceeds(r) \/ StoreFails(r) \/ StoreSkipped(r)
    PROVE  WriteInv'
<1>1. /\ TypeOK /\ Finish(r) /\ ResumeDisconnect(r)
      /\ store' = [store EXCEPT ![r] = "none"]
      /\ captured' = [captured EXCEPT ![r] = {}]
      /\ UNCHANGED <<saved, loading, stage, content>>
  BY DEF LifecycleInv, StoreSucceeds, StoreFails, StoreSkipped, SettleStore, mapVars, docVars
<1>2. LoadingIsUnreferenced'
  <2>1. \A c \in Connections : connDoc'[c] \in {connDoc[c], NoDoc}
    BY <1>1 DEF ResumeDisconnect, TypeOK
  <2> QED BY <1>1, <2>1, LoadingStep DEF WriteInv
<1>3. \A q \in Runs : q # r =>
         /\ store'[q] = store[q] /\ captured'[q] = captured[q] /\ runFunc'[q] = runFunc[q]
         /\ runState[q] # "idle" => runState'[q] # "idle"
  BY <1>1 DEF Finish, Waiters, TypeOK, DebounceTypeOK
<1>4. store'[r] = "none"
  BY <1>1 DEF TypeOK
<1>5. StoresAreAlone'
  BY <1>3, <1>4 DEF WriteInv, StoresAreAlone
<1>6. CaptureIsBetween'
  BY <1>1, <1>3, <1>4 DEF WriteInv, CaptureIsBetween
<1>7. \A x \in Directs : conn'[x] = "storing" =>
         /\ conn[x] = "storing" /\ discRun[x] # r
         /\ connDoc'[x] = connDoc[x] /\ discRun'[x] = discRun[x] /\ promised'[x] = promised[x]
  BY <1>1 DEF ResumeDisconnect, TypeOK, Connections
<1>8. PromiseIsKept'
  BY <1>1, <1>3, <1>7 DEF WriteInv, PromiseIsKept
<1> QED BY <1>2, <1>5, <1>6, <1>8 DEF WriteInv

\* Every step of CollabApi preserves the inductive invariant.
LEMMA WriteNextInv == LifecycleInv /\ WriteInv /\ [Next]_vars => WriteInv'
<1> SUFFICES ASSUME LifecycleInv, WriteInv, [Next]_vars PROVE WriteInv'
  OBVIOUS
<1>1. LifecycleInv'
  BY LifecycleNextInv
<1>2. CASE UNCHANGED vars
  BY <1>1, <1>2, QuietActionsWrite
<1>3. CASE Next
  <2>1. ASSUME NEW c \in Connections,
               CreateDocument(c) \/ Disconnected(c) \/ \E u \in Updates : Edit(c, u)
        PROVE  WriteInv'
    BY <1>1, <2>1, CreateDocumentWrite, QuietActionsWrite, EditWrite
  <2>2. ASSUME NEW d \in Docs,
               OrphanTimerFires(d) \/ FetchDocument(d) \/ DocumentLoaded(d) \/ LoadFails(d)
               \/ CheckUnload(d)
        PROVE  WriteInv'
    BY <1>1, <2>2, FetchDocumentWrite, DocumentLoadedWrite, QuietActionsWrite
  <2>3. ASSUME NEW r \in Runs,
               StartStore(r) \/ WriteStore(r) \/ StoreSucceeds(r) \/ StoreFails(r)
               \/ StoreSkipped(r)
        PROVE  WriteInv'
    BY <2>3, StartStoreWrite, WriteStoreWrite, SettleWrite
  <2> QED BY <1>1, <1>3, <2>1, <2>2, <2>3, DisconnectDirectWrite, QuietActionsWrite DEF Next
<1> QED BY <1>2, <1>3

LEMMA WriteInvariant == Spec => []WriteInv
<1>1. WriteInv /\ [](LifecycleInv) /\ [][Next]_vars => []WriteInv
  BY WriteNextInv, PTL
<1> QED BY <1>1, WriteInitInv, LifecycleInvariant, PTL DEF Spec

\* Where what is saved of an object changes.
LEMMA OnlyWriteSaves ==
    ASSUME [Next]_vars, NEW d \in Docs, saved'[d] # saved[d]
    PROVE  \/ \E c \in Connections : CreateDocument(c)
           \/ \E e \in Docs : FetchDocument(e)
           \/ \E r \in Runs : WriteStore(r)
<1>1. saved' # saved
  OBVIOUS
<1> QED
  BY <1>1
  DEF Next, Disconnected, Edit, CloseConnection, CallOnDisconnect, DisconnectDirect,
      CloseConnections, FlushPendingStores, EntryTimerFires, OrphanTimerFires, DocumentLoaded,
      LoadFails, CheckUnload, StartStore, StoreSucceeds, StoreFails, StoreSkipped, SettleStore,
      BeforeUnloadResolves, BeforeUnloadThrows, AfterUnloadResolves, AfterUnloadThrows,
      storeVars, vars

\* What the stores of one object write never goes back (CollabApi.ts:471,
\* saveMutex): whatever is evicted, skipped or fails.
THEOREM StoreDoesNotGoBack == Spec => StoresDoNotGoBack
<1>1. ASSUME LifecycleInv, WriteInv, [Next]_vars
      PROVE  \A d \in Docs : stage[d] # "loading" /\ stage'[d] # "loading" =>
                 saved[d] \subseteq saved'[d]
  <2> SUFFICES ASSUME NEW d \in Docs, stage[d] # "loading", stage'[d] # "loading",
                      saved'[d] # saved[d]
               PROVE  saved[d] \subseteq saved'[d]
    OBVIOUS
  <2>1. TypeOK
    BY <1>1 DEF LifecycleInv
  <2>2. ASSUME NEW c \in Connections, CreateDocument(c) PROVE FALSE
    BY <2>1, <2>2 DEF CreateDocument, LoadDocument, TypeOK
  <2>3. ASSUME NEW e \in Docs, FetchDocument(e) PROVE FALSE
    BY <2>1, <2>3 DEF FetchDocument, TypeOK
  <2>4. ASSUME NEW r \in Runs, WriteStore(r) PROVE saved[d] \subseteq saved'[d]
    BY <1>1, <2>1, <2>4 DEF WriteStore, WriteInv, CaptureIsBetween, TypeOK
  <2> QED BY <1>1, <2>2, <2>3, <2>4, OnlyWriteSaves
<1> QED BY <1>1, LifecycleInvariant, WriteInvariant, PTL DEF Spec, StoresDoNotGoBack

\* Where a connection stops waiting for its store.
LEMMA OnlySettlementResumes ==
    ASSUME LifecycleInv, [Next]_vars, NEW x \in Directs, conn[x] = "storing", conn'[x] # "storing"
    PROVE  \E r \in Runs : StoreSucceeds(r) \/ StoreFails(r) \/ StoreSkipped(r)
<1>1. TypeOK /\ x \in Connections /\ conn' # conn
  BY DEF LifecycleInv, Connections
<1>2. ASSUME NEW c \in Connections, CreateDocument(c) \/ Disconnected(c) PROVE FALSE
  BY <1>1, <1>2 DEF CreateDocument, Disconnected, TypeOK
<1>3. ASSUME NEW c \in Clients, CloseConnection(c) \/ CallOnDisconnect(c) PROVE FALSE
  BY <1>1, <1>3 DEF CloseConnection, CallOnDisconnect, TypeOK
<1>4. ASSUME NEW y \in Directs, DisconnectDirect(y) PROVE FALSE
  BY <1>1, <1>4 DEF DisconnectDirect, TypeOK
<1>5. ASSUME NEW d \in Docs, DocumentLoaded(d) \/ LoadFails(d) PROVE FALSE
  BY <1>1, <1>5 DEF DocumentLoaded, LoadFails
<1>6. ~CloseConnections
  BY <1>1 DEF CloseConnections
<1> QED
  BY <1>1, <1>2, <1>3, <1>4, <1>5, <1>6
  DEF Next, Edit, FlushPendingStores, EntryTimerFires, OrphanTimerFires, FetchDocument,
      CheckUnload, StartStore, WriteStore, BeforeUnloadResolves, BeforeUnloadThrows,
      AfterUnloadResolves, AfterUnloadThrows, connVars, vars

\* When disconnect() of a direct connection goes on, what the document had when it was
\* called is written, unless the store failed (DirectConnection.ts:47-63).
THEOREM StoreDisconnectIsStored == Spec => DisconnectIsStored
<1>1. ASSUME LifecycleInv, WriteInv, [Next]_vars
      PROVE  \A x \in Directs :
                 conn[x] = "storing" /\ conn'[x] # "storing" /\ connDoc[x] \notin failed' =>
                     promised[x] \subseteq saved'[connDoc[x]]
  <2> SUFFICES ASSUME NEW x \in Directs, conn[x] = "storing", conn'[x] # "storing",
                      connDoc[x] \notin failed'
               PROVE  promised[x] \subseteq saved'[connDoc[x]]
    OBVIOUS
  <2>1. PICK r \in Runs : StoreSucceeds(r) \/ StoreFails(r) \/ StoreSkipped(r)
    BY <1>1, OnlySettlementResumes
  <2>2. discRun[x] = r
    BY <1>1, <2>1
    DEF StoreSucceeds, StoreFails, StoreSkipped, SettleStore, ResumeDisconnect, LifecycleInv,
        TypeOK, Connections
  <2>3. /\ runFunc[r] = connDoc[x]
        /\ store[r] = "written" => promised[x] \subseteq saved[connDoc[x]]
    BY <1>1, <2>2 DEF WriteInv, PromiseIsKept
  <2>4. store[r] = "written" /\ saved' = saved
    BY <2>1, <2>3 DEF StoreSucceeds, StoreFails, StoreSkipped, SettleStore
  <2> QED BY <2>3, <2>4
<1> QED BY <1>1, LifecycleInvariant, WriteInvariant, PTL DEF Spec, DisconnectIsStored

-----------------------------------------------------------------------------
(* What the database has, until an eviction or a lost entry.               *)

\* The object in the map has saved, or read, what the database has.
StorageIsSaved ==
    ~evicted /\ ~entryLost =>
        /\ documents # NoDoc => db = saved[documents]
        /\ loading # NoDoc /\ stage[loading] = "ready" => db = saved[loading]

LEMMA EntriesStayLost ==
    ASSUME TypeOK, [Next]_vars, entryLost PROVE entryLost'
<1>1. [DebounceNext]_debounceVars
  BY NextIsDebounceStep
<1> QED
  BY <1>1
  DEF DebounceNext, Debounce, DebounceLater, DebounceNow, OrphanFires, ExecuteNow, TimerFires,
      Finish, Run, DeleteTimer, debounceVars

\* The actions that neither load nor write.
LEMMA KeepsStorage ==
    ASSUME StorageIsSaved, ~evicted, ~entryLost, UNCHANGED <<db, saved>>, TypeOK,
           documents' \in {documents, NoDoc}, loading' \in {loading, NoDoc},
           \A d \in Docs : stage'[d] = "ready" => stage[d] = "ready"
    PROVE  StorageIsSaved'
BY DEF StorageIsSaved, TypeOK

LEMMA QuietActionsKeepStorage ==
    ASSUME StorageIsSaved, ~evicted, ~entryLost, TypeOK,
           \/ UNCHANGED vars
           \/ \E d \in Docs : LoadFails(d) \/ CheckUnload(d) \/ OrphanTimerFires(d)
           \/ \E c \in Clients : CloseConnection(c) \/ CallOnDisconnect(c)
           \/ \E c \in Connections : Disconnected(c) \/ \E u \in Updates : Edit(c, u)
           \/ \E x \in Directs : DisconnectDirect(x)
           \/ \E r \in Runs : StartStore(r) \/ StoreSucceeds(r) \/ StoreFails(r) \/ StoreSkipped(r)
           \/ CloseConnections \/ FlushPendingStores \/ EntryTimerFires
           \/ BeforeUnloadResolves \/ BeforeUnloadThrows
           \/ AfterUnloadResolves \/ AfterUnloadThrows
    PROVE  StorageIsSaved'
<1>1. /\ UNCHANGED <<db, saved>>
      /\ documents' \in {documents, NoDoc} /\ loading' \in {loading, NoDoc}
  BY DEF vars, LoadFails, CheckUnload, OrphanTimerFires, CloseConnection, CallOnDisconnect,
     Disconnected, Edit, DisconnectDirect, StartStore, StoreSucceeds, StoreFails, StoreSkipped,
     SettleStore, CloseConnections, FlushPendingStores, EntryTimerFires, BeforeUnloadResolves,
     BeforeUnloadThrows, AfterUnloadResolves, AfterUnloadThrows, storeVars, mapVars
<1>2. \A d \in Docs : stage'[d] = "ready" => stage[d] = "ready"
  BY DEF vars, LoadFails, CheckUnload, OrphanTimerFires, CloseConnection, CallOnDisconnect,
     Disconnected, Edit, DisconnectDirect, StartStore, StoreSucceeds, StoreFails, StoreSkipped,
     SettleStore, CloseConnections, FlushPendingStores, EntryTimerFires, BeforeUnloadResolves,
     BeforeUnloadThrows, AfterUnloadResolves, AfterUnloadThrows, docVars, TypeOK
<1> QED BY <1>1, <1>2, KeepsStorage

\* Without a lost entry only the object in the map writes.
LEMMA OnlyMappedWrites ==
    ASSUME LifecycleInv, ScheduleInv, ~entryLost, NEW r \in Runs, store[r] # "none"
    PROVE  runFunc[r] = documents /\ documents \in Docs
BY SchedulerFacts DEF LifecycleInv, StoreIsExecution, ScheduleInv, StoresAreMapped

LEMMA StorageNextInv == StoreInv /\ StorageIsSaved /\ [Next]_vars => StorageIsSaved'
<1> SUFFICES ASSUME StoreInv, StorageIsSaved, [Next]_vars, ~evicted', ~entryLost'
             PROVE  StorageIsSaved'
  BY DEF StorageIsSaved
<1>1. LifecycleInv /\ TypeOK
  BY DEF StoreInv, LifecycleInv
<1>2. ~entryLost
  BY <1>1, EntriesStayLost
<1>3. ~evicted
  BY OnlyUnloadEvicts DEF BeforeUnloadResolves, vars, mapVars
<1>4. ScheduleInv
  BY <1>3 DEF StoreInv
<1>5. loading # NoDoc => documents = NoDoc
  BY <1>1 DEF LifecycleInv, MapIsSound
<1>6. ASSUME NEW c \in Connections, CreateDocument(c) PROVE StorageIsSaved'
  BY <1>1, <1>2, <1>3, <1>6, NullAssumption
  DEF CreateDocument, LoadDocument, StorageIsSaved, TypeOK, docVars
<1>7. ASSUME NEW d \in Docs, FetchDocument(d) PROVE StorageIsSaved'
  BY <1>1, <1>5, <1>7, NullAssumption DEF FetchDocument, StorageIsSaved, TypeOK, mapVars
<1>8. ASSUME NEW d \in Docs, DocumentLoaded(d) PROVE StorageIsSaved'
  BY <1>2, <1>3, <1>8, NullAssumption DEF DocumentLoaded, StorageIsSaved, storeVars
<1>9. ASSUME NEW r \in Runs, WriteStore(r) PROVE StorageIsSaved'
  <2>1. runFunc[r] = documents /\ documents \in Docs
    BY <1>1, <1>2, <1>4, <1>9, OnlyMappedWrites DEF WriteStore
  <2>2. documents' = documents /\ loading' = loading /\ loading = NoDoc
    BY <1>5, <1>9, <2>1, NullAssumption DEF WriteStore, mapVars
  <2> QED BY <1>1, <1>9, <2>1, <2>2 DEF WriteStore, StorageIsSaved, TypeOK
<1> QED BY <1>1, <1>2, <1>3, <1>6, <1>7, <1>8, <1>9, QuietActionsKeepStorage DEF Next

\* What an object writes it had saved before, with what is new.
LEMMA StorageGrows ==
    ASSUME StoreInv, WriteInv, StorageIsSaved, [Next]_vars, ~evicted, ~entryLost
    PROVE  db \subseteq db'
<1> SUFFICES ASSUME db' # db PROVE db \subseteq db'
  OBVIOUS
<1>1. LifecycleInv /\ ScheduleInv
  BY DEF StoreInv
<1>2. PICK r \in Runs : WriteStore(r)
  BY
  DEF Next, CreateDocument, Disconnected, Edit, CloseConnection, CallOnDisconnect,
      DisconnectDirect, CloseConnections, FlushPendingStores, EntryTimerFires,
      OrphanTimerFires, FetchDocument, DocumentLoaded, LoadFails, CheckUnload, StartStore,
      StoreSucceeds, StoreFails, StoreSkipped, SettleStore, BeforeUnloadResolves,
      BeforeUnloadThrows, AfterUnloadResolves, AfterUnloadThrows, storeVars, vars
<1>3. runFunc[r] = documents /\ documents \in Docs
  BY <1>1, <1>2, OnlyMappedWrites DEF WriteStore
<1>4. db = saved[runFunc[r]]
  BY <1>3, NullAssumption DEF StorageIsSaved
<1>5. saved[runFunc[r]] \subseteq captured[r]
  BY <1>2 DEF WriteStore, WriteInv, CaptureIsBetween
<1> QED BY <1>2, <1>4, <1>5 DEF WriteStore

LEMMA StorageInvariant == Spec => []StorageIsSaved
<1>1. Init => StorageIsSaved
  BY DEF Init, StorageIsSaved
<1>2. StorageIsSaved /\ []StoreInv /\ [][Next]_vars => []StorageIsSaved
  BY StorageNextInv, PTL
<1> QED BY <1>1, <1>2, StoreInvariant, PTL DEF Spec

\* No store takes out of the database what another had written, in any life of the
\* document (CollabApi.ts:545, extension-database), whatever fails.
THEOREM StoreNothingIsLost == Spec => StoreLosesNothing
<1>1. StoreInv /\ WriteInv /\ StorageIsSaved /\ [Next]_vars =>
        (~evicted /\ ~entryLost => db \subseteq db')
  BY StorageGrows
<1> QED BY <1>1, StoreInvariant, WriteInvariant, StorageInvariant, PTL DEF Spec, StoreLosesNothing

-----------------------------------------------------------------------------
(* What destroy() of the server has seen stored.                           *)

\* The database has what any object that is alive has saved.
SavedIsStored ==
    ~evicted /\ ~entryLost => \A d \in Docs : stage[d] = "ready" => saved[d] \subseteq db

\* What the users of the name have got.
InUse == IF documents = NoDoc THEN {} ELSE content[documents]

\* While no hook has thrown, an update that has been taken is stored or in the map.
AcceptedIsKept ==
    ~evicted /\ ~entryLost /\ failures = 0 => accepted \subseteq db \cup InUse

FailedByFailure == failures = 0 => failed = {}

\* What is inductive for the documents' steps, whoever takes them.
StorageInv == StoreInv /\ WriteInv /\ StorageIsSaved /\ SavedIsStored /\ FailedByFailure

ServerInv == ServerTypeOK /\ StorageInv /\ AcceptedIsKept

\* An object comes alive by reading the database.
LEMMA OnlyFetchReadies ==
    ASSUME TypeOK, [Next]_vars, NEW d \in Docs, stage[d] # "ready", stage'[d] = "ready"
    PROVE  FetchDocument(d)
<1>1. stage \in [Docs -> {"unused", "loading", "ready", "destroyed"}] /\ stage' # stage
  BY DEF TypeOK
<1>2. ASSUME NEW c \in Connections, CreateDocument(c) PROVE FALSE
  BY <1>1, <1>2 DEF CreateDocument, LoadDocument, docVars
<1>3. ASSUME NEW e \in Docs, e # d, FetchDocument(e) PROVE FALSE
  BY <1>1, <1>3 DEF FetchDocument
<1>4. ~BeforeUnloadResolves
  BY <1>1 DEF BeforeUnloadResolves
<1> QED
  BY <1>1, <1>2, <1>3, <1>4
  DEF Next, Disconnected, Edit, CloseConnection, CallOnDisconnect, DisconnectDirect,
      CloseConnections, FlushPendingStores, EntryTimerFires, OrphanTimerFires, DocumentLoaded,
      LoadFails, CheckUnload, StartStore, WriteStore, StoreSucceeds, StoreFails, StoreSkipped,
      SettleStore, BeforeUnloadThrows, AfterUnloadResolves, AfterUnloadThrows, docVars, vars

\* Neither root cause is undone.
LEMMA CausesStay ==
    ASSUME StoreInv, [Next]_vars
    PROVE  (evicted => evicted') /\ (entryLost => entryLost')
<1>1. evicted => evicted'
  BY OnlyUnloadEvicts DEF BeforeUnloadResolves, vars, mapVars
<1>2. entryLost => entryLost'
  BY EntriesStayLost DEF StoreInv, LifecycleInv
<1> QED BY <1>1, <1>2

LEMMA SavedStaysStored ==
    ASSUME StoreInv, WriteInv, StorageIsSaved, SavedIsStored, [Next]_vars
    PROVE  SavedIsStored'
<1> SUFFICES ASSUME ~evicted', ~entryLost', NEW d \in Docs, stage'[d] = "ready"
             PROVE  saved'[d] \subseteq db'
  BY DEF SavedIsStored
<1>1. TypeOK
  BY DEF StoreInv, LifecycleInv
<1>2. ~evicted /\ ~entryLost
  BY CausesStay
<1>3. db \subseteq db'
  BY <1>2, StorageGrows
<1>4. CASE stage[d] # "ready" \/ \E e \in Docs : FetchDocument(e)
  <2>1. PICK e \in Docs : FetchDocument(e)
    BY <1>1, <1>4, OnlyFetchReadies
  <2>2. saved'[d] = (IF d = e THEN db ELSE saved[d]) /\ db' = db
        /\ (d # e => stage[d] = "ready")
    BY <1>1, <2>1 DEF FetchDocument, TypeOK
  <2> QED BY <1>2, <2>2 DEF SavedIsStored
<1>5. CASE stage[d] = "ready" /\ saved'[d] = saved[d]
  BY <1>2, <1>3, <1>5 DEF SavedIsStored
<1>6. ASSUME NEW c \in Connections, CreateDocument(c), saved'[d] # saved[d]
      PROVE  saved'[d] \subseteq db'
  BY <1>1, <1>6 DEF CreateDocument, LoadDocument, TypeOK
<1>7. ASSUME NEW r \in Runs, WriteStore(r), saved'[d] # saved[d]
      PROVE  saved'[d] \subseteq db'
  BY <1>1, <1>7 DEF WriteStore, TypeOK
<1> QED BY <1>4, <1>5, <1>6, <1>7, OnlyWriteSaves

\* A store fails only when a hook throws, and hooks that threw are counted.
LEMMA FailuresStay ==
    ASSUME TypeOK, FailedByFailure, [Next]_vars
    PROVE  FailedByFailure' /\ (failures' = 0 => failures = 0)
<1>1. failures \in Nat /\ (Fail => failures' # 0)
  BY DEF TypeOK, Fail
<1>2. ASSUME NEW r \in Runs, StoreFails(r) \/ StoreSkipped(r) PROVE Fail
  BY <1>2 DEF StoreFails, StoreSkipped
<1>3. ASSUME NEW d \in Docs, LoadFails(d) PROVE Fail
  BY <1>3 DEF LoadFails
<1>4. BeforeUnloadThrows \/ AfterUnloadThrows => Fail
  BY DEF BeforeUnloadThrows, AfterUnloadThrows
<1>5. ASSUME NEW c \in Connections, CreateDocument(c)
      PROVE  failed' \subseteq failed /\ failures' = failures
  BY <1>5 DEF CreateDocument, LoadDocument
<1>6. Fail \/ (failed' \subseteq failed /\ failures' = failures)
  BY <1>2, <1>3, <1>4, <1>5
  DEF Next, Disconnected, Edit, CloseConnection, CallOnDisconnect, DisconnectDirect,
      CloseConnections, FlushPendingStores, EntryTimerFires, OrphanTimerFires, FetchDocument,
      DocumentLoaded, CheckUnload, StartStore, WriteStore, StoreSucceeds, BeforeUnloadResolves,
      AfterUnloadResolves, storeVars, vars
<1> QED BY <1>1, <1>6 DEF FailedByFailure

LEMMA StorageInvNext == StorageInv /\ [Next]_vars => StorageInv'
<1> SUFFICES ASSUME StorageInv, [Next]_vars PROVE StorageInv'
  OBVIOUS
<1>1. LifecycleInv /\ TypeOK
  BY DEF StorageInv, StoreInv, LifecycleInv
<1> QED
  BY <1>1, StoreNextInv, WriteNextInv, StorageNextInv, SavedStaysStored, FailuresStay
  DEF StorageInv

-----------------------------------------------------------------------------
(* The updates that have been taken.                                       *)

\* The content of the object in the map grows; an object that is not there is at most
\* emptied, for its next life.
LEMMA ContentStep ==
    ASSUME StoreInv, ~evicted, [Next]_vars, NEW d \in Docs, stage[d] = "ready",
           content'[d] # content[d]
    PROVE  \/ d = documents /\ content[d] \subseteq content'[d]
           \/ d # documents /\ content'[d] = {}
<1>1. /\ LifecycleInv /\ ScheduleInv /\ TypeOK /\ content' # content
      /\ content \in [Docs -> SUBSET Updates]
  BY DEF StoreInv, LifecycleInv, TypeOK
<1>2. ASSUME NEW c \in Connections, CreateDocument(c)
      PROVE  d # documents /\ content'[d] = {}
  BY <1>1, <1>2, NullAssumption DEF CreateDocument, LoadDocument, docVars
<1>3. ASSUME NEW e \in Docs, FetchDocument(e) PROVE FALSE
  BY <1>1, <1>3 DEF FetchDocument
<1>4. ASSUME NEW c \in Connections, NEW u \in Updates, Edit(c, u)
      PROVE  d = documents /\ content[d] \subseteq content'[d]
  <2>1. /\ content' = [content EXCEPT ![connDoc[c]] = @ \cup {u}]
        /\ conn[c] \notin {"out", "joining"}
    BY <1>4 DEF Edit
  <2>2. d = connDoc[c]
    BY <1>1, <2>1
  <2>3. d = documents
    BY <1>1, <2>1, <2>2 DEF ScheduleInv, HeldIsMapped
  <2> QED BY <1>1, <2>1, <2>2, <2>3
<1> QED
  BY <1>1, <1>2, <1>3, <1>4
  DEF Next, Disconnected, CloseConnection, CallOnDisconnect, DisconnectDirect,
      CloseConnections, FlushPendingStores, EntryTimerFires, OrphanTimerFires, DocumentLoaded,
      LoadFails, CheckUnload, StartStore, WriteStore, StoreSucceeds, StoreFails, StoreSkipped,
      SettleStore, BeforeUnloadResolves, BeforeUnloadThrows, AfterUnloadResolves,
      AfterUnloadThrows, docVars, vars

\* When the object leaves the map, the database has all of it.
LEMMA LeavingIsStored ==
    ASSUME StorageInv, ~evicted', ~entryLost', failures = 0, [Next]_vars,
           documents # NoDoc, documents' # documents
    PROVE  content'[documents] = content[documents] /\ content[documents] \subseteq db'
<1> DEFINE d == documents
<1>1. /\ StoreInv /\ LifecycleInv /\ TypeOK /\ d \in Docs /\ stage[d] = "ready"
      /\ loading = NoDoc /\ failed = {}
  BY DEF StorageInv, StoreInv, LifecycleInv, TypeOK, MapIsSound, FailedByFailure
<1>2. ~evicted /\ ~entryLost
  BY <1>1, CausesStay
<1>3. ASSUME NEW e \in Docs, DocumentLoaded(e) PROVE FALSE
  BY <1>1, <1>3, NullAssumption DEF DocumentLoaded
<1>4. BeforeUnloadResolves
  BY <1>3
  DEF Next, CreateDocument, Disconnected, Edit, CloseConnection, CallOnDisconnect,
      DisconnectDirect, CloseConnections, FlushPendingStores, EntryTimerFires,
      OrphanTimerFires, FetchDocument, LoadFails, CheckUnload, StartStore, WriteStore,
      StoreSucceeds, StoreFails, StoreSkipped, SettleStore, BeforeUnloadThrows,
      AfterUnloadResolves, AfterUnloadThrows, mapVars, vars
<1>5. stage'[d] = "destroyed" /\ content' = content /\ db' = db
  BY <1>1, <1>4 DEF BeforeUnloadResolves, storeVars, TypeOK
<1>6. content[d] = saved[d]
  BY <1>1, <1>2, <1>5, UnloadIsSaved
<1>7. db = saved[d]
  BY <1>2 DEF StorageInv, StorageIsSaved
<1> QED BY <1>5, <1>6, <1>7

LEMMA AcceptedStaysKept ==
    ASSUME StorageInv, AcceptedIsKept, DocumentStep PROVE AcceptedIsKept'
<1> SUFFICES ASSUME ~evicted', ~entryLost', failures' = 0, NEW u \in accepted'
             PROVE  u \in db' \cup InUse'
  BY DEF AcceptedIsKept
<1>1. /\ Next /\ StoreInv /\ LifecycleInv /\ TypeOK
      /\ documents # NoDoc => documents \in Docs /\ stage[documents] = "ready"
  BY DEF DocumentStep, StorageInv, StoreInv, LifecycleInv, TypeOK, MapIsSound
<1>2. ~evicted /\ ~entryLost /\ failures = 0
  BY <1>1, CausesStay, FailuresStay DEF StorageInv
<1>3. db \subseteq db'
  BY <1>1, <1>2, StorageGrows DEF StorageInv
<1>4. ASSUME documents # NoDoc, u \in content[documents] \/ u \in content'[documents]
      PROVE  u \in db' \cup InUse'
  <2>1. CASE documents' = documents
    <3>1. u \in content'[documents]
      BY <1>1, <1>2, <1>4, ContentStep
    <3> QED BY <1>4, <2>1, <3>1 DEF InUse
  <2>2. CASE documents' # documents
    BY <1>1, <1>2, <1>4, <2>2, LeavingIsStored
  <2> QED BY <2>1, <2>2
<1>5. CASE u \in accepted
  BY <1>2, <1>3, <1>4, <1>5 DEF AcceptedIsKept, InUse
<1>6. ASSUME NEW d \in Docs, stage[d] = "ready", u \in content'[d]
      PROVE  u \in db' \cup InUse'
  <2>1. CASE d = documents
    BY <1>4, <1>6, <2>1, NullAssumption
  <2>2. CASE d # documents
    <3>1. content[d] = saved[d]
      BY <1>1, <1>2, <1>6, <2>2 DEF StoreInv, ScheduleInv, UnmappedIsSaved
    <3>2. saved[d] \subseteq db
      BY <1>2, <1>6 DEF StorageInv, SavedIsStored
    <3>3. u \in content[d]
      BY <1>1, <1>2, <1>6, <2>2, ContentStep
    <3> QED BY <1>3, <3>1, <3>2, <3>3
  <2> QED BY <2>1, <2>2
<1> QED BY <1>5, <1>6 DEF DocumentStep

-----------------------------------------------------------------------------
(* destroy().                                                              *)

\* closeConnections and flushPendingStores in one turn keep what holds of the documents.
LEMMA DestroyKeepsStorage ==
    ASSUME StorageInv, NEW k \in Destroys, Destroy(k) PROVE StorageInv'
<1>1. /\ StoreInv /\ WriteInv /\ StorageIsSaved /\ SavedIsStored /\ FailedByFailure
      /\ LifecycleInv /\ TypeOK /\ DebounceInv /\ DebounceTypeOK
  BY DEF StorageInv, StoreInv, LifecycleInv, TypeOK
<1>2. UNCHANGED <<storeVars, connDoc, directVars, mapVars, docVars, checks, failures>>
  BY DEF Destroy
<1>3. UNCHANGED <<store, captured, db, saved, failed, documents, loading, unloading, evicted,
                  stage, content, discRun, promised>>
  BY <1>2 DEF storeVars, directVars, mapVars, docVars
<1>4. CASE NoDocuments
  <2>1. UNCHANGED vars
    BY <1>2, <1>4 DEF Destroy, vars, connVars
  <2> QED BY <2>1, StorageInvNext
<1>5. CASE ~NoDocuments
  <2>1. /\ conn' = [c \in Connections |->
                     IF c \in Clients /\ conn[c] = "in" /\ connDoc[c] = documents
                     THEN "draining" ELSE conn[c]]
        /\ (\E r \in Runs : ExecuteNow(r)) \/ UNCHANGED debounceVars
    BY <1>5 DEF Destroy
  <2>2. DebounceInv'
    BY <1>1, <2>1, DebounceNextInv DEF DebounceNext
  <2>3. \A q \in Runs : runState[q] = "executing" => runState'[q] = "executing"
    BY <1>1, <2>1, CallsKeepExecutions
  <2>4. TypeOK'
    BY <1>1, <1>2, <2>1, <2>2
    DEF TypeOK, DebounceInv, Connections, storeVars, directVars, mapVars, docVars
  <2>5. \A c \in Connections : conn'[c] = "in" => conn[c] = "in"
    BY <1>1, <2>1 DEF TypeOK
  <2>6. LifecycleInv'
    BY <1>1, <1>2, <1>3, <2>2, <2>3, <2>4, <2>5, LeaveStep DEF LifecycleInv, StoreIsExecution
  <2>7. StoreInv'
    <3> SUFFICES ASSUME ~evicted PROVE ScheduleInv'
      BY <1>3, <2>6 DEF StoreInv
    <3>1. SchedulerStep
      BY <1>1, <1>3, <2>1, EntryKeepsSchedule, UnchangedKeepsSchedule DEF StoreInv
    <3>2. \A q \in Runs : store[q] = "storing" => runFunc'[q] = runFunc[q]
      BY <1>1, <2>1, RunKeepsStores DEF ExecuteNow, debounceVars
    <3>3. \A c \in Connections : conn'[c] \notin {"out", "joining"} =>
             conn[c] \notin {"out", "joining"} /\ connDoc'[c] = connDoc[c]
      BY <1>2, <2>1
    <3> QED BY <1>1, <1>2, <1>3, <2>6, <3>1, <3>2, <3>3, ScheduleStep
  <2>8. WriteInv'
    <3>1. HeldCall
      BY <2>1 DEF HeldCall
    <3>2. \A x \in Directs : conn'[x] = "storing" =>
             conn[x] = "storing" /\ connDoc'[x] = connDoc[x]
      BY <1>2, <2>1 DEF Connections
    <3> QED BY <1>1, <1>2, <1>3, <2>6, <3>1, <3>2, QuietWrite
  <2>9. entryLost => entryLost'
    BY <2>1 DEF ExecuteNow, Run, DeleteTimer, debounceVars
  <2>10. StorageIsSaved'
    BY <1>1, <1>3, <2>9 DEF StorageIsSaved
  <2>11. SavedIsStored'
    BY <1>1, <1>3, <2>9 DEF SavedIsStored
  <2>12. FailedByFailure'
    BY <1>1, <1>2, <1>3 DEF FailedByFailure
  <2> QED BY <2>7, <2>8, <2>10, <2>11, <2>12 DEF StorageInv
<1> QED BY <1>4, <1>5

LEMMA ServerInitInv == ServerInit => ServerInv
<1> SUFFICES ASSUME ServerInit PROVE ServerInv
  OBVIOUS
<1>1. Init /\ accepted = {} /\ heard = {} /\ destroying = [k \in Destroys |-> "no"]
  BY DEF ServerInit
<1>2. StoreInv /\ WriteInv /\ TypeOK
  BY <1>1, StoreInitInv, WriteInitInv DEF StoreInv, LifecycleInv
<1>3. StorageIsSaved /\ SavedIsStored /\ FailedByFailure
  BY <1>1 DEF Init, StorageIsSaved, SavedIsStored, FailedByFailure
<1> QED BY <1>1, <1>2, <1>3 DEF ServerInv, ServerTypeOK, StorageInv, AcceptedIsKept

LEMMA ServerNextInv == ServerInv /\ [ServerNext]_allVars => ServerInv'
<1> SUFFICES ASSUME ServerInv, [ServerNext]_allVars PROVE ServerInv'
  OBVIOUS
<1>1. StorageInv /\ AcceptedIsKept /\ ServerTypeOK
  BY DEF ServerInv
<1>2. StorageInv' => TypeOK'
  BY DEF StorageInv, StoreInv, LifecycleInv
<1>3. CASE DocumentStep
  <2>1. StorageInv'
    BY <1>1, <1>3, StorageInvNext DEF DocumentStep
  <2>2. AcceptedIsKept'
    BY <1>1, <1>3, AcceptedStaysKept
  <2>3. ServerTypeOK'
    BY <1>1, <1>2, <1>3, <2>1 DEF ServerTypeOK, DocumentStep, AfterUnloadDocument
  <2> QED BY <2>1, <2>2, <2>3 DEF ServerInv
<1>4. ASSUME NEW k \in Destroys, Destroy(k) PROVE ServerInv'
  <2>1. StorageInv'
    BY <1>1, <1>4, DestroyKeepsStorage
  <2>2. /\ UNCHANGED <<db, content, documents, evicted, failures, accepted, heard>>
        /\ entryLost => entryLost'
    BY <1>4
    DEF Destroy, storeVars, docVars, mapVars, ExecuteNow, Run, DeleteTimer, debounceVars
  <2>3. AcceptedIsKept'
    BY <1>1, <2>2 DEF AcceptedIsKept, InUse
  <2>4. ServerTypeOK'
    BY <1>1, <1>2, <1>4, <2>1, <2>2 DEF ServerTypeOK, Destroy
  <2> QED BY <2>1, <2>3, <2>4 DEF ServerInv
<1>5. ASSUME UNCHANGED vars, UNCHANGED accepted, ServerTypeOK' PROVE ServerInv'
  <2>1. StorageInv'
    BY <1>1, <1>5, StorageInvNext
  <2>2. UNCHANGED <<db, content, documents, evicted, failures, entryLost>>
    BY <1>5 DEF vars, storeVars, docVars, mapVars, debounceVars
  <2> QED BY <1>1, <1>5, <2>1, <2>2 DEF ServerInv, AcceptedIsKept, InUse
<1>6. ASSUME NEW k \in Destroys, Destroyed(k) PROVE ServerInv'
  <2>1. UNCHANGED vars /\ UNCHANGED accepted /\ UNCHANGED heard
    BY <1>6 DEF Destroyed
  <2>2. StorageInv'
    BY <1>1, <2>1, StorageInvNext
  <2>3. ServerTypeOK'
    BY <1>1, <1>2, <1>6, <2>1, <2>2 DEF ServerTypeOK, Destroyed
  <2> QED BY <1>5, <2>1, <2>3
<1>7. CASE UNCHANGED allVars
  <2>1. UNCHANGED vars /\ UNCHANGED <<destroying, heard, accepted>>
    BY <1>7 DEF allVars, serverVars
  <2>2. StorageInv'
    BY <1>1, <2>1, StorageInvNext
  <2>3. ServerTypeOK'
    BY <1>1, <1>2, <2>1, <2>2 DEF ServerTypeOK
  <2> QED BY <1>5, <2>1, <2>3
<1> QED BY <1>3, <1>4, <1>6, <1>7 DEF ServerNext

LEMMA ServerInvariant == ServerSpec => []ServerInv
<1> QED BY ServerInitInv, ServerNextInv, PTL DEF ServerSpec

\* The types of the server's variables and of the documents' (Server.ts:190-223).
THEOREM ShutdownTypeOK == ServerSpec => []ServerTypeOK
<1>1. ServerInv => ServerTypeOK
  BY DEF ServerInv
<1> QED BY <1>1, ServerInvariant, PTL

\* Closing every connection and flushing the stores in one turn breaks nothing that the
\* documents promise their users (Server.ts:200-223, CollabApi.ts:198-262).
THEOREM ShutdownKeepsDocuments ==
    ServerSpec => [](AttachedIsReady /\ AttachedIsMappedUntilEviction /\ UnsavedIsScheduled)
<1>1. ServerInv => AttachedIsReady /\ AttachedIsMappedUntilEviction /\ UnsavedIsScheduled
  BY DEF ServerInv, StorageInv, StoreInv, LifecycleInv, ScheduleInv, UnsavedIsScheduled
<1> QED BY <1>1, ServerInvariant, PTL

\* When destroy() goes on to the onDestroy hooks, every update that a document has taken is
\* in the database (Server.ts:204-214), for any number of calls, documents and connections.
THEOREM ShutdownDestroyIsStored == ServerSpec => DestroyIsStored
<1>1. ASSUME ServerInv, ServerInv', [ServerNext]_allVars
      PROVE  \A k \in Destroys :
                destroying[k] # "resolved" /\ destroying'[k] = "resolved"
                /\ ~evicted' /\ ~entryLost' /\ failures = 0 =>
                    accepted \subseteq db
  <2> SUFFICES ASSUME NEW k \in Destroys, destroying[k] # "resolved",
                      destroying'[k] = "resolved", ~evicted', ~entryLost', failures = 0
               PROVE  accepted \subseteq db
    OBVIOUS
  <2>1. ServerTypeOK /\ StorageInv /\ StoreInv /\ AcceptedIsKept
    BY <1>1 DEF ServerInv, StorageInv
  <2>2. NoDocuments => (~evicted /\ ~entryLost => accepted \subseteq db)
    BY <2>1 DEF NoDocuments, AcceptedIsKept, InUse
  <2>3. CASE DocumentStep
    <3>1. NoDocuments
      BY <2>3 DEF DocumentStep, AfterUnloadDocument
    <3>2. ~evicted /\ ~entryLost
      BY <2>1, <2>3, CausesStay DEF DocumentStep
    <3> QED BY <2>2, <3>1, <3>2
  <2>4. ASSUME NEW j \in Destroys, Destroy(j) PROVE accepted \subseteq db
    <3>1. NoDocuments
      BY <2>1, <2>4 DEF Destroy, ServerTypeOK
    <3>2. ~evicted /\ ~entryLost
      BY <2>4, <3>1 DEF Destroy, mapVars, debounceVars
    <3> QED BY <2>2, <3>1, <3>2
  <2>5. ASSUME NEW j \in Destroys, Destroyed(j) PROVE FALSE
    BY <2>1, <2>5 DEF Destroyed, ServerTypeOK
  <2>6. CASE UNCHANGED allVars
    BY <2>6 DEF allVars, serverVars
  <2> QED BY <1>1, <2>3, <2>4, <2>5, <2>6 DEF ServerNext
<1> QED BY <1>1, ServerInvariant, PTL DEF ServerSpec, DestroyIsStored
=============================================================================
