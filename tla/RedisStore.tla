----------------------------- MODULE RedisStore -----------------------------
(***************************************************************************)
(* packages/extension-redis/src/Redis.ts: one document on several          *)
(* instances of the server, which exchange its updates over a Redis        *)
(* channel and take a Redis lock when they store it.  The hooks are called *)
(* by the document's life cycle (module DocumentLifecycle), of which this  *)
(* module keeps loading, the debounced store and unloading.                *)
(*                                                                         *)
(* A copy is the set of updates it has, as in module Provider; the storage *)
(* is written as a whole (extension-database).                             *)
(***************************************************************************)
EXTENDS Naturals, Sequences

CONSTANTS
    Instances,
    NoInstance,
    Updates,
    OtherHooks,          \* another extension has an afterLoadDocument hook
    MaxLoads,            \* bound: how often the document is loaded
    MaxFailures,         \* bound: how often a store fails
    MaxExpiries          \* bound: how often the lock of a running store expires

ASSUME RedisStoreAssumption ==
    /\ NoInstance \notin Instances
    /\ OtherHooks \in BOOLEAN
    /\ MaxLoads \in Nat /\ MaxFailures \in Nat /\ MaxExpiries \in Nat

VARIABLES
    phase,      \* of the document on each instance
    client,     \* the instance has a client
    doc,        \* the copy of each instance
    pending,    \* a store is scheduled
    storing,    \* a store is running: between the lock and the write
    snapshot,   \* what it writes
    lock,       \* who holds the lock in Redis
    storage,
    inbox,      \* messages of the subscription that are in transit
    made,       \* auxiliary: the updates of clients so far
    dropped,    \* auxiliary: a message came before the document was in `documents'
    sound,      \* auxiliary: the running store began when nothing was in transit, and
                \* its lock has not expired since
    lossy,      \* auxiliary: a store has failed, has been skipped although no running one
                \* has its updates, or has overwritten an update
    loads, failures, expiries

copyVars == <<phase, client, doc, inbox, made, dropped, loads>>
storeVars == <<pending, storing, snapshot, lock, storage, sound, lossy, failures, expiries>>
vars == <<copyVars, storeVars>>

Message == [type : {"step1", "reply1", "step2"}, data : SUBSET Updates]
Msg(type, data) == [type |-> type, data |-> data]

\* "loaded": the storage has been read; "subscribed": the hooks of other extensions
\* run; "ready": in `documents'; "unloading": beforeUnloadDocument delays.
Phases == {"none", "loaded", "subscribed", "ready", "unloading"}

TypeOK ==
    /\ phase \in [Instances -> Phases]
    /\ client \in [Instances -> BOOLEAN] /\ pending \in [Instances -> BOOLEAN]
    /\ storing \in [Instances -> BOOLEAN]
    /\ doc \in [Instances -> SUBSET Updates] /\ snapshot \in [Instances -> SUBSET Updates]
    /\ lock \in Instances \cup {NoInstance} /\ storage \subseteq made /\ made \subseteq Updates
    /\ \A i \in Instances :
         /\ inbox[i] \in Seq(Message) /\ doc[i] \subseteq made
         /\ phase[i] = "none" => ~client[i] /\ ~pending[i] /\ ~storing[i] /\ inbox[i] = <<>>
    /\ dropped \in BOOLEAN /\ sound \in [Instances -> BOOLEAN] /\ lossy \in BOOLEAN
    /\ loads \in 0 .. MaxLoads /\ failures \in 0 .. MaxFailures /\ expiries \in 0 .. MaxExpiries

Init ==
    /\ phase = [i \in Instances |-> "none"]
    /\ client = [i \in Instances |-> FALSE]
    /\ doc = [i \in Instances |-> {}] /\ snapshot = [i \in Instances |-> {}]
    /\ pending = [i \in Instances |-> FALSE] /\ storing = [i \in Instances |-> FALSE]
    /\ lock = NoInstance /\ storage = {} /\ made = {} /\ dropped = FALSE
    /\ inbox = [i \in Instances |-> <<>>]
    /\ sound = [i \in Instances |-> FALSE] /\ lossy = FALSE
    /\ loads = 0 /\ failures = 0 /\ expiries = 0

-----------------------------------------------------------------------------
InDocuments(i) == phase[i] \in {"ready", "unloading"}
Subscribed(i) == InDocuments(i) \/ phase[i] = "subscribed"

\* publish: every other subscriber gets the messages, in this order.
Published(box, i, messages) ==
    [j \in Instances |-> IF j # i /\ Subscribed(j) THEN box[j] \o messages ELSE box[j]]

\* Nothing is in transit, and no instance is loading.
Quiet == \A i \in Instances : inbox[i] = <<>> /\ phase[i] \notin {"loaded", "subscribed"}

\* A client connects and the document is loaded, or found in memory.
Connect(i) ==
    /\ ~client[i] /\ client' = [client EXCEPT ![i] = TRUE]
    /\ IF phase[i] = "none"
       THEN /\ loads < MaxLoads /\ loads' = loads + 1
            /\ phase' = [phase EXCEPT ![i] = "loaded"]
            /\ doc' = [doc EXCEPT ![i] = storage]
       ELSE UNCHANGED <<phase, doc, loads>>
    /\ UNCHANGED <<inbox, made, dropped, storeVars>>

\* publishFirstSyncStep
FirstSyncStep(copy) == <<Msg("step1", copy)>>

\* afterLoadDocument
Subscribe(i) ==
    /\ phase[i] = "loaded"
    /\ phase' = [phase EXCEPT ![i] = IF OtherHooks THEN "subscribed" ELSE "ready"]
    /\ inbox' = Published(inbox, i, FirstSyncStep(doc[i]))
    /\ UNCHANGED <<client, doc, made, dropped, loads, storeVars>>

\* The other hooks resolve: documents.set.
IsReady(i) ==
    /\ phase[i] = "subscribed" /\ phase' = [phase EXCEPT ![i] = "ready"]
    /\ UNCHANGED <<client, doc, inbox, made, dropped, loads, storeVars>>

\* A client's update: onChange, and the store is scheduled.
Edit(i, u) ==
    /\ client[i] /\ InDocuments(i) /\ u \notin made /\ made' = made \cup {u}
    /\ doc' = [doc EXCEPT ![i] = @ \cup {u}]
    /\ inbox' = Published(inbox, i, FirstSyncStep(doc'[i]))
    /\ pending' = [pending EXCEPT ![i] = TRUE]
    /\ UNCHANGED <<phase, client, dropped, loads, storing, snapshot, lock, storage, sound, lossy>>
    /\ UNCHANGED <<failures, expiries>>

\* Mutant: a step 1 is answered, but nothing is asked for.
RepliesWithoutStep1(i, m) ==
    IF m.type = "step2" THEN <<>> ELSE <<Msg("step2", doc[i] \ m.data)>>

\* MessageReceiver.apply with a reply function.
Replies(i, m) ==
    CASE m.type = "step1" -> <<Msg("reply1", doc[i]), Msg("step2", doc[i] \ m.data)>>
      [] m.type = "reply1" -> <<Msg("step2", doc[i] \ m.data)>>
      [] m.type = "step2" -> <<>>

\* handleIncomingMessage: dropped if the document is not in `documents'.  What it
\* applies has the origin "redis": neither published nor stored from here.
Deliver(i) ==
    LET m == Head(inbox[i])
        box == [inbox EXCEPT ![i] = Tail(@)]
    IN
    /\ inbox[i] # <<>>
    /\ inbox' = IF InDocuments(i) THEN Published(box, i, Replies(i, m)) ELSE box
    /\ doc' = IF InDocuments(i) /\ m.type = "step2" THEN [doc EXCEPT ![i] = @ \cup m.data]
              ELSE doc
    /\ dropped' = (dropped \/ ~InDocuments(i))
    /\ UNCHANGED <<phase, client, made, loads, storeVars>>

\* unloadDocument when nothing is left to do: it awaits beforeUnloadDocument.
PhaseAfter(i, hasClient, hasPending) ==
    IF phase[i] = "ready" /\ ~hasClient /\ ~hasPending
    THEN [phase EXCEPT ![i] = "unloading"] ELSE phase

\* The client leaves.
Disconnect(i) ==
    /\ client[i] /\ InDocuments(i) /\ client' = [client EXCEPT ![i] = FALSE]
    /\ phase' = PhaseAfter(i, FALSE, pending[i] \/ storing[i])
    /\ UNCHANGED <<doc, inbox, made, dropped, loads, storeVars>>

\* Mutant: only the clients are counted again.
StillUsedByClient(i) == client[i]

\* shouldUnloadDocument, when it is asked again.
StillUsed(i) == client[i] \/ pending[i] \/ storing[i]

\* The delay is over: it is checked again, and afterUnloadDocument unsubscribes.
\* disconnectDelay, which is there "to allow last minute syncs" (Redis.ts:79), is
\* taken to be longer than a delivery and a load.
UnloadEnds(i) ==
    /\ phase[i] = "unloading" /\ Quiet
    /\ IF StillUsed(i)
       THEN phase' = [phase EXCEPT ![i] = "ready"] /\ UNCHANGED <<doc, snapshot>>
       ELSE /\ phase' = [phase EXCEPT ![i] = "none"]
            /\ doc' = [doc EXCEPT ![i] = {}]
            /\ snapshot' = [snapshot EXCEPT ![i] = {}]
    /\ UNCHANGED <<client, inbox, made, dropped, loads, pending, storing, lock, storage, sound, lossy>>
    /\ UNCHANGED <<failures, expiries>>

-----------------------------------------------------------------------------
\* Mutant: the lock is not needed.
AcquiredAlways(i) == TRUE

\* redlock.acquire without retries.
Acquired(i) == lock = NoInstance

\* What the storage has, or will have when the running stores have ended.
StoredOrWritten == storage \cup UNION {snapshot[j] : j \in {k \in Instances : storing[k]}}

\* onStoreDocument, at any time: after a debounce, when maxDebounce is over, when the
\* last client has left, for a direct connection or a flush.  With the lock the
\* following hook takes its snapshot; without it the store is skipped.
StoreStarts(i) ==
    /\ pending[i] /\ ~storing[i] /\ InDocuments(i)
    /\ pending' = [pending EXCEPT ![i] = FALSE]
    /\ IF Acquired(i)
       THEN /\ lock' = i
            /\ storing' = [storing EXCEPT ![i] = TRUE]
            /\ snapshot' = [snapshot EXCEPT ![i] = doc[i]]
            /\ sound' = [sound EXCEPT ![i] = Quiet]
            /\ UNCHANGED <<phase, lossy>>
       ELSE /\ phase' = PhaseAfter(i, client[i], FALSE)
            /\ lossy' = (lossy \/ ~(doc[i] \subseteq StoredOrWritten))
            /\ UNCHANGED <<lock, storing, snapshot, sound>>
    /\ UNCHANGED <<client, doc, inbox, made, dropped, loads, storage, failures, expiries>>

\* The storage has been written, and afterStoreDocument releases the lock, if it
\* is still held.
StoreEnds(i) ==
    /\ storing[i] /\ storing' = [storing EXCEPT ![i] = FALSE]
    /\ storage' = snapshot[i] /\ lossy' = (lossy \/ ~(storage \subseteq snapshot[i]))
    /\ lock' = IF lock = i THEN NoInstance ELSE lock
    /\ sound' = [sound EXCEPT ![i] = FALSE]
    /\ phase' = PhaseAfter(i, client[i], pending[i])
    /\ UNCHANGED <<client, doc, inbox, made, dropped, loads, pending, snapshot, failures, expiries>>

\* A later hook throws: no afterStoreDocument, the lock is left, and the document
\* stays in memory.
StoreFails(i) ==
    /\ storing[i] /\ failures < MaxFailures /\ failures' = failures + 1
    /\ storing' = [storing EXCEPT ![i] = FALSE]
    /\ sound' = [sound EXCEPT ![i] = FALSE] /\ lossy' = TRUE
    /\ UNCHANGED <<copyVars, pending, snapshot, lock, storage, expiries>>

\* lockTimeout: nothing extends the lock of a store that takes longer.
LockExpires ==
    /\ lock # NoInstance /\ lock' = NoInstance
    /\ IF storing[lock] THEN expiries < MaxExpiries /\ expiries' = expiries + 1
       ELSE UNCHANGED expiries
    /\ sound' = [sound EXCEPT ![lock] = FALSE]
    /\ UNCHANGED <<copyVars, pending, storing, snapshot, storage, lossy, failures>>

Next ==
    \/ \E i \in Instances :
         \/ Connect(i) \/ Subscribe(i) \/ IsReady(i) \/ Deliver(i) \/ Disconnect(i)
         \/ UnloadEnds(i) \/ StoreStarts(i) \/ StoreEnds(i) \/ StoreFails(i)
         \/ \E u \in Updates : Edit(i, u)
    \/ LockExpires

Spec == Init /\ [][Next]_vars

\* Messages are delivered, loads and stores end, and locks are released or expire.
FairSpec ==
    /\ Spec
    /\ \A i \in Instances :
         WF_vars(Deliver(i)) /\ WF_vars(Subscribe(i)) /\ WF_vars(IsReady(i))
         /\ WF_vars(StoreEnds(i) \/ StoreFails(i)) /\ WF_vars(StoreStarts(i))
         /\ WF_vars(UnloadEnds(i))
    /\ WF_vars(LockExpires)

-----------------------------------------------------------------------------
\* "syncs updates between servers and clients" (tests/extension-redis/onChange.ts:9):
\* when nothing is in transit all instances have the same copy, although they
\* load, edit and unload at any time, and each message is handled on its own;
\* unless replies came too early (RepliesAreHeard).
QuietAgree ==
    (Quiet /\ ~dropped) => \A i, j \in Instances : (InDocuments(i) /\ InDocuments(j)) => doc[i] = doc[j]

\* The same with replies that come before the document is in `documents', while the
\* afterLoadDocument hooks of other extensions run: those are lost.
RepliesAreHeard ==
    Quiet => \A i, j \in Instances : (InDocuments(i) /\ InDocuments(j)) => doc[i] = doc[j]

\* The lock is "meant to avoid conflicts with other instances trying to store the document"
\* (Redis.ts:248): one instance stores at a time.  It does not, when a store takes longer
\* than lockTimeout.
OneStorer == \A i, j \in Instances : (storing[i] /\ storing[j]) => i = j

\* "stores documents without conflicts" (tests/extension-redis/onStoreDocument.ts:8): a
\* store that began when nothing was in transit, and keeps its lock to the end, overwrites
\* no update that the storage has by then, whichever stores that began too early, have
\* outlived their lock or have failed come before it or end during it; unless replies came
\* too early and the copies differ.
StorageKeeps ==
    [][\A i \in Instances : (sound[i] /\ storing[i] /\ ~storing'[i] /\ ~dropped) =>
          storage \subseteq storage']_vars

\* The same of every store.
StoresWithoutConflicts == [][storage \subseteq storage']_storage

\* No edit is forgotten: when no store is scheduled or running any more, every update
\* of a client is stored, also if its instance has been unloaded since, or could not
\* store it because another instance was storing; unless a store has failed or
\* overwritten an update, or was skipped while no running store had its updates.
EditsAreStored ==
    (~lossy /\ \A i \in Instances : ~pending[i] /\ ~storing[i]) => made \subseteq storage

\* "the data is safe on the other instance" (Redis.ts:270): when nothing is
\* scheduled or running any more, what the instances have is stored.
IdleIsStored ==
    (Quiet /\ failures = 0 /\ \A i \in Instances : ~pending[i] /\ ~storing[i]) =>
        \A i \in Instances : InDocuments(i) => doc[i] \subseteq storage

\* "Could not acquire lock, another instance locked it already" (Redis.ts:269): a
\* store is skipped only while another instance is storing.
SkippedForAnother ==
    [][\A i \in Instances : (pending[i] /\ ~pending'[i] /\ ~storing'[i]) =>
          \E j \in Instances \ {i} : storing[j]]_vars

=============================================================================
