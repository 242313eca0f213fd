------------------------------ MODULE Debounce ------------------------------
(***************************************************************************)
(* packages/server/src/util/debounce.ts, for ONE id of its two maps (every *)
(* operation touches a single id, so ids do not interact).                 *)
(*                                                                         *)
(* The only caller is CollabApi.storeDocumentHooks, whose closure is       *)
(* determined by the Document object it stores: `func' is that object.     *)
(* Two objects may share an id, because the id is the document's NAME.     *)
(*                                                                         *)
(* JavaScript runs a callback and the promise reactions it triggers to     *)
(* completion before the next timer or I/O event: one such turn is one     *)
(* step here.                                                              *)
(***************************************************************************)
EXTENDS Naturals

CONSTANTS
    Docs,   \* the closures that may be debounced, one per Document object
    NoDoc, NoRun,
    Runs,       \* bound: invocations of run() in progress at the same time
    MaxOrphans  \* bound: timeouts of a closure that lost their entry

ASSUME NullAssumption == NoDoc \notin Docs /\ NoRun \notin Runs
ASSUME MaxOrphansAssumption == MaxOrphans \in Nat

VARIABLES
    timer,      \* timers.get(id): the closure, and whether its timeout is still to fire
    orphans,    \* timeouts of each closure that are still to fire and have no entry in timers
    runState,   \* progress of each invocation of run()
    runFunc,    \* the closure an invocation belongs to
    awaits,     \* the execution an invocation waits for (line 27)
    running,    \* runningExecutions.get(id): the invocation that set it
    entryLost   \* auxiliary: some timeout has lost its entry while armed

debounceVars == <<timer, orphans, runState, runFunc, awaits, running, entryLost>>

NoTimer == [func |-> NoDoc, armed |-> FALSE]

DebounceTypeOK ==
    /\ timer \in [func : Docs, armed : BOOLEAN] \cup {NoTimer}
    /\ orphans \in [Docs -> Nat]
    /\ runState \in [Runs -> {"idle", "waiting", "executing"}]
    /\ runFunc \in [Runs -> Docs \cup {NoDoc}]
    /\ \A r \in Runs : runState[r] # "idle" => runFunc[r] \in Docs
    /\ awaits \in [Runs -> Runs \cup {NoRun}]
    /\ running \in Runs \cup {NoRun}
    /\ entryLost \in BOOLEAN

DebounceInit ==
    /\ timer = NoTimer
    /\ orphans = [d \in Docs |-> 0]
    /\ runState = [r \in Runs |-> "idle"]
    /\ runFunc = [r \in Runs |-> NoDoc]
    /\ awaits = [r \in Runs |-> NoRun]
    /\ running = NoRun
    /\ entryLost = FALSE

IsDebounced == timer # NoTimer
IsCurrentlyExecuting == running # NoRun

\* clearTimeout leaves the entry in the map.
Cleared(entry) == [func |-> entry.func, armed |-> FALSE]

\* Mutant: timers.delete(id) is missing.
DeleteTimerForgotten(entry, orph) ==
    timer' = entry /\ orphans' = orph /\ UNCHANGED entryLost

\* timers.delete(id) leaves the timeout of the entry armed: it is an orphan.
DeleteTimer(entry, orph) ==
    /\ timer' = NoTimer
    /\ orphans' = IF entry.armed THEN [orph EXCEPT ![entry.func] = @ + 1] ELSE orph
    /\ entryLost' = (entryLost \/ entry.armed)

Waiters(r) == {q \in Runs : runState[q] = "waiting" /\ awaits[q] = r}

\* run() waits once, for the execution it finds; else it executes at once.
Run(r, d, entry, orph) ==
    /\ runState[r] = "idle"
    /\ runFunc' = [runFunc EXCEPT ![r] = d]
    /\ \/ /\ IsCurrentlyExecuting
          /\ runState' = [runState EXCEPT ![r] = "waiting"]
          /\ awaits' = [awaits EXCEPT ![r] = running]
          /\ timer' = entry
          /\ orphans' = orph
          /\ UNCHANGED <<running, entryLost>>
       \/ /\ ~IsCurrentlyExecuting
          /\ runState' = [runState EXCEPT ![r] = "executing"]
          /\ DeleteTimer(entry, orph)
          /\ running' = r
          /\ UNCHANGED awaits

\* debounce(id, func, 0, max), or a call that finds the entry maxDebounce old.
DebounceNow(r, d) == Run(r, d, Cleared(timer), orphans)

\* debounce(id, func, ms, max): the old timeout is replaced by a new one.
DebounceLater(d) ==
    /\ orphans[d] < MaxOrphans
    /\ timer' = [func |-> d, armed |-> TRUE]
    /\ UNCHANGED <<orphans, runState, runFunc, awaits, running, entryLost>>

\* The age of the entry is not modelled: any entry may have reached maxDebounce.
Debounce(d) ==
    \/ DebounceLater(d)
    \/ IsDebounced /\ \E r \in Runs : DebounceNow(r, d)

\* Mutant: executeNow clears the timeout and does not call the function.
ExecuteNowOnlyClears(r) ==
    /\ IsDebounced /\ runState[r] = "idle"
    /\ timer' = Cleared(timer)
    /\ UNCHANGED <<orphans, runState, runFunc, awaits, running, entryLost>>

ExecuteNow(r) == IsDebounced /\ Run(r, timer.func, Cleared(timer), orphans)

\* The timeout of the entry fires; the entry stays until run() deletes it.
TimerFires(r) == timer.armed /\ Run(r, timer.func, Cleared(timer), orphans)

OrphanFires(r, d) ==
    /\ orphans[d] > 0
    /\ Run(r, d, timer, [orphans EXCEPT ![d] = @ - 1])

\* Mutant: runningExecutions.delete(id) is missing.
FinishStillRunning(r) ==
    /\ runState[r] = "executing"
    /\ runState' = [runState EXCEPT ![r] = "idle"]
    /\ runFunc' = [runFunc EXCEPT ![r] = NoDoc]
    /\ UNCHANGED <<timer, orphans, awaits, running, entryLost>>

\* The execution settles.  Its own run() deletes the id from runningExecutions
\* first; then every invocation that awaits it goes on, in the same turn and
\* without looking again, and the last of them is left in runningExecutions.
Finish(r) ==
    /\ runState[r] = "executing"
    /\ runState' = [q \in Runs |-> IF q = r THEN "idle"
                                   ELSE IF q \in Waiters(r) THEN "executing"
                                   ELSE runState[q]]
    /\ runFunc' = [runFunc EXCEPT ![r] = NoDoc]
    /\ awaits' = [q \in Runs |-> IF q \in Waiters(r) THEN NoRun ELSE awaits[q]]
    /\ \/ /\ Waiters(r) = {}
          /\ running' = NoRun
          /\ UNCHANGED <<timer, orphans, entryLost>>
       \/ /\ running' \in Waiters(r)
          /\ DeleteTimer(timer, orphans)

DebounceNext ==
    \/ \E d \in Docs : Debounce(d)
    \/ \E r \in Runs, d \in Docs : DebounceNow(r, d) \/ OrphanFires(r, d)
    \/ \E r \in Runs : ExecuteNow(r) \/ TimerFires(r) \/ Finish(r)

DebounceSpec == DebounceInit /\ [][DebounceNext]_debounceVars

-----------------------------------------------------------------------------
\* No wake-up is lost: what an invocation waits for is still executing, and
\* what runningExecutions holds is an execution in progress (a settled promise
\* left there would make isCurrentlyExecuting true for ever, lines 27-36).
NoLostWakeup ==
    /\ \A r \in Runs : runState[r] = "waiting" =>
         awaits[r] \in Runs /\ runState[awaits[r]] = "executing"
    /\ IsCurrentlyExecuting => runState[running] = "executing"

\* An entry whose timeout has fired or was cleared is deleted by an invocation
\* that is still waiting; without one isDebounced would be true for ever and
\* the document could never be unloaded (lines 30, 41-50, 60-66).
DeadEntryIsDeleted ==
    IsDebounced /\ ~timer.armed => \E r \in Runs : runState[r] = "waiting"
=============================================================================
