------------------------------- MODULE Shutdown -------------------------------
(***************************************************************************)
(* packages/server/src/Server.ts: destroy(), on top of the life of the     *)
(* documents.  destroy() stops the HTTP server, pushes an extension whose  *)
(* afterUnloadDocument hook resolves once no document is left, closes the  *)
(* connections, flushes the pending stores, and waits; then it calls the   *)
(* onDestroy hooks, after which the signal handler ends the process.       *)
(*                                                                         *)
(* A hook's chain is built when the hook is called: a chain that is under  *)
(* way does not have an extension that is pushed later.  Websockets stay   *)
(* open, so that documents may be asked for all along.                     *)
(***************************************************************************)
EXTENDS DocumentLifecycle

CONSTANT Destroys       \* the calls of destroy()

VARIABLES
    destroying,  \* how far each call is
    heard,       \* the calls whose extension is in the chain of afterUnloadDocument
    accepted     \* auxiliary: the updates that a document in use has taken

serverVars == <<destroying, heard, accepted>>
allVars == <<vars, serverVars>>

ServerTypeOK ==
    /\ TypeOK
    /\ destroying \in [Destroys -> {"no", "waiting", "resolved", "done"}]
    /\ heard \subseteq Destroys /\ accepted \subseteq Updates

ServerInit ==
    /\ Init
    /\ destroying = [k \in Destroys |-> "no"] /\ heard = {} /\ accepted = {}

\* Mutant: a server without connections is taken for one without documents.
NoConnections == \A c \in Connections : conn[c] # "in"

\* getDocumentsCount() === 0
NoDocuments == documents = NoDoc

-----------------------------------------------------------------------------
\* Mutant: the count is left to the hook.
DestroyNotCounting(k) ==
    /\ destroying[k] = "no"
    /\ destroying' = [destroying EXCEPT ![k] = "waiting"]
    /\ \/ NoDocuments /\ UNCHANGED <<conn, debounceVars>>
       \/ /\ ~NoDocuments
          /\ conn' = [c \in Connections |->
                        IF c \in Clients /\ conn[c] = "in" /\ connDoc[c] = documents
                        THEN "draining" ELSE conn[c]]
          /\ IF IsDebounced THEN \E r \in Runs : ExecuteNow(r) ELSE UNCHANGED debounceVars
    /\ UNCHANGED <<storeVars, connDoc, directVars, mapVars, docVars, checks, failures,
                   heard, accepted>>

\* destroy() up to its await: count, closeConnections, flushPendingStores.
Destroy(k) ==
    /\ destroying[k] = "no"
    /\ destroying' = [destroying EXCEPT ![k] = IF NoDocuments THEN "resolved" ELSE "waiting"]
    /\ \/ NoDocuments /\ UNCHANGED <<conn, debounceVars>>
       \/ /\ ~NoDocuments
          /\ conn' = [c \in Connections |->
                        IF c \in Clients /\ conn[c] = "in" /\ connDoc[c] = documents
                        THEN "draining" ELSE conn[c]]
          /\ IF IsDebounced THEN \E r \in Runs : ExecuteNow(r) ELSE UNCHANGED debounceVars
    /\ UNCHANGED <<storeVars, connDoc, directVars, mapVars, docVars, checks, failures,
                   heard, accepted>>

\* The onDestroy hooks resolve.
Destroyed(k) ==
    /\ destroying[k] = "resolved"
    /\ destroying' = [destroying EXCEPT ![k] = "done"]
    /\ UNCHANGED <<vars, heard, accepted>>

\* unloadDocument calls the afterUnloadDocument hooks in this step.
ChainBuilt == unloading.phase # "after" /\ unloading'.phase = "after"

\* Every hook of the chain has resolved, the extensions of heard last.
ChainResolves == unloading.phase = "after" /\ unloading'.phase = "none"

AfterUnloadDocument ==
    /\ heard' = IF ChainBuilt THEN {k \in Destroys : destroying[k] = "waiting"}
                ELSE IF unloading'.phase = "after" THEN heard ELSE {}
    /\ destroying' = [k \in Destroys |->
                        IF ChainResolves /\ k \in heard /\ destroying[k] = "waiting"
                           /\ NoDocuments
                        THEN "resolved" ELSE destroying[k]]

\* The signal handler: destroy(), then process.exit.
Exited == \E k \in Destroys : destroying[k] = "done"

\* What happens to the documents goes on, until the process ends.
DocumentStep ==
    /\ ~Exited
    /\ Next
    /\ AfterUnloadDocument
    /\ accepted' = accepted \cup {u \in Updates : \E d \in Docs : stage[d] = "ready" /\ u \in content'[d]}

ServerNext ==
    \/ DocumentStep
    \/ \E k \in Destroys : Destroy(k) \/ Destroyed(k)

ServerSpec == ServerInit /\ [][ServerNext]_allVars

\* The fairness of the documents' steps, and the onDestroy hooks resolve.
ServerFairSpec == ServerSpec /\ Fairness /\ \A k \in Destroys : WF_allVars(Destroyed(k))

-----------------------------------------------------------------------------
\* Server.ts:204-214 and src/RELEASE_NOTES_V4.md:97, "ensuring documents are persisted before the server
\* exits": when destroy() goes on to the onDestroy hooks, every update that a
\* document has taken is in the database, unless a store failed or one of the root
\* causes of UnloadedIsSaved has occurred.
DestroyIsStored ==
    [][\A k \in Destroys :
          destroying[k] # "resolved" /\ destroying'[k] = "resolved"
          /\ ~evicted' /\ ~entryLost' /\ failures = 0 =>
              accepted \subseteq db]_allVars

\* The same when the process ends: an update taken while the onDestroy hooks run,
\* by a document that was loading when destroy() found none, is not covered.
ExitIsStored ==
    [][\A k \in Destroys :
          destroying[k] # "done" /\ destroying'[k] = "done"
          /\ ~evicted' /\ ~entryLost' /\ failures = 0 =>
              accepted \subseteq db]_allVars

\* As long as the process runs, every edit of a document that is still the only one of
\* its name is written by a store of that document, unless one of its stores fails ...
EditIsStoredUntilExit ==
    \A d \in Docs, u \in Updates :
        stage[d] = "ready" /\ u \in content[d] ~>
            \/ u \in saved[d] \/ u \notin content[d] \/ d \in failed
            \/ evicted \/ Exited

\* ... and a document that is left is unloaded, also when destroy() flushes the stores
\* and closes the connections; unless it is in use again, or the unload of ANOTHER object
\* of the name was in progress: unloadDocument returns that promise and forgets this one
\* (CollabApi.ts:561-562).
LeavingUnloadsUntilExit ==
    \A c \in Connections, d \in Docs :
        conn[c] = "hook" /\ connDoc[c] = d ~>
            \/ documents # d \/ HasConnections(d)
            \/ unloading.doc \notin {d, NoDoc} \/ evicted \/ Exited

\* Nobody uses the document and nothing will unload it: LeavingUnloadsUntilExit
\* says when that comes about.
Abandoned ==
    /\ documents # NoDoc /\ unloading.doc # documents /\ documents \notin checks
    /\ ShouldUnloadDocument(documents)
    /\ \A c \in Connections : connDoc[c] # documents

\* destroy() comes to an end unless somebody uses the documents: closing the
\* connections and flushing the stores is enough for every document to be unloaded
\* and for the hook to notice (Server.ts:200-223), unless one is abandoned.
DestroyEnds ==
    \A k \in Destroys :
        destroying[k] = "waiting" ~>
            \/ Exited \/ evicted \/ Abandoned
            \/ \E c \in Connections : conn[c] \in {"joining", "in"}

\* The same without the exception: a document that is left while an earlier object
\* of its name is unloaded keeps destroy() waiting for ever.
DestroyAlwaysEnds ==
    \A k \in Destroys :
        destroying[k] = "waiting" ~>
            \/ Exited \/ evicted
            \/ \E c \in Connections : conn[c] \in {"joining", "in"}
=============================================================================
