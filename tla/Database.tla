------------------------------ MODULE Database ------------------------------
(***************************************************************************)
(* The shared database under its most general clients: the service, the    *)
(* scheduler, the webhook handler and any number of command-line processes *)
(* issue the transactions of ScanRepo and WorkQueue in any order.  SQLite  *)
(* serialises them.  What holds here holds whatever the processes do.      *)
(***************************************************************************)
EXTENDS ScanRepo, WorkQueue

CONSTANT HookPath   \* the (outdir, "") path of webhook work

ASSUME DatabaseAssumption == HookPath \in Paths

\* The enqueuer passes the scan row's own path, the webhook HookPath.  The tags
\* are those the enqueuer listed, which a later scan may have replaced.
EnqueueScan(s, key) ==
  /\ s \in ScanIds
  /\ Enqueue(key, {PathOf[scanResults[s].file]}, PriorityScan, {s})

EnqueueHook(key) == Enqueue(key, {HookPath}, PriorityWebhook, {})

ScanSide ==
  \/ \E l \in Libraries : AddLibrary(l) \/ RemoveLibrary(l)
  \/ \E l \in Libraries, force \in BOOLEAN :
       \E F \in SUBSET {f \in Files : LibOf[f] = l} :
         \E key \in [F -> Keys] : Upsert(l, F, key, force)
  \/ \E s \in ScanIds, status \in ScanStatus : SetStatus(s, status)

QueueSide ==
  \/ \E s \in ScanIds, key \in Keys : EnqueueScan(s, key)
  \/ \E key \in Keys : EnqueueHook(key) \/ Cleanup(key)
  \/ \E w \in WorkIds :
       Dequeue(w) \/ Complete(w) \/ Release(w) \/ Fail(w) \/ Retry(w)
  \/ \E l \in Libraries : ScanClear(l)
  \/ ClearDone
  \/ Tick

DatabaseNext == ScanSide \/ QueueSide

DatabaseSpec == TablesInit /\ [][DatabaseNext]_tables

-----------------------------------------------------------------------------
(* Invariants.                                                             *)

\* The foreign keys: a link joins two live rows, a scan row has its library.
ReferencesLive ==
  /\ \A l \in links : l[1] \in WorkIds /\ l[2] \in ScanIds
  /\ \A s \in ScanIds : libraries[LibraryOf(s)] = "present"

\* One work row per song and one scan row per file, however Enqueue, Upsert
\* and the deletions interleave.
KeysUnique ==
  /\ \A v, w \in WorkIds : workQueue[v].key = workQueue[w].key => v = w
  /\ \A s, t \in ScanIds : scanResults[s].file = scanResults[t].file => s = t

\* CancelByLibrary filters output lists but never leaves a row the worker
\* would have nothing to write for.
EveryRowHasOutput == \A w \in WorkIds : workQueue[w].outs # {}

\* The conjunction TLAPS proves inductive.
DatabaseInv == TypeOK /\ ReferencesLive /\ KeysUnique /\ EveryRowHasOutput

-----------------------------------------------------------------------------
(* Action properties.                                                      *)

\* What the worker read of the rows it holds stays.
ClaimsUntouched ==
  \A w \in WorkIds : workQueue[w].status = "processing" =>
    /\ w \in WorkIds'
    /\ workQueue'[w].key = workQueue[w].key
    /\ workQueue'[w].outs = workQueue[w].outs

\* While a worker holds a row, no other process changes what the worker read
\* of it or deletes it (the "avoid racing active workers" of Cleanup, Retry
\* and CancelByLibrary).
ClaimProtected == [][ClaimsUntouched]_tables

Hurried(w) ==
  workQueue[w].status = "failed" /\ workQueue'[w].wait < workQueue[w].wait

\* A failed row comes forward of its backoff only as time passes, for the
\* operator's Retry of that row or for a webhook that asks for its song.  A
\* bulk scan never shortens it, however urgent a webhook once made the row and
\* however short the wait that is left (README: scan-enqueued duplicates keep
\* their existing backoff).
BackoffHonoured ==
  [][\A w \in WorkIds \cap WorkIds' : Hurried(w) =>
       /\ Tick \/ Retry(w) \/ EnqueueHook(workQueue[w].key)
       /\ ~ \E s \in ScanIds, key \in Keys : EnqueueScan(s, key)]_tables

\* When a row becomes done every scan row linked to it is done in the same
\* step, and no other queue transaction takes a scan row out of done.
DoneTogether ==
  [][/\ \A w \in WorkIds \cap WorkIds' :
          /\ workQueue[w].status # "done" /\ workQueue'[w].status = "done"
          => \A s \in LinkedTo(w) : s \in ScanIds' /\ scanResults'[s].status = "done"
     /\ workQueue' # workQueue
        => \A s \in ScanIds \cap ScanIds' :
             scanResults[s].status = "done" => scanResults'[s].status = "done"]_tables

\* Clearing a library keeps of each queued row exactly the outputs that the
\* scan rows still linked to it vouch for, and leaves other rows alone.
ScanClearExact ==
  [][\A l \in Libraries : ScanClear(l) =>
       \A w \in WorkIds :
         IF Queued(w) /\ \E s \in LinkedTo(w) : LibraryOf(s) = l
         THEN \A p \in Paths :
                (w \in WorkIds' /\ p \in workQueue'[w].outs) <=>
                  /\ p \in workQueue[w].outs
                  /\ \E s \in LinkedTo(w) \cap ScanIds' :
                       PathOf[scanResults[s].file] = p
         ELSE w \in WorkIds' /\ workQueue'[w] = workQueue[w]]_tables

-----------------------------------------------------------------------------
(* The queue implements the ledger, a song's row giving its job's state.   *)

JobOf(status) ==
  CASE status = "processing" -> "claimed"
    [] status = "done" -> "finished"
    [] OTHER -> "queued"

JobStates ==
  [k \in Keys |-> IF RowsOf(k) = {} THEN "none"
                  ELSE JobOf(workQueue[CHOOSE w \in RowsOf(k) : TRUE].status)]

Jobs == INSTANCE Ledger WITH job <- JobStates

\* Per song, at most one job with a legal life cycle.
ImplementsLedger == Jobs!LedgerSpec

=============================================================================
