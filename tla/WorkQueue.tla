----------------------------- MODULE WorkQueue -----------------------------
(***************************************************************************)
(* queue.DBQueue: the durable queue of lyrics work, keyed by normalised    *)
(* artist and title.  Each action is one committed transaction of          *)
(* internal/queue/queue.go; one that fails (sql.ErrNoRows,                 *)
(* ErrNotRetryable, a constraint, a busy database) changes nothing and is  *)
(* left to the callers in module Service.                                  *)
(***************************************************************************)
EXTENDS Tables

CONSTANTS
  Delay,        \* ticks of backoff after the nth failed attempt
  AttemptCap    \* bound: attempts saturate here, where Delay grows no more

ASSUME WorkQueueAssumption ==
  /\ AttemptCap \in Nat \ {0}
  /\ Delay \in [1..AttemptCap -> Nat]

-----------------------------------------------------------------------------
\* Mutant of Retryable: a claimed row is up for grabs too.
RetryableOrClaimed == {"pending", "failed", "processing"}

\* Mutant of Retryable: a failed row is never tried again.
RetryablePending == {"pending"}

\* The rows Dequeue may claim and Cleanup and CancelByLibrary may delete.
Retryable == {"pending", "failed"}

Queued(w) == workQueue[w].status \in Retryable

\* The row of a key, at most one: UNIQUE(artist_key, title_key).
RowsOf(key) == {w \in WorkIds : workQueue[w].key = key}

NewRow(key, outs, prio) ==
  [key |-> key, status |-> "pending", prio |-> prio, attempts |-> 0,
   wait |-> 0, outs |-> outs]

MaxPriority(p, q) == IF p < q THEN q ELSE p

\* Mutant of Settled: a finished row is taken for a queued one.
SettledProcessingOnly == {"processing"}

\* The rows a duplicate Enqueue leaves alone but for the priority.
Settled == {"done", "processing"}

\* Mutant of Merged: bulk scans shorten the backoff of a failed row too.
MergedResetsBackoff(row, outs, prio) ==
  IF row.status \in Settled THEN [row EXCEPT !.prio = MaxPriority(@, prio)]
  ELSE [row EXCEPT !.prio = MaxPriority(@, prio), !.outs = outs, !.wait = 0]

\* ON CONFLICT(artist_key, title_key): next_attempt_at becomes now, except
\* that a failed row keeps its backoff unless a webhook asks.
Merged(row, outs, prio) ==
  LET raised == [row EXCEPT !.prio = MaxPriority(@, prio)]
      keepsBackoff == row.status = "failed" /\ prio < PriorityWebhook
  IN  IF row.status \in Settled THEN raised
      ELSE [raised EXCEPT !.outs = outs,
                          !.wait = IF keepsBackoff THEN @ ELSE 0]

\* DBQueue.Enqueue for the scan results S, one or none.  The foreign key of
\* the junction makes the whole transaction fail if the scan row is gone.
Enqueue(key, outs, prio, S) ==
  /\ S \subseteq ScanIds
  /\ \/ /\ RowsOf(key) = {}
        /\ lastWork < MaxWork
        /\ lastWork' = lastWork + 1
        /\ workQueue' = [w \in WorkIds \cup {lastWork'} |->
                           IF w = lastWork' THEN NewRow(key, outs, prio)
                           ELSE workQueue[w]]
        /\ links' = links \cup ({lastWork'} \X S)
     \/ \E w \in RowsOf(key) :
           /\ workQueue' = [workQueue EXCEPT ![w] = Merged(@, outs, prio)]
           /\ links' = links \cup ({w} \X S)
           /\ UNCHANGED lastWork
  /\ UNCHANGED <<libraries, scanResults, lastScan>>

-----------------------------------------------------------------------------
Ready(w) == Queued(w) /\ workQueue[w].wait = 0

\* Mutant of Before: oldest first, whatever the priority.
BeforeById(v, w) == v <= w

\* ORDER BY priority DESC, created_at ASC, id ASC.  Ids are handed out in the
\* order of created_at.
Before(v, w) ==
  \/ workQueue[v].prio > workQueue[w].prio
  \/ workQueue[v].prio = workQueue[w].prio /\ v <= w

\* DBQueue.Dequeue, when it returns w.
Dequeue(w) ==
  /\ w \in WorkIds
  /\ Ready(w)
  /\ \A v \in WorkIds : Ready(v) => Before(w, v)
  /\ workQueue' = [workQueue EXCEPT ![w].status = "processing"]
  /\ UNCHANGED <<libraries, scanResults, links, lastScan, lastWork>>

\* No row is ready: Dequeue returns sql.ErrNoRows.
NothingReady == \A w \in WorkIds : ~Ready(w)

Claimed(w) == w \in WorkIds /\ workQueue[w].status = "processing"

\* Mutant of WrittenBack: the scalar scan_result_id knew one of them only.
WrittenBackFirst(w) ==
  {s \in LinkedTo(w) : \A t \in LinkedTo(w) : s <= t}

\* The scan rows a completed work row writes back to.
WrittenBack(w) == LinkedTo(w)

\* DBQueue.Complete: the row and every scan row linked to it, together.
Complete(w) ==
  /\ Claimed(w)
  /\ workQueue' = [workQueue EXCEPT ![w].status = "done"]
  /\ scanResults' = [s \in ScanIds |->
                       IF s \in WrittenBack(w)
                       THEN [scanResults[s] EXCEPT !.status = "done"]
                       ELSE scanResults[s]]
  /\ UNCHANGED <<libraries, links, lastScan, lastWork>>

\* DBQueue.Release.
Release(w) ==
  /\ Claimed(w)
  /\ workQueue' = [workQueue EXCEPT ![w].status = "pending"]
  /\ UNCHANGED <<libraries, scanResults, links, lastScan, lastWork>>

\* DBQueue.Fail.
Fail(w) ==
  /\ Claimed(w)
  /\ LET a == workQueue[w].attempts
         n == IF a < AttemptCap THEN a + 1 ELSE AttemptCap
     IN  workQueue' = [workQueue EXCEPT ![w].status = "failed",
                                        ![w].attempts = n,
                                        ![w].wait = Delay[n]]
  /\ UNCHANGED <<libraries, scanResults, links, lastScan, lastWork>>

-----------------------------------------------------------------------------
\* DBQueue.Cleanup, for a track that Lidarr deleted.
Cleanup(key) ==
  LET gone == {w \in RowsOf(key) : Queued(w)}
  IN  /\ workQueue' = Restrict(workQueue, WorkIds \ gone)
      /\ links' = Unlinked(gone, {})
      /\ UNCHANGED <<libraries, scanResults, lastScan, lastWork>>

\* Mutant of Failed: Retry resets whatever it is given.
FailedOrNot(w) == w \in WorkIds

\* The status Retry accepts.
Failed(w) == w \in WorkIds /\ workQueue[w].status = "failed"

\* The status of a linked scan row after Retry: never out of "done".
ResetStatus(status) == IF status = "processing" THEN "pending" ELSE status

\* DBQueue.Retry.
Retry(w) ==
  /\ Failed(w)
  /\ workQueue' = [workQueue EXCEPT ![w].status = "pending",
                                    ![w].attempts = 0, ![w].wait = 0]
  /\ scanResults' = [s \in ScanIds |->
                       IF s \in LinkedTo(w)
                       THEN [scanResults[s] EXCEPT !.status = ResetStatus(@)]
                       ELSE scanResults[s]]
  /\ UNCHANGED <<libraries, links, lastScan, lastWork>>

\* DBQueue.ClearDone.
ClearDone ==
  LET gone == {w \in WorkIds : workQueue[w].status = "done"}
  IN  /\ workQueue' = Restrict(workQueue, WorkIds \ gone)
      /\ links' = Unlinked(gone, {})
      /\ UNCHANGED <<libraries, scanResults, lastScan, lastWork>>

-----------------------------------------------------------------------------
(* CancelByLibrary.                                                        *)

Candidates(l) ==
  {w \in WorkIds : Queued(w) /\ \E s \in LinkedTo(w) : LibraryOf(s) = l}

\* Mutant of KeepSet: the library's own paths are kept.
KeepSetOfAll(w, l) == {PathOf[scanResults[s].file] : s \in LinkedTo(w)}

\* keepSetForRow: the paths that scan rows of other libraries vouch for.
KeepSet(w, l) ==
  {PathOf[scanResults[s].file] : s \in {t \in LinkedTo(w) : LibraryOf(t) # l}}

\* Mutant of Canceled: rows whose list is filtered empty are kept.
CanceledNever(l) == {}

Canceled(l) == {w \in Candidates(l) : workQueue[w].outs \cap KeepSet(w, l) = {}}

\* `scan clear --yes`: CancelByLibraryTx and ClearByLibraryTx in one
\* transaction, the cancellation first because it reads the junction.
ScanClear(l) ==
  LET gone == {s \in ScanIds : LibraryOf(s) = l}
  IN  /\ workQueue' =
           [w \in WorkIds \ Canceled(l) |->
              IF w \in Candidates(l)
              THEN [workQueue[w] EXCEPT !.outs = @ \cap KeepSet(w, l)]
              ELSE workQueue[w]]
      /\ scanResults' = Restrict(scanResults, ScanIds \ gone)
      /\ links' = Unlinked(Canceled(l), gone)
      /\ UNCHANGED <<libraries, lastScan, lastWork>>

-----------------------------------------------------------------------------
\* One tick of the clock against which next_attempt_at is compared.
Waiting == {w \in WorkIds : workQueue[w].wait > 0}

Tick ==
  /\ Waiting # {}
  /\ workQueue' = [w \in WorkIds |->
                     IF w \in Waiting
                     THEN [workQueue[w] EXCEPT !.wait = @ - 1]
                     ELSE workQueue[w]]
  /\ UNCHANGED <<libraries, scanResults, links, lastScan, lastWork>>

=============================================================================
