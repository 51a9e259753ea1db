--------------------------- MODULE Database_proofs ---------------------------
(***************************************************************************)
(* Theorems about module Database for every value of its constants.        *)
(***************************************************************************)
EXTENDS Database, FiniteSetTheorems, TLAPS

LibraryState == {"unused", "present", "removed"}

\* A step that adds no row and keeps of the surviving rows the song, the file
\* and some output preserves the invariant.  It serves every transaction but
\* Enqueue of a new song and Upsert of a new file.
LEMMA NoNewRows ==
  ASSUME DatabaseInv,
         libraries' \in [Libraries -> LibraryState],
         WorkIds' \subseteq WorkIds,
         ScanIds' \subseteq ScanIds,
         workQueue' \in [WorkIds' -> WorkRow],
         scanResults' \in [ScanIds' -> ScanRow],
         \A w \in WorkIds' : /\ workQueue'[w].key = workQueue[w].key
                             /\ workQueue'[w].outs # {},
         \A s \in ScanIds' : /\ scanResults'[s].file = scanResults[s].file
                             /\ libraries'[LibOf[scanResults[s].file]] = "present",
         links' \subseteq links,
         \A l \in links' : l[1] \in WorkIds' /\ l[2] \in ScanIds',
         UNCHANGED <<lastScan, lastWork>>
  PROVE  DatabaseInv'
<1>1. TypeOK'
  BY DEF DatabaseInv, TypeOK, WorkIds, ScanIds, LibraryState
<1>2. ReferencesLive'
  BY DEF ReferencesLive, LibraryOf, WorkIds, ScanIds
<1>3. KeysUnique'
  BY DEF DatabaseInv, KeysUnique, WorkIds, ScanIds
<1>4. EveryRowHasOutput'
  BY DEF EveryRowHasOutput, WorkIds
<1> QED
  BY <1>1, <1>2, <1>3, <1>4 DEF DatabaseInv

-----------------------------------------------------------------------------
(* Libraries and scan_results.                                             *)

\* library add and remove preserve the invariant: the cascade leaves no
\* dangling row or link.
LEMMA LibraryOps ==
  ASSUME DatabaseInv, NEW l \in Libraries, AddLibrary(l) \/ RemoveLibrary(l)
  PROVE  DatabaseInv'
<1> USE TablesAssumption
<1>1. CASE AddLibrary(l)
  BY <1>1, NoNewRows DEF AddLibrary, DatabaseInv, TypeOK, ReferencesLive,
     EveryRowHasOutput, LibraryOf, LibraryState, WorkIds, ScanIds, ScanRow
<1>2. CASE RemoveLibrary(l)
  <2> DEFINE gone == {s \in ScanIds : LibraryOf(s) = l}
  <2>1. /\ libraries' = [libraries EXCEPT ![l] = "removed"]
        /\ scanResults' = [s \in ScanIds \ gone |-> scanResults[s]]
        /\ links' = {x \in links : x[1] \notin {} /\ x[2] \notin gone}
        /\ UNCHANGED <<workQueue, lastScan, lastWork>>
    BY <1>2 DEF RemoveLibrary, Restrict, Unlinked, ScanIds
  <2>2. ScanIds' = ScanIds \ gone /\ WorkIds' = WorkIds
    BY <2>1 DEF ScanIds, WorkIds
  <2>3. \A s \in ScanIds' : /\ scanResults'[s] = scanResults[s]
                            /\ libraries'[LibOf[scanResults[s].file]] = "present"
    BY <2>1, <2>2 DEF DatabaseInv, TypeOK, ReferencesLive, LibraryOf, ScanRow, ScanIds
  <2>4. scanResults' \in [ScanIds' -> ScanRow]
    BY <2>1, <2>2 DEF DatabaseInv, TypeOK, ScanIds
  <2>5. \A x \in links' : x[1] \in WorkIds' /\ x[2] \in ScanIds'
    BY <2>1, <2>2 DEF DatabaseInv, ReferencesLive
  <2> QED
    BY <2>1, <2>2, <2>3, <2>4, <2>5, NoNewRows
       DEF DatabaseInv, TypeOK, EveryRowHasOutput, LibraryState, WorkIds
<1> QED
  BY <1>1, <1>2

\* Changing the status of one scan row preserves it.
LEMMA SetStatusOp ==
  ASSUME DatabaseInv, NEW s, NEW status \in ScanStatus, SetStatus(s, status)
  PROVE  DatabaseInv'
<1>1. /\ WorkIds' = WorkIds /\ ScanIds' = ScanIds
      /\ scanResults' \in [ScanIds' -> ScanRow]
      /\ \A t \in ScanIds' : scanResults'[t].file = scanResults[t].file
  BY DEF SetStatus, WorkIds, ScanIds, DatabaseInv, TypeOK, ScanRow
<1> QED
  BY <1>1, NoNewRows DEF SetStatus, DatabaseInv, TypeOK, ReferencesLive,
     EveryRowHasOutput, LibraryOf, LibraryState, WorkIds

\* The files that Upsert inserts are finitely many.
LEMMA NewFilesFinite ==
  ASSUME NEW F \in SUBSET Files
  PROVE  Cardinality(F \ Recorded) \in Nat
<1>1. IsFiniteSet(F \ Recorded)
  BY TablesAssumption, FS_Subset
<1> QED
  BY <1>1, FS_CardinalityType

\* ON CONFLICT of Upsert keeps the shape of a row and its file.
LEMMA RefreshedRow ==
  ASSUME NEW row \in ScanRow, NEW k \in Keys, NEW force \in BOOLEAN
  PROVE  Refreshed(row, k, force) \in ScanRow /\ Refreshed(row, k, force).file = row.file
<1>1. CASE force = TRUE
  BY <1>1 DEF Refreshed, ScanRow, ScanStatus
<1>2. CASE force = FALSE
  BY <1>2 DEF Refreshed, ScanRow, ScanStatus
<1> QED
  BY <1>1, <1>2

\* A whole scan of a library, with any new ids for its new files, preserves it.
LEMMA UpsertOp ==
  ASSUME DatabaseInv, NEW l \in Libraries, NEW force \in BOOLEAN,
         NEW F \in SUBSET {f \in Files : LibOf[f] = l},
         NEW key \in [F -> Keys], Upsert(l, F, key, force)
  PROVE  DatabaseInv'
<1> DEFINE new == F \ Recorded
           total == lastScan + Cardinality(new)
           newIds == (lastScan + 1)..total
<1>1. /\ Cardinality(new) \in Nat /\ lastScan \in Nat /\ total \in Nat
      /\ total \in 0..MaxScan /\ lastScan <= total
  <2>1. Cardinality(new) \in Nat
    BY NewFilesFinite
  <2>2. lastScan \in Nat /\ MaxScan \in Nat
    BY TablesAssumption DEF DatabaseInv, TypeOK
  <2>3. total <= MaxScan
    BY DEF Upsert
  <2> HIDE DEF new
  <2> QED
    BY <2>1, <2>2, <2>3
<1>2. PICK fileAt \in Bijection(newIds, new) :
        scanResults' =
          [s \in ScanIds \cup newIds |->
             IF s > lastScan
             THEN [file |-> fileAt[s], key |-> key[fileAt[s]], status |-> "pending"]
             ELSE IF scanResults[s].file \in F
             THEN Refreshed(scanResults[s], key[scanResults[s].file], force)
             ELSE scanResults[s]]
  BY DEF Upsert
<1>3. /\ fileAt \in [newIds -> new]
      /\ \A s, t \in newIds : fileAt[s] = fileAt[t] => s = t
  BY DEF Bijection, Injection, IsInjective
<1>4. /\ ScanIds' = ScanIds \cup newIds /\ WorkIds' = WorkIds
      /\ \A s \in ScanIds : s \in Nat /\ s <= lastScan
      /\ \A s \in newIds : s \in Nat /\ s > lastScan
      /\ ScanIds \cup newIds \subseteq 1..total
      /\ \A s \in ScanIds : scanResults[s] \in ScanRow
      /\ lastScan' = total
      /\ UNCHANGED <<libraries, workQueue, links, lastWork>>
  <2>1. ScanIds \subseteq 1..lastScan /\ \A s \in ScanIds : scanResults[s] \in ScanRow
    BY DEF DatabaseInv, TypeOK
  <2>2. lastScan' = total /\ UNCHANGED <<libraries, workQueue, links, lastWork>>
    BY DEF Upsert
  <2>3. ScanIds' = ScanIds \cup newIds
    BY <1>2 DEF ScanIds
  <2>4. /\ \A s \in ScanIds : s \in Nat /\ s <= lastScan
        /\ \A s \in newIds : s \in Nat /\ s > lastScan
        /\ ScanIds \cup newIds \subseteq 1..total
    <3> HIDE DEF total
    <3> QED
      BY <1>1, <2>1
  <2> QED
    BY <2>1, <2>2, <2>3, <2>4 DEF WorkIds
<1>5. \A s \in newIds : /\ scanResults'[s] \in ScanRow
                        /\ scanResults'[s].file = fileAt[s]
                        /\ fileAt[s] \in F \ Recorded
  BY <1>2, <1>3, <1>4 DEF ScanRow, ScanStatus
<1>6. \A s \in ScanIds : /\ scanResults'[s] \in ScanRow
                         /\ scanResults'[s].file = scanResults[s].file
                         /\ scanResults[s].file \in Recorded
  <2> SUFFICES ASSUME NEW s \in ScanIds
               PROVE  /\ scanResults'[s] \in ScanRow
                      /\ scanResults'[s].file = scanResults[s].file
                      /\ scanResults[s].file \in Recorded
    OBVIOUS
  <2>1. scanResults'[s] = IF scanResults[s].file \in F
                          THEN Refreshed(scanResults[s], key[scanResults[s].file], force)
                          ELSE scanResults[s]
    BY <1>1, <1>2, <1>4
  <2> QED
    BY <2>1, <1>4, RefreshedRow DEF Recorded
<1>7. TypeOK'
  <2>1. scanResults' \in [ScanIds' -> ScanRow]
    BY <1>2, <1>4, <1>5, <1>6
  <2>2. ScanIds' \subseteq 1..lastScan'
    BY <1>1, <1>4
  <2>3. links' \subseteq (1..lastWork') \X (1..lastScan')
    BY <1>1, <1>4 DEF DatabaseInv, TypeOK
  <2> QED
    BY <1>1, <1>4, <2>1, <2>2, <2>3 DEF DatabaseInv, TypeOK, WorkIds
<1>8. ReferencesLive'
  <2>1. F # {} => libraries[l] = "present"
    BY DEF Upsert
  <2>2. \A s \in ScanIds' : libraries'[LibOf[scanResults'[s].file]] = "present"
    BY <1>4, <1>5, <1>6, <2>1 DEF DatabaseInv, ReferencesLive, LibraryOf
  <2> QED
    BY <1>4, <2>2 DEF DatabaseInv, ReferencesLive, LibraryOf
<1>9. KeysUnique'
  <2>1. \A s, t \in ScanIds' : scanResults'[s].file = scanResults'[t].file => s = t
    <3>1. \A s, t \in ScanIds : scanResults[s].file = scanResults[t].file => s = t
      BY DEF DatabaseInv, KeysUnique
    <3>2. \A s \in newIds, t \in ScanIds : scanResults'[s].file # scanResults'[t].file
      BY <1>5, <1>6
    <3>3. \A s, t \in ScanIds : scanResults'[s].file = scanResults'[t].file => s = t
      BY <3>1, <1>6
    <3>4. \A s, t \in newIds : scanResults'[s].file = scanResults'[t].file => s = t
      BY <1>3, <1>5
    <3>5. ScanIds' = ScanIds \cup newIds
      BY <1>4
    <3> HIDE DEF newIds
    <3> QED
      BY <3>2, <3>3, <3>4, <3>5
  <2> QED
    BY <1>4, <2>1 DEF DatabaseInv, KeysUnique
<1>10. EveryRowHasOutput'
  BY <1>4 DEF DatabaseInv, EveryRowHasOutput
<1> QED
  BY <1>7, <1>8, <1>9, <1>10 DEF DatabaseInv

-----------------------------------------------------------------------------
(* work_queue.                                                             *)

\* ON CONFLICT of Enqueue keeps the shape of a row and its song and leaves it
\* an output.
LEMMA MergedRow ==
  ASSUME NEW row \in WorkRow, NEW outs \in SUBSET Paths, outs # {}, row.outs # {},
         NEW prio \in {PriorityScan, PriorityWebhook}
  PROVE  /\ Merged(row, outs, prio) \in WorkRow
         /\ Merged(row, outs, prio).key = row.key
         /\ Merged(row, outs, prio).outs # {}
<1> DEFINE raised == [row EXCEPT !.prio = MaxPriority(row.prio, prio)]
           wait == IF row.status = "failed" /\ prio < PriorityWebhook
                   THEN row.wait ELSE 0
<1>1. MaxPriority(row.prio, prio) \in {PriorityScan, PriorityWebhook}
  BY DEF MaxPriority, WorkRow
<1>2. raised \in WorkRow /\ raised.key = row.key /\ raised.outs = row.outs
      /\ raised.wait = row.wait
  BY <1>1 DEF WorkRow
<1>3. CASE row.status \in Settled
  BY <1>2, <1>3 DEF Merged
<1>4. CASE row.status \notin Settled
  <2>1. wait \in Nat
    BY DEF WorkRow
  <2>2. Merged(row, outs, prio) = [raised EXCEPT !.outs = outs, !.wait = wait]
    BY <1>2, <1>4 DEF Merged
  <2> HIDE DEF raised, wait
  <2> QED
    BY <1>2, <2>1, <2>2 DEF WorkRow
<1> QED
  BY <1>3, <1>4

\* Enqueue, of a new song or of a queued one, preserves the invariant.
LEMMA EnqueueOp ==
  ASSUME DatabaseInv, NEW key \in Keys, NEW outs \in SUBSET Paths, outs # {},
         NEW prio \in {PriorityScan, PriorityWebhook}, NEW S,
         Enqueue(key, outs, prio, S)
  PROVE  DatabaseInv'
<1>1. /\ WorkIds \subseteq 1..lastWork /\ lastWork \in 0..MaxWork
      /\ ScanIds \subseteq 1..lastScan /\ lastScan \in Nat
      /\ links \subseteq (1..lastWork) \X (1..lastScan)
      /\ MaxWork \in Nat /\ lastWork \in Nat
      /\ \A w \in WorkIds : workQueue[w] \in WorkRow /\ workQueue[w].outs # {}
      /\ \A v, w \in WorkIds : workQueue[v].key = workQueue[w].key => v = w
      /\ \A l \in links : l[1] \in WorkIds /\ l[2] \in ScanIds
  BY TablesAssumption DEF DatabaseInv, TypeOK, EveryRowHasOutput, KeysUnique, ReferencesLive
<1>2. S \subseteq ScanIds /\ UNCHANGED <<libraries, scanResults, lastScan>>
      /\ ScanIds' = ScanIds
  BY DEF Enqueue, ScanIds
\* The rows that result, and the links, whichever way the insert goes.
<1> SUFFICES /\ lastWork' \in 0..MaxWork
             /\ WorkIds' \subseteq 1..lastWork'
             /\ \A w \in WorkIds' : workQueue'[w] \in WorkRow /\ workQueue'[w].outs # {}
             /\ workQueue' = [w \in WorkIds' |-> workQueue'[w]]
             /\ links' \subseteq (1..lastWork') \X (1..lastScan)
             /\ \A l \in links' : l[1] \in WorkIds' /\ l[2] \in ScanIds
             /\ \A v, w \in WorkIds' : workQueue'[v].key = workQueue'[w].key => v = w
  BY <1>2 DEF DatabaseInv, TypeOK, EveryRowHasOutput, KeysUnique, ReferencesLive,
     LibraryOf, WorkIds, ScanIds
<1>3. CASE /\ RowsOf(key) = {}
           /\ lastWork < MaxWork
           /\ lastWork' = lastWork + 1
           /\ workQueue' = [w \in WorkIds \cup {lastWork'} |->
                              IF w = lastWork' THEN NewRow(key, outs, prio)
                              ELSE workQueue[w]]
           /\ links' = links \cup ({lastWork'} \X S)
  <2>1. /\ WorkIds' = WorkIds \cup {lastWork'}
        /\ workQueue'[lastWork'] = NewRow(key, outs, prio)
        /\ \A w \in WorkIds : w # lastWork' /\ workQueue'[w] = workQueue[w]
    BY <1>1, <1>3 DEF WorkIds
  <2>2. /\ NewRow(key, outs, prio) \in WorkRow
        /\ NewRow(key, outs, prio).key = key /\ NewRow(key, outs, prio).outs = outs
    BY DEF NewRow, WorkRow, WorkStatus
  <2>3. \A w \in WorkIds : workQueue[w].key # key
    BY <1>3 DEF RowsOf
  <2>4. \A v, w \in WorkIds' : workQueue'[v].key = workQueue'[w].key => v = w
    BY <1>1, <2>1, <2>2, <2>3
  <2>5. lastWork' \in 0..MaxWork /\ WorkIds' \subseteq 1..lastWork'
    BY <1>1, <1>3, <2>1
  <2>6. links' \subseteq (1..lastWork') \X (1..lastScan)
    <3>1. 1..lastWork \subseteq 1..lastWork' /\ lastWork' \in 1..lastWork'
      BY <1>1, <1>3
    <3>2. links \subseteq (1..lastWork') \X (1..lastScan)
      BY <1>1, <3>1
    <3>3. {lastWork'} \X S \subseteq (1..lastWork') \X (1..lastScan)
      BY <1>1, <1>2, <3>1
    <3> QED
      BY <1>3, <3>2, <3>3
  <2>7. \A l \in links' : l[1] \in WorkIds' /\ l[2] \in ScanIds
    BY <1>1, <1>2, <1>3, <2>1
  <2>8. workQueue' = [w \in WorkIds' |-> workQueue'[w]]
    BY <1>3, <2>1
  <2> QED
    BY <1>1, <2>1, <2>2, <2>4, <2>5, <2>6, <2>7, <2>8
<1>4. CASE \E w \in RowsOf(key) :
             /\ workQueue' = [workQueue EXCEPT ![w] = Merged(workQueue[w], outs, prio)]
             /\ links' = links \cup ({w} \X S)
             /\ UNCHANGED lastWork
  <2>1. PICK w \in RowsOf(key) :
          /\ workQueue' = [workQueue EXCEPT ![w] = Merged(workQueue[w], outs, prio)]
          /\ links' = links \cup ({w} \X S)
          /\ UNCHANGED lastWork
    BY <1>4
  <2>2. w \in WorkIds
    BY DEF RowsOf
  <2>3. /\ WorkIds' = WorkIds
        /\ workQueue'[w] = Merged(workQueue[w], outs, prio)
        /\ \A v \in WorkIds : v # w => workQueue'[v] = workQueue[v]
        /\ workQueue' = [v \in WorkIds' |-> workQueue'[v]]
    BY <2>1, <2>2 DEF WorkIds, DatabaseInv, TypeOK
  <2>4. \A v \in WorkIds : /\ workQueue'[v] \in WorkRow
                           /\ workQueue'[v].key = workQueue[v].key
                           /\ workQueue'[v].outs # {}
    BY <1>1, <2>2, <2>3, MergedRow
  <2>5. \A l \in links' : l \in (1..lastWork) \X (1..lastScan)
                          /\ l[1] \in WorkIds /\ l[2] \in ScanIds
    BY <1>1, <1>2, <2>1, <2>2
  <2> QED
    BY <1>1, <2>1, <2>3, <2>4, <2>5
<1> QED
  BY <1>3, <1>4 DEF Enqueue

\* The transactions that change status, backoff and attempts only.
LEMMA StatusOps ==
  ASSUME DatabaseInv, NEW w,
         Dequeue(w) \/ Complete(w) \/ Release(w) \/ Fail(w) \/ Retry(w) \/ Tick
  PROVE  DatabaseInv'
<1> SUFFICES /\ WorkIds' = WorkIds /\ ScanIds' = ScanIds
             /\ workQueue' \in [WorkIds -> WorkRow]
             /\ scanResults' \in [ScanIds -> ScanRow]
             /\ \A v \in WorkIds : /\ workQueue'[v].key = workQueue[v].key
                                   /\ workQueue'[v].outs = workQueue[v].outs
             /\ \A s \in ScanIds : scanResults'[s].file = scanResults[s].file
             /\ UNCHANGED <<libraries, links, lastScan, lastWork>>
  BY NoNewRows DEF DatabaseInv, TypeOK, ReferencesLive, EveryRowHasOutput,
     LibraryOf, LibraryState
<1>1. /\ workQueue \in [WorkIds -> WorkRow] /\ scanResults \in [ScanIds -> ScanRow]
      /\ WorkIds = DOMAIN workQueue /\ ScanIds = DOMAIN scanResults
  BY DEF DatabaseInv, TypeOK, WorkIds, ScanIds
<1>2. CASE Dequeue(w)
  BY <1>1, <1>2 DEF Dequeue, WorkIds, ScanIds, WorkRow, WorkStatus
<1>3. CASE Release(w)
  BY <1>1, <1>3 DEF Release, Claimed, WorkIds, ScanIds, WorkRow, WorkStatus
<1>4. CASE Complete(w)
  <2>1. workQueue' = [workQueue EXCEPT ![w].status = "done"] /\ w \in WorkIds
    BY <1>4 DEF Complete, Claimed
  <2>2. \A s \in ScanIds : [scanResults[s] EXCEPT !.status = "done"] \in ScanRow
    BY <1>1 DEF ScanRow, ScanStatus
  <2>3. scanResults' = [s \in ScanIds |->
                          IF s \in WrittenBack(w)
                          THEN [scanResults[s] EXCEPT !.status = "done"]
                          ELSE scanResults[s]]
        /\ UNCHANGED <<libraries, links, lastScan, lastWork>>
    BY <1>4 DEF Complete
  <2>4. scanResults' \in [ScanIds -> ScanRow]
        /\ \A s \in ScanIds : scanResults'[s].file = scanResults[s].file
    BY <1>1, <2>2, <2>3 DEF ScanRow
  <2> QED
    BY <1>1, <2>1, <2>3, <2>4 DEF WorkIds, ScanIds, WorkRow, WorkStatus
<1>5. CASE Fail(w)
  <2> DEFINE a == workQueue[w].attempts
             n == IF a < AttemptCap THEN a + 1 ELSE AttemptCap
  <2>1. w \in WorkIds /\ a \in Nat
    BY <1>1, <1>5 DEF Fail, Claimed, WorkRow
  <2>2. n \in 1..AttemptCap /\ n \in Nat /\ Delay[n] \in Nat
    BY <2>1, WorkQueueAssumption
  <2>3. workQueue' = [workQueue EXCEPT ![w] =
                        [workQueue[w] EXCEPT !.status = "failed", !.attempts = n,
                                             !.wait = Delay[n]]]
        /\ UNCHANGED <<libraries, scanResults, links, lastScan, lastWork>>
    BY <1>1, <1>5, <2>1 DEF Fail
  <2> HIDE DEF n
  <2> QED
    BY <1>1, <2>1, <2>2, <2>3 DEF WorkIds, ScanIds, WorkRow, WorkStatus
<1>6. CASE Retry(w)
  <2>1. w \in WorkIds
    BY <1>6 DEF Retry, Failed
  <2>2. workQueue' = [workQueue EXCEPT ![w] =
                        [workQueue[w] EXCEPT !.status = "pending", !.attempts = 0,
                                             !.wait = 0]]
        /\ UNCHANGED <<libraries, links, lastScan, lastWork>>
    BY <1>1, <1>6, <2>1 DEF Retry
  <2>3. \A s \in ScanIds :
          LET row == [scanResults[s] EXCEPT
                        !.status = ResetStatus(scanResults[s].status)]
          IN  row \in ScanRow /\ row.file = scanResults[s].file
    BY <1>1 DEF ScanRow, ScanStatus, ResetStatus
  <2>4. scanResults' = [s \in ScanIds |->
                          IF s \in LinkedTo(w)
                          THEN [scanResults[s] EXCEPT
                                  !.status = ResetStatus(scanResults[s].status)]
                          ELSE scanResults[s]]
    BY <1>6 DEF Retry
  <2>5. scanResults' \in [ScanIds -> ScanRow]
        /\ \A s \in ScanIds : scanResults'[s].file = scanResults[s].file
    BY <1>1, <2>3, <2>4
  <2> QED
    BY <1>1, <2>1, <2>2, <2>5 DEF WorkIds, ScanIds, WorkRow, WorkStatus
<1>7. CASE Tick
  <2>1. workQueue' = [v \in WorkIds |->
                        IF v \in Waiting
                        THEN [workQueue[v] EXCEPT !.wait = workQueue[v].wait - 1]
                        ELSE workQueue[v]]
        /\ UNCHANGED <<libraries, scanResults, links, lastScan, lastWork>>
    BY <1>7 DEF Tick
  <2>2. \A v \in Waiting : workQueue[v].wait - 1 \in Nat
    BY <1>1 DEF Waiting, WorkRow
  <2>3. \A v \in Waiting :
          LET row == [workQueue[v] EXCEPT !.wait = workQueue[v].wait - 1]
          IN  row \in WorkRow /\ row.key = workQueue[v].key /\ row.outs = workQueue[v].outs
    BY <1>1, <2>2 DEF Waiting, WorkRow
  <2> QED
    BY <1>1, <2>1, <2>3 DEF WorkIds, ScanIds
<1> QED
  BY <1>2, <1>3, <1>4, <1>5, <1>6, <1>7

\* The transactions that delete work.
LEMMA DeleteOps ==
  ASSUME DatabaseInv, (\E key \in Keys : Cleanup(key)) \/ ClearDone
  PROVE  DatabaseInv'
<1>1. PICK gone \in SUBSET WorkIds :
        /\ workQueue' = [w \in WorkIds \ gone |-> workQueue[w]]
        /\ links' = {l \in links : l[1] \notin gone /\ l[2] \notin {}}
        /\ UNCHANGED <<libraries, scanResults, lastScan, lastWork>>
  BY DEF Cleanup, ClearDone, Restrict, Unlinked, RowsOf
<1>2. WorkIds' = WorkIds \ gone /\ ScanIds' = ScanIds
  BY <1>1 DEF WorkIds, ScanIds
<1>3. \A l \in links' : l[1] \in WorkIds' /\ l[2] \in ScanIds'
  BY <1>1, <1>2 DEF DatabaseInv, ReferencesLive
<1>4. workQueue' \in [WorkIds' -> WorkRow]
      /\ \A w \in WorkIds' : workQueue'[w] = workQueue[w]
  BY <1>1, <1>2 DEF DatabaseInv, TypeOK
<1> QED
  BY <1>1, <1>2, <1>3, <1>4, NoNewRows DEF DatabaseInv, TypeOK, ReferencesLive,
     EveryRowHasOutput, LibraryOf, LibraryState

\* scan clear preserves it: rows whose outputs are filtered away are deleted.
LEMMA ScanClearOp ==
  ASSUME DatabaseInv, NEW l \in Libraries, ScanClear(l)
  PROVE  DatabaseInv'
<1> DEFINE gone == {s \in ScanIds : LibraryOf(s) = l}
<1>1. /\ workQueue' =
           [w \in WorkIds \ Canceled(l) |->
              IF w \in Candidates(l)
              THEN [workQueue[w] EXCEPT !.outs = workQueue[w].outs \cap KeepSet(w, l)]
              ELSE workQueue[w]]
      /\ scanResults' = [s \in ScanIds \ gone |-> scanResults[s]]
      /\ links' = {x \in links : x[1] \notin Canceled(l) /\ x[2] \notin gone}
      /\ UNCHANGED <<libraries, lastScan, lastWork>>
  BY DEF ScanClear, Restrict, Unlinked
<1>2. WorkIds' = WorkIds \ Canceled(l) /\ ScanIds' = ScanIds \ gone
  BY <1>1 DEF WorkIds, ScanIds
<1>3. \A w \in WorkIds : workQueue[w] \in WorkRow /\ workQueue[w].outs # {}
  BY DEF DatabaseInv, TypeOK, EveryRowHasOutput
<1>4. \A w \in WorkIds' : /\ workQueue'[w] \in WorkRow
                          /\ workQueue'[w].key = workQueue[w].key
                          /\ workQueue'[w].outs # {}
  <2> SUFFICES ASSUME NEW w \in WorkIds'
               PROVE  /\ workQueue'[w] \in WorkRow
                      /\ workQueue'[w].key = workQueue[w].key
                      /\ workQueue'[w].outs # {}
    OBVIOUS
  <2>1. CASE w \in Candidates(l)
    <3>1. workQueue'[w] = [workQueue[w] EXCEPT
                             !.outs = workQueue[w].outs \cap KeepSet(w, l)]
      BY <1>1, <1>2, <2>1
    <3>2. workQueue[w].outs \cap KeepSet(w, l) # {}
      BY <1>2, <2>1 DEF Canceled
    <3> QED
      BY <1>2, <1>3, <3>1, <3>2 DEF WorkRow
  <2>2. CASE w \notin Candidates(l)
    BY <1>1, <1>2, <1>3, <2>2
  <2> QED
    BY <2>1, <2>2
<1>5. workQueue' \in [WorkIds' -> WorkRow] /\ scanResults' \in [ScanIds' -> ScanRow]
      /\ \A s \in ScanIds' : scanResults'[s] = scanResults[s]
  BY <1>1, <1>2, <1>4 DEF DatabaseInv, TypeOK
<1>6. \A x \in links' : x[1] \in WorkIds' /\ x[2] \in ScanIds'
  BY <1>1, <1>2 DEF DatabaseInv, ReferencesLive
<1> QED
  BY <1>1, <1>2, <1>4, <1>5, <1>6, NoNewRows
     DEF DatabaseInv, TypeOK, ReferencesLive, LibraryOf, LibraryState

-----------------------------------------------------------------------------
\* Every transaction preserves the invariant.
LEMMA DatabaseStep ==
  ASSUME DatabaseInv, [DatabaseNext]_tables
  PROVE  DatabaseInv'
<1>1. CASE UNCHANGED tables
  BY <1>1 DEF tables, DatabaseInv, TypeOK, ReferencesLive, KeysUnique,
     EveryRowHasOutput, LibraryOf, WorkIds, ScanIds
<1>2. CASE ScanSide
  BY <1>2, LibraryOps, UpsertOp, SetStatusOp DEF ScanSide
<1>3. CASE \E s \in ScanIds, key \in Keys : EnqueueScan(s, key)
  <2>1. PICK s \in ScanIds, key \in Keys : EnqueueScan(s, key)
    BY <1>3
  <2>2. scanResults[s].file \in Files
    BY DEF DatabaseInv, TypeOK, ScanRow
  <2>3. PathOf[scanResults[s].file] \in Paths
    BY <2>2, TablesAssumption
  <2> QED
    BY <2>1, <2>3, EnqueueOp DEF EnqueueScan
<1>4. CASE \E key \in Keys : EnqueueHook(key)
  BY <1>4, EnqueueOp, DatabaseAssumption DEF EnqueueHook
<1>5. CASE (\E key \in Keys : Cleanup(key)) \/ ClearDone
  BY <1>5, DeleteOps
<1>6. CASE \/ Tick
           \/ \E w \in WorkIds :
                Dequeue(w) \/ Complete(w) \/ Release(w) \/ Fail(w) \/ Retry(w)
  BY <1>6, StatusOps
<1>7. CASE \E l \in Libraries : ScanClear(l)
  BY <1>7, ScanClearOp
<1> QED
  BY <1>1, <1>2, <1>3, <1>4, <1>5, <1>6, <1>7 DEF DatabaseNext, QueueSide

\* Whatever the processes that share the database do, its rows keep their
\* shape, links and scan rows never dangle, songs and files keep at most one
\* row each, and no queued song is left without an output to write (the
\* foreign keys, ON CONFLICT clauses and CancelByLibrary of the source).
THEOREM DatabaseInvariant == DatabaseSpec => []DatabaseInv
<1>1. TablesInit => DatabaseInv
  BY TablesAssumption DEF TablesInit, DatabaseInv, TypeOK, ReferencesLive, KeysUnique,
     EveryRowHasOutput, LibraryOf, WorkIds, ScanIds
<1>2. DatabaseInv /\ [DatabaseNext]_tables => DatabaseInv'
  BY DatabaseStep
<1> QED
  BY <1>1, <1>2, PTL DEF DatabaseSpec

-----------------------------------------------------------------------------
\* The transactions that leave the status of every work row alone.
Bystanders ==
  \/ ScanSide \/ ClearDone \/ Tick
  \/ \E s \in ScanIds, key \in Keys : EnqueueScan(s, key)
  \/ \E key \in Keys : EnqueueHook(key) \/ Cleanup(key)
  \/ \E l \in Libraries : ScanClear(l)

\* What they do to a row that is there before and after.
RowUntouched(w) ==
  /\ workQueue'[w].key = workQueue[w].key
  /\ workQueue'[w].status = workQueue[w].status
  /\ workQueue[w].status \in Settled => workQueue'[w].outs = workQueue[w].outs

\* ON CONFLICT of Enqueue keeps song and status, and the outputs of a claimed
\* or finished row.
LEMMA MergedKeeps ==
  ASSUME NEW row \in WorkRow, NEW outs, NEW prio
  PROVE  LET new == Merged(row, outs, prio)
         IN  /\ new.key = row.key /\ new.status = row.status
             /\ row.status \in Settled => new.outs = row.outs
<1> DEFINE raised == [row EXCEPT !.prio = MaxPriority(row.prio, prio)]
<1>1. raised.key = row.key /\ raised.status = row.status /\ raised.outs = row.outs
  BY DEF WorkRow
<1>2. CASE row.status \in Settled
  BY <1>1, <1>2 DEF Merged
<1>3. CASE row.status \notin Settled
  BY <1>3 DEF Merged, WorkRow
<1> QED
  BY <1>2, <1>3

\* The row that Enqueue inserts has a new id, and the others keep theirs.
LEMMA EnqueueRows ==
  ASSUME DatabaseInv, NEW key, NEW outs, NEW prio, NEW S,
         Enqueue(key, outs, prio, S)
  PROVE  /\ WorkIds \subseteq WorkIds'
         /\ \A w \in WorkIds : \/ workQueue'[w] = workQueue[w]
                               \/ /\ workQueue[w].key = key
                                  /\ workQueue'[w] = Merged(workQueue[w], outs, prio)
         /\ \A w \in WorkIds' \ WorkIds : /\ workQueue'[w] = NewRow(key, outs, prio)
                                          /\ RowsOf(key) = {}
                                          /\ WorkIds' = WorkIds \cup {w}
<1>1. /\ workQueue \in [WorkIds -> WorkRow] /\ WorkIds = DOMAIN workQueue
      /\ WorkIds \subseteq 1..lastWork /\ lastWork \in Nat
  BY DEF DatabaseInv, TypeOK, WorkIds
<1>2. CASE /\ RowsOf(key) = {}
           /\ lastWork' = lastWork + 1
           /\ workQueue' = [w \in WorkIds \cup {lastWork'} |->
                              IF w = lastWork' THEN NewRow(key, outs, prio)
                              ELSE workQueue[w]]
  <2>1. lastWork' \notin WorkIds /\ WorkIds' = WorkIds \cup {lastWork'}
    BY <1>1, <1>2 DEF WorkIds
  <2> QED
    BY <1>2, <2>1
<1>3. CASE \E w \in RowsOf(key) :
             workQueue' = [workQueue EXCEPT ![w] = Merged(workQueue[w], outs, prio)]
  BY <1>1, <1>3 DEF RowsOf, WorkIds
<1> QED
  BY <1>2, <1>3 DEF Enqueue

\* Dequeue, Complete, Release, Fail and Retry change one row, and of it neither
\* the song nor the outputs.
LEMMA StatusRows ==
  ASSUME DatabaseInv, NEW w,
         Dequeue(w) \/ Complete(w) \/ Release(w) \/ Fail(w) \/ Retry(w)
  PROVE  /\ w \in WorkIds /\ WorkIds' = WorkIds
         /\ workQueue'[w].key = workQueue[w].key
         /\ workQueue'[w].outs = workQueue[w].outs
         /\ Dequeue(w) => Queued(w) /\ workQueue'[w].status = "processing"
         /\ Complete(w) => Claimed(w) /\ workQueue'[w].status = "done"
         /\ Release(w) => Claimed(w) /\ workQueue'[w].status = "pending"
         /\ Fail(w) => Claimed(w) /\ workQueue'[w].status = "failed"
         /\ Retry(w) => workQueue[w].status = "failed" /\ workQueue'[w].status = "pending"
         /\ \A v \in WorkIds \ {w} : workQueue'[v] = workQueue[v]
<1>1. workQueue \in [WorkIds -> WorkRow] /\ WorkIds = DOMAIN workQueue
  BY DEF DatabaseInv, TypeOK, WorkIds
<1>2. CASE Dequeue(w)
  BY <1>1, <1>2 DEF Dequeue, Ready, WorkIds, WorkRow, Claimed, Complete, Release, Fail,
     Retry, Failed, Queued, Retryable
<1>3. CASE Complete(w) \/ Release(w)
  BY <1>1, <1>3 DEF Complete, Release, Claimed, WorkIds, WorkRow, Dequeue, Ready, Fail,
     Retry, Failed, Queued, Retryable
<1>4. CASE Fail(w)
  BY <1>1, <1>4 DEF Fail, Claimed, WorkIds, WorkRow, Dequeue, Ready, Complete, Release,
     Retry, Failed, Queued, Retryable
<1>5. CASE Retry(w)
  BY <1>1, <1>5 DEF Retry, Failed, WorkIds, WorkRow, Dequeue, Ready, Complete, Release,
     Fail, Claimed, Queued, Retryable
<1> QED
  BY <1>2, <1>3, <1>4, <1>5

\* The life of a work row under them: a new one is pending, one that goes was
\* not claimed, and one that stays keeps its song and its status, and its
\* outputs once it is claimed.
LEMMA BystanderRows ==
  ASSUME DatabaseInv, Bystanders
  PROVE  /\ \A w \in WorkIds' \ WorkIds : workQueue'[w].status = "pending"
         /\ \A w \in WorkIds \ WorkIds' : workQueue[w].status # "processing"
         /\ \A w \in WorkIds \cap WorkIds' : RowUntouched(w)
<1>1. /\ workQueue \in [WorkIds -> WorkRow] /\ WorkIds = DOMAIN workQueue
      /\ \A w \in WorkIds : workQueue[w] \in WorkRow
  BY DEF DatabaseInv, TypeOK, WorkIds
<1>2. CASE ScanSide
  BY <1>1, <1>2 DEF ScanSide, AddLibrary, RemoveLibrary, Upsert, SetStatus, WorkIds, RowUntouched
<1>3. CASE \/ \E s \in ScanIds, key \in Keys : EnqueueScan(s, key)
           \/ \E key \in Keys : EnqueueHook(key)
  <2>1. PICK key, outs, prio, S : Enqueue(key, outs, prio, S)
    BY <1>3 DEF EnqueueScan, EnqueueHook
  <2>2. \A w \in WorkIds : RowUntouched(w)
    BY <1>1, <2>1, EnqueueRows, MergedKeeps DEF RowUntouched
  <2>3. NewRow(key, outs, prio).status = "pending"
    BY DEF NewRow
  <2> QED
    BY <2>1, <2>2, <2>3, EnqueueRows
<1>4. CASE (\E key \in Keys : Cleanup(key)) \/ ClearDone
  <2>1. PICK gone \in SUBSET WorkIds :
          /\ workQueue' = [w \in WorkIds \ gone |-> workQueue[w]]
          /\ \A w \in gone : workQueue[w].status # "processing"
    BY <1>4 DEF Cleanup, ClearDone, Restrict, RowsOf, Queued, Retryable, WorkIds
  <2> QED
    BY <2>1 DEF WorkIds, RowUntouched
<1>5. CASE \E l \in Libraries : ScanClear(l)
  <2>1. PICK l \in Libraries : ScanClear(l)
    BY <1>5
  <2>2. workQueue' = [w \in WorkIds \ Canceled(l) |->
                        IF w \in Candidates(l)
                        THEN [workQueue[w] EXCEPT
                                !.outs = workQueue[w].outs \cap KeepSet(w, l)]
                        ELSE workQueue[w]]
        /\ WorkIds' = WorkIds \ Canceled(l)
    BY <2>1 DEF ScanClear, WorkIds
  <2>3. \A w \in Candidates(l) : workQueue[w].status \in {"pending", "failed"}
    BY DEF Candidates, Queued, Retryable
  <2>4. \A w \in WorkIds : w \in Canceled(l) => w \in Candidates(l)
    BY DEF Canceled
  <2>5. \A w \in WorkIds' :
          /\ workQueue'[w].key = workQueue[w].key
          /\ workQueue'[w].status = workQueue[w].status
          /\ w \notin Candidates(l) => workQueue'[w] = workQueue[w]
    BY <1>1, <2>2 DEF WorkRow
  <2> QED
    BY <2>2, <2>3, <2>4, <2>5 DEF RowUntouched, Settled
<1>6. CASE Tick
  BY <1>1, <1>6 DEF Tick, WorkRow, WorkIds, RowUntouched
<1> QED
  BY <1>2, <1>3, <1>4, <1>5, <1>6 DEF Bystanders

\* All other transactions change the status of one row, as StatusRows says.
LEMMA TwoSorts ==
  ASSUME DatabaseNext
  PROVE  \/ Bystanders
         \/ \E w \in WorkIds :
              Dequeue(w) \/ Complete(w) \/ Release(w) \/ Fail(w) \/ Retry(w)
BY DEF DatabaseNext, QueueSide, Bystanders

\* No transaction touches the song or the outputs of a claimed row.
LEMMA ClaimsStep ==
  ASSUME DatabaseInv, [DatabaseNext]_tables
  PROVE  [ClaimsUntouched]_tables
<1>1. CASE Bystanders
  BY <1>1, BystanderRows DEF ClaimsUntouched, RowUntouched, Settled
<1>2. CASE \E w \in WorkIds :
             Dequeue(w) \/ Complete(w) \/ Release(w) \/ Fail(w) \/ Retry(w)
  BY <1>2, StatusRows DEF ClaimsUntouched
<1> QED
  BY <1>1, <1>2, TwoSorts

\* Nothing that another process does to the queue changes the song or the
\* outputs of a row that a worker holds, or deletes the row (the status
\* guards of Enqueue, Cleanup, Retry, ClearDone and CancelByLibrary).
THEOREM ClaimsProtected == DatabaseSpec => ClaimProtected
<1>1. DatabaseInv /\ [DatabaseNext]_tables => [ClaimsUntouched]_tables
  BY ClaimsStep
<1> QED
  BY <1>1, DatabaseInvariant, PTL DEF DatabaseSpec, ClaimProtected

-----------------------------------------------------------------------------
(* The other action properties.                                            *)

\* A scan row stays done while the queue changes.
LEMMA ScanRowsStayDone ==
  ASSUME DatabaseInv, DatabaseNext, workQueue' # workQueue,
         NEW s \in ScanIds \cap ScanIds', scanResults[s].status = "done"
  PROVE  scanResults'[s].status = "done"
<1>1. scanResults \in [ScanIds -> ScanRow] /\ ScanIds = DOMAIN scanResults
  BY DEF DatabaseInv, TypeOK, ScanIds
<1>2. ~ScanSide
  BY DEF ScanSide, AddLibrary, RemoveLibrary, Upsert, SetStatus
<1>3. CASE \E w \in WorkIds : Complete(w) \/ Retry(w)
  BY <1>1, <1>3 DEF Complete, Retry, ResetStatus, ScanRow, ScanIds
<1>4. CASE \E l \in Libraries : ScanClear(l)
  BY <1>1, <1>4 DEF ScanClear, Restrict, ScanIds
<1>5. CASE UNCHANGED scanResults
  BY <1>5
<1> QED
  BY <1>2, <1>3, <1>4, <1>5 DEF DatabaseNext, QueueSide, EnqueueScan, EnqueueHook,
     Enqueue, Cleanup, Dequeue, Release, Fail, ClearDone, Tick

\* Only Complete finishes a row, and it finishes the linked scan rows with it;
\* no transaction on the queue reopens a scan row that is done (Complete, Retry
\* and CancelByLibrary of the source).
THEOREM FinishedTogether == DatabaseSpec => DoneTogether
<1> DEFINE Finishes ==
      \A w \in WorkIds \cap WorkIds' :
        /\ workQueue[w].status # "done" /\ workQueue'[w].status = "done"
        => \A s \in LinkedTo(w) : s \in ScanIds' /\ scanResults'[s].status = "done"
           StayDone ==
      workQueue' # workQueue
        => \A s \in ScanIds \cap ScanIds' :
             scanResults[s].status = "done" => scanResults'[s].status = "done"
<1>1. ASSUME DatabaseInv, DatabaseNext PROVE Finishes
  <2> SUFFICES ASSUME NEW w \in WorkIds \cap WorkIds', workQueue[w].status # "done",
                      workQueue'[w].status = "done", NEW s \in LinkedTo(w)
               PROVE  s \in ScanIds' /\ scanResults'[s].status = "done"
    OBVIOUS
  <2>1. Complete(w)
    BY <1>1, TwoSorts, BystanderRows, StatusRows DEF RowUntouched
  <2>2. scanResults[s] \in ScanRow /\ s \in ScanIds
    BY <1>1 DEF DatabaseInv, TypeOK, LinkedTo
  <2> QED
    BY <2>1, <2>2 DEF Complete, WrittenBack, ScanIds, ScanRow
<1>2. ASSUME DatabaseInv, DatabaseNext PROVE StayDone
  BY <1>2, ScanRowsStayDone
<1>3. DatabaseInv /\ [DatabaseNext]_tables => [Finishes /\ StayDone]_tables
  BY <1>1, <1>2
<1> QED
  BY <1>3, DatabaseInvariant, PTL DEF DatabaseSpec, DoneTogether

\* Clearing a library keeps of each queued row exactly the outputs that scan
\* rows of other libraries vouch for (keepSetForRow and CancelByLibrary).
THEOREM ClearsExactly == DatabaseSpec => ScanClearExact
<1> DEFINE Exact ==
      \A l \in Libraries : ScanClear(l) =>
        \A w \in WorkIds :
          IF Queued(w) /\ \E s \in LinkedTo(w) : LibraryOf(s) = l
          THEN \A p \in Paths :
                 (w \in WorkIds' /\ p \in workQueue'[w].outs) <=>
                   /\ p \in workQueue[w].outs
                   /\ \E s \in LinkedTo(w) \cap ScanIds' :
                        PathOf[scanResults[s].file] = p
          ELSE w \in WorkIds' /\ workQueue'[w] = workQueue[w]
<1>1. ASSUME DatabaseInv PROVE Exact
  <2> SUFFICES ASSUME NEW l \in Libraries, ScanClear(l), NEW w \in WorkIds
               PROVE  IF w \in Candidates(l)
                      THEN \A p \in Paths :
                             (w \in WorkIds' /\ p \in workQueue'[w].outs) <=>
                               /\ p \in workQueue[w].outs
                               /\ \E s \in LinkedTo(w) \cap ScanIds' :
                                    PathOf[scanResults[s].file] = p
                      ELSE w \in WorkIds' /\ workQueue'[w] = workQueue[w]
    BY DEF Candidates
  <2>1. /\ WorkIds' = WorkIds \ Canceled(l)
        /\ ScanIds' = {s \in ScanIds : LibraryOf(s) # l}
        /\ w \notin Canceled(l) =>
             workQueue'[w] = IF w \in Candidates(l)
                             THEN [workQueue[w] EXCEPT
                                     !.outs = workQueue[w].outs \cap KeepSet(w, l)]
                             ELSE workQueue[w]
    BY DEF ScanClear, Restrict, WorkIds, ScanIds
  <2>2. workQueue[w] \in WorkRow
    BY <1>1 DEF DatabaseInv, TypeOK
  <2>3. \A p : p \in KeepSet(w, l) <=> \E s \in LinkedTo(w) \cap ScanIds' :
                                         PathOf[scanResults[s].file] = p
    BY <2>1 DEF KeepSet, LinkedTo
  <2>4. CASE w \in Candidates(l) /\ w \notin Canceled(l)
    <3>1. workQueue'[w].outs = workQueue[w].outs \cap KeepSet(w, l)
      BY <2>1, <2>2, <2>4 DEF WorkRow
    <3> QED
      BY <2>1, <2>3, <2>4, <3>1
  <2>5. CASE w \in Canceled(l)
    <3>1. workQueue[w].outs \cap KeepSet(w, l) = {} /\ w \in Candidates(l)
      BY <2>5 DEF Canceled
    <3> QED
      BY <2>1, <2>3, <2>5, <3>1
  <2>6. CASE w \notin Candidates(l)
    BY <2>1, <2>6 DEF Canceled
  <2> QED
    BY <2>4, <2>5, <2>6
<1>2. DatabaseInv /\ [DatabaseNext]_tables => [Exact]_tables
  BY <1>1
<1> QED
  BY <1>2, DatabaseInvariant, PTL DEF DatabaseSpec, ScanClearExact

\* ON CONFLICT of Enqueue keeps the backoff of a failed row when a scan asks.
LEMMA MergedBackoff ==
  ASSUME NEW row \in WorkRow, row.status = "failed", NEW outs
  PROVE  Merged(row, outs, PriorityScan).wait = row.wait
BY DEF Merged, Settled, PriorityScan, PriorityWebhook, WorkRow

\* Whatever a bulk scan enqueues, no failed row comes forward for it.
LEMMA ScanKeepsBackoff ==
  ASSUME DatabaseInv, NEW w \in WorkIds, workQueue[w].status = "failed",
         NEW s \in ScanIds, NEW key \in Keys, EnqueueScan(s, key)
  PROVE  workQueue'[w].wait = workQueue[w].wait
<1>1. workQueue[w] \in WorkRow
  BY DEF DatabaseInv, TypeOK, WorkIds
<1>2. PICK outs, S : Enqueue(key, outs, PriorityScan, S)
  BY DEF EnqueueScan
<1>3. \/ workQueue'[w] = workQueue[w]
      \/ workQueue'[w] = Merged(workQueue[w], outs, PriorityScan)
  BY <1>2, EnqueueRows
<1> QED
  BY <1>1, <1>3, MergedBackoff

\* A failed row waits out its backoff unless the operator retries it or a
\* webhook asks for its song in that very step; no scan that finds the song
\* again brings it forward, not even a row that a webhook had raised before
\* (the CASE on next_attempt_at in Enqueue).
THEOREM BackoffKept == DatabaseSpec => BackoffHonoured
<1> DEFINE Honoured(w) ==
      Hurried(w) =>
        /\ Tick \/ Retry(w) \/ EnqueueHook(workQueue[w].key)
        /\ ~ \E s \in ScanIds, key \in Keys : EnqueueScan(s, key)
<1>1. ASSUME DatabaseInv, DatabaseNext, NEW w \in WorkIds \cap WorkIds', Hurried(w)
      PROVE  Tick \/ Retry(w) \/ EnqueueHook(workQueue[w].key)
  <2>1. /\ workQueue \in [WorkIds -> WorkRow] /\ WorkIds = DOMAIN workQueue
        /\ workQueue[w] \in WorkRow /\ workQueue[w].wait \in Nat
        /\ workQueue[w].status = "failed"
    BY <1>1 DEF DatabaseInv, TypeOK, WorkIds, WorkRow, Hurried
  <2>2. workQueue'[w].wait # workQueue[w].wait
    BY <1>1, <2>1 DEF Hurried
  <2>3. CASE ScanSide
    BY <2>2, <2>3 DEF ScanSide, AddLibrary, RemoveLibrary, Upsert, SetStatus
  <2>4. CASE \E s \in ScanIds, key \in Keys : EnqueueScan(s, key)
    BY <1>1, <2>1, <2>2, <2>4, ScanKeepsBackoff
  <2>5. CASE \E key \in Keys : EnqueueHook(key)
    <3>1. PICK key \in Keys : EnqueueHook(key)
      BY <2>5
    <3>2. workQueue'[w] = workQueue[w] \/ workQueue[w].key = key
      BY <1>1, <3>1, EnqueueRows DEF EnqueueHook
    <3> QED
      BY <2>2, <3>1, <3>2
  <2>6. CASE \/ ClearDone
             \/ \E key \in Keys : Cleanup(key)
    BY <1>1, <2>2, <2>6 DEF ClearDone, Cleanup, Restrict, WorkIds
  <2>7. CASE \E l \in Libraries : ScanClear(l)
    BY <1>1, <2>1, <2>2, <2>7 DEF ScanClear, WorkRow, WorkIds
  <2>8. CASE \E v \in WorkIds : Retry(v)
    <3>1. PICK v \in WorkIds : Retry(v)
      BY <2>8
    <3>2. CASE v # w
      BY <1>1, <2>2, <3>1, <3>2, StatusRows
    <3> QED
      BY <3>1, <3>2
  <2>9. CASE \E v \in WorkIds : Dequeue(v) \/ Complete(v) \/ Release(v)
    BY <1>1, <2>1, <2>2, <2>9 DEF Dequeue, Complete, Release, WorkRow, WorkIds
  <2>10. CASE \E v \in WorkIds : Fail(v)
    <3>1. PICK v \in WorkIds : Fail(v)
      BY <2>10
    <3>2. CASE v = w
      BY <2>1, <3>1, <3>2 DEF Fail, Claimed
    <3>3. CASE v # w
      BY <1>1, <2>2, <3>1, <3>3, StatusRows
    <3> QED
      BY <3>2, <3>3
  <2>11. CASE Tick
    BY <2>11
  <2> QED
    BY <1>1, <2>3, <2>4, <2>5, <2>6, <2>7, <2>8, <2>9, <2>10, <2>11 DEF DatabaseNext, QueueSide
<1>2. ASSUME DatabaseInv, NEW w \in WorkIds \cap WorkIds', Hurried(w)
      PROVE  ~ \E s \in ScanIds, key \in Keys : EnqueueScan(s, key)
  <2>1. workQueue[w].status = "failed" /\ workQueue[w].wait \in Nat
    BY <1>2 DEF DatabaseInv, TypeOK, WorkIds, WorkRow, Hurried
  <2>2. workQueue'[w].wait # workQueue[w].wait
    BY <1>2, <2>1 DEF Hurried
  <2> QED
    BY <1>2, <2>1, <2>2, ScanKeepsBackoff
<1>3. DatabaseInv /\ [DatabaseNext]_tables => [\A w \in WorkIds \cap WorkIds' : Honoured(w)]_tables
  BY <1>1, <1>2
<1> QED
  BY <1>3, DatabaseInvariant, PTL DEF DatabaseSpec, BackoffHonoured

-----------------------------------------------------------------------------
(* The refinement of Ledger.                                               *)

\* A song's job is that of its row, and none without a row.
JobsFit ==
  /\ \A w \in WorkIds : /\ workQueue[w].key \in Keys
                        /\ JobStates[workQueue[w].key] = JobOf(workQueue[w].status)
  /\ \A k \in Keys : (\A w \in WorkIds : workQueue[w].key # k) => JobStates[k] = "none"

\* The refinement mapping finds the one row of a song.
LEMMA JobOfSong == DatabaseInv => JobsFit
<1> SUFFICES ASSUME DatabaseInv PROVE JobsFit
  OBVIOUS
<1>1. ASSUME NEW w \in WorkIds
      PROVE  /\ workQueue[w].key \in Keys
             /\ JobStates[workQueue[w].key] = JobOf(workQueue[w].status)
  <2>1. workQueue[w].key \in Keys
    BY DEF DatabaseInv, TypeOK, WorkRow
  <2>2. RowsOf(workQueue[w].key) = {w}
    BY DEF DatabaseInv, KeysUnique, RowsOf
  <2>3. (CHOOSE v \in RowsOf(workQueue[w].key) : TRUE) = w
    BY <2>2
  <2> QED
    BY <2>1, <2>2, <2>3 DEF JobStates
<1>2. ASSUME NEW k \in Keys, \A w \in WorkIds : workQueue[w].key # k
      PROVE  JobStates[k] = "none"
  BY <1>2 DEF JobStates, RowsOf
<1> QED
  BY <1>1, <1>2 DEF JobsFit

\* When the songs of K go from one state to another and the rows of all other
\* songs stay and keep theirs, the ledger makes a move.
LEMMA RowsMove ==
  ASSUME DatabaseInv, DatabaseInv', NEW K \in SUBSET Keys, NEW from, NEW to,
         \A w \in WorkIds \cap WorkIds' :
           /\ workQueue'[w].key = workQueue[w].key
           /\ workQueue[w].key \notin K
              => JobOf(workQueue'[w].status) = JobOf(workQueue[w].status),
         \A w \in WorkIds \ WorkIds' : workQueue[w].key \in K,
         \A w \in WorkIds' \ WorkIds : workQueue'[w].key \in K,
         \A k \in K : JobStates[k] = from /\ JobStates'[k] = to
  PROVE  Jobs!Move(K, from, to)
<1>1. JobsFit
  BY JobOfSong
<1>2. JobsFit'
  BY JobOfSong, PTL
<1>3. \A k \in Keys : JobStates'[k] = IF k \in K THEN to ELSE JobStates[k]
  <2> SUFFICES ASSUME NEW k \in Keys, k \notin K
               PROVE  JobStates'[k] = JobStates[k]
    OBVIOUS
  <2>1. CASE \E w \in WorkIds : workQueue[w].key = k
    <3>1. PICK w \in WorkIds : workQueue[w].key = k
      BY <2>1
    <3>2. /\ w \in WorkIds' /\ workQueue'[w].key = k
          /\ JobOf(workQueue'[w].status) = JobOf(workQueue[w].status)
      BY <3>1
    <3> QED
      BY <1>1, <1>2, <3>1, <3>2 DEF JobsFit
  <2>2. CASE \A w \in WorkIds : workQueue[w].key # k
    <3>1. \A w \in WorkIds' : workQueue'[w].key # k
      BY <2>2
    <3> QED
      BY <1>1, <1>2, <2>2, <3>1 DEF JobsFit
  <2> QED
    BY <2>1, <2>2
<1>4. JobStates' = [k \in Keys |-> JobStates'[k]]
  BY DEF JobStates
<1> QED
  BY <1>3, <1>4 DEF Jobs!Move

\* Each transaction is a step of the ledger, or leaves every job as it was.
LEMMA LedgerStep ==
  ASSUME DatabaseInv, DatabaseInv', DatabaseNext
  PROVE  Jobs!LedgerNext \/ JobStates' = JobStates
<1>1. JobsFit /\ JobsFit'
  BY JobOfSong, PTL
<1>2. /\ workQueue \in [WorkIds -> WorkRow] /\ WorkIds = DOMAIN workQueue
      /\ \A w \in WorkIds : workQueue[w] \in WorkRow
      /\ \A v, w \in WorkIds : workQueue[v].key = workQueue[w].key => v = w
  BY DEF DatabaseInv, TypeOK, KeysUnique, WorkIds
\* The rows stay, and so do their jobs.
<1>3. ASSUME WorkIds' = WorkIds,
             \A w \in WorkIds : /\ workQueue'[w].key = workQueue[w].key
                                /\ JobOf(workQueue'[w].status) = JobOf(workQueue[w].status)
      PROVE  JobStates' = JobStates
  <2>1. Jobs!Move({}, "none", "none")
    BY <1>3, RowsMove
  <2> QED
    BY <2>1 DEF Jobs!Move, JobStates
\* One row changes its job.
<1>4. ASSUME NEW w \in WorkIds, WorkIds' = WorkIds,
             workQueue'[w].key = workQueue[w].key,
             \A v \in WorkIds \ {w} : workQueue'[v] = workQueue[v]
      PROVE  /\ workQueue[w].key \in Keys
             /\ Jobs!Move({workQueue[w].key}, JobOf(workQueue[w].status),
                          JobOf(workQueue'[w].status))
  BY <1>1, <1>2, <1>4, RowsMove DEF JobsFit
\* Rows of one job are deleted.
<1>5. ASSUME NEW gone \in SUBSET WorkIds, NEW from, WorkIds' = WorkIds \ gone,
             \A w \in gone : JobOf(workQueue[w].status) = from,
             \A w \in WorkIds' : /\ workQueue'[w].key = workQueue[w].key
                                 /\ workQueue'[w].status = workQueue[w].status
      PROVE  \E K \in SUBSET Keys : Jobs!Move(K, from, "none")
  <2> DEFINE K == {workQueue[w].key : w \in gone}
  <2>1. K \in SUBSET Keys /\ \A k \in K : JobStates[k] = from
    BY <1>1, <1>5 DEF JobsFit
  <2>2. \A k \in K : JobStates'[k] = "none"
    BY <1>1, <1>2, <1>5, <2>1 DEF JobsFit
  <2>3. Jobs!Move(K, from, "none")
    BY <1>5, <2>1, <2>2, RowsMove
  <2> QED
    BY <2>1, <2>3
<1>6. /\ JobOf("pending") = "queued" /\ JobOf("failed") = "queued"
      /\ JobOf("processing") = "claimed" /\ JobOf("done") = "finished"
  BY DEF JobOf
<1>7. CASE ScanSide \/ Tick
  <2>1. WorkIds' = WorkIds
        /\ \A w \in WorkIds : /\ workQueue'[w].key = workQueue[w].key
                              /\ workQueue'[w].status = workQueue[w].status
    BY <1>2, <1>7 DEF ScanSide, AddLibrary, RemoveLibrary, Upsert, SetStatus, Tick,
       WorkIds, WorkRow
  <2> QED
    BY <1>3, <2>1
<1>8. CASE \/ \E s \in ScanIds, key \in Keys : EnqueueScan(s, key)
           \/ \E key \in Keys : EnqueueHook(key)
  <2>1. PICK key \in Keys : \E outs, prio, S : Enqueue(key, outs, prio, S)
    BY <1>8 DEF EnqueueScan, EnqueueHook
  <2>2. PICK outs, prio, S : Enqueue(key, outs, prio, S)
    BY <2>1
  <2>3. /\ WorkIds \subseteq WorkIds'
        /\ \A w \in WorkIds : /\ workQueue'[w].key = workQueue[w].key
                              /\ workQueue'[w].status = workQueue[w].status
    BY <1>2, <2>2, EnqueueRows, MergedKeeps
  <2>4. CASE WorkIds' = WorkIds
    BY <1>3, <2>3, <2>4
  <2>5. CASE WorkIds' # WorkIds
    <3>1. PICK w \in WorkIds' \ WorkIds : TRUE
      BY <2>3, <2>5
    <3>2. /\ workQueue'[w] = NewRow(key, outs, prio) /\ RowsOf(key) = {}
          /\ WorkIds' = WorkIds \cup {w}
      BY <2>2, <3>1, EnqueueRows
    <3>3. workQueue'[w].key = key /\ workQueue'[w].status = "pending"
      BY <3>2 DEF NewRow
    <3>4. JobStates[key] = "none" /\ JobStates'[key] = "queued"
      BY <1>1, <1>6, <3>1, <3>2, <3>3 DEF JobsFit, RowsOf
    <3>5. Jobs!Move({key}, "none", "queued")
      BY <2>3, <3>2, <3>3, <3>4, RowsMove
    <3> QED
      BY <3>5 DEF Jobs!LedgerNext, Jobs!Submit
  <2> QED
    BY <2>4, <2>5
<1>9. CASE (\E key \in Keys : Cleanup(key)) \/ \E l \in Libraries : ScanClear(l)
  <2>1. PICK gone \in SUBSET WorkIds :
          /\ WorkIds' = WorkIds \ gone
          /\ \A w \in gone : Queued(w)
          /\ \A w \in WorkIds' : /\ workQueue'[w].key = workQueue[w].key
                                 /\ workQueue'[w].status = workQueue[w].status
    <3>1. CASE \E key \in Keys : Cleanup(key)
      BY <3>1 DEF Cleanup, Restrict, RowsOf, WorkIds
    <3>2. CASE \E l \in Libraries : ScanClear(l)
      <4>1. PICK l \in Libraries : ScanClear(l)
        BY <3>2
      <4>2. /\ WorkIds' = WorkIds \ Canceled(l)
            /\ \A w \in WorkIds' : /\ workQueue'[w].key = workQueue[w].key
                                   /\ workQueue'[w].status = workQueue[w].status
        BY <1>2, <4>1 DEF ScanClear, WorkIds, WorkRow
      <4>3. Canceled(l) \subseteq WorkIds /\ \A w \in Canceled(l) : Queued(w)
        BY DEF Canceled, Candidates
      <4> QED
        BY <4>2, <4>3
    <3> QED
      BY <1>9, <3>1, <3>2
  <2>2. \A w \in gone : JobOf(workQueue[w].status) = "queued"
    BY <1>6, <2>1 DEF Queued, Retryable
  <2>3. \E K \in SUBSET Keys : Jobs!Move(K, "queued", "none")
    BY <1>5, <2>1, <2>2
  <2> QED
    BY <2>3 DEF Jobs!LedgerNext, Jobs!Withdraw
<1>10. CASE ClearDone
  <2> DEFINE gone == {w \in WorkIds : workQueue[w].status = "done"}
  <2>1. /\ WorkIds' = WorkIds \ gone
        /\ \A w \in WorkIds' : workQueue'[w] = workQueue[w]
        /\ \A w \in gone : JobOf(workQueue[w].status) = "finished"
    BY <1>6, <1>10 DEF ClearDone, Restrict, WorkIds
  <2>2. \E K \in SUBSET Keys : Jobs!Move(K, "finished", "none")
    BY <1>5, <2>1
  <2> QED
    BY <2>2 DEF Jobs!LedgerNext, Jobs!Forget
<1>11. CASE \E w \in WorkIds :
              Dequeue(w) \/ Complete(w) \/ Release(w) \/ Fail(w) \/ Retry(w)
  <2>1. PICK w \in WorkIds :
          Dequeue(w) \/ Complete(w) \/ Release(w) \/ Fail(w) \/ Retry(w)
    BY <1>11
  <2>2. /\ WorkIds' = WorkIds /\ workQueue'[w].key = workQueue[w].key
        /\ \A v \in WorkIds \ {w} : workQueue'[v] = workQueue[v]
    BY <2>1, StatusRows
  <2>3. /\ workQueue[w].key \in Keys
        /\ Jobs!Move({workQueue[w].key}, JobOf(workQueue[w].status),
                     JobOf(workQueue'[w].status))
    BY <1>4, <2>2
  <2>4. CASE Retry(w)
    BY <1>3, <1>6, <2>1, <2>2, <2>4, StatusRows
  <2>5. CASE Dequeue(w)
    <3>1. JobOf(workQueue[w].status) = "queued" /\ JobOf(workQueue'[w].status) = "claimed"
      BY <1>6, <2>5, StatusRows DEF Queued, Retryable
    <3> QED
      BY <2>3, <3>1 DEF Jobs!LedgerNext, Jobs!Claim
  <2>6. CASE Complete(w)
    <3>1. JobOf(workQueue[w].status) = "claimed" /\ JobOf(workQueue'[w].status) = "finished"
      BY <1>6, <2>6, StatusRows DEF Claimed
    <3> QED
      BY <2>3, <3>1 DEF Jobs!LedgerNext, Jobs!Finish
  <2>7. CASE Release(w) \/ Fail(w)
    <3>1. JobOf(workQueue[w].status) = "claimed" /\ JobOf(workQueue'[w].status) = "queued"
      BY <1>6, <2>7, StatusRows DEF Claimed
    <3> QED
      BY <2>3, <3>1 DEF Jobs!LedgerNext, Jobs!GiveBack
  <2> QED
    BY <2>1, <2>4, <2>5, <2>6, <2>7
<1> QED
  BY <1>7, <1>8, <1>9, <1>10, <1>11 DEF DatabaseNext, QueueSide

\* The queue implements the ledger: whatever the processes do, a song has one
\* job at most, a claimed job is only finished or given back, never withdrawn
\* or claimed again, and a finished one is queued again only after it was
\* forgotten (the status conditions of the statements on work_queue).
THEOREM QueueImplementsLedger == DatabaseSpec => ImplementsLedger
<1>1. TablesInit => Jobs!LedgerInit
  BY DEF TablesInit, Jobs!LedgerInit, JobStates, RowsOf, WorkIds
<1>2. DatabaseInv /\ DatabaseInv' /\ [DatabaseNext]_tables => [Jobs!LedgerNext]_JobStates
  <2> SUFFICES ASSUME DatabaseInv, DatabaseInv', [DatabaseNext]_tables
               PROVE  [Jobs!LedgerNext]_JobStates
    OBVIOUS
  <2>1. CASE DatabaseNext
    BY <2>1, LedgerStep
  <2>2. CASE UNCHANGED tables
    BY <2>2 DEF tables, JobStates, RowsOf, WorkIds
  <2> QED
    BY <2>1, <2>2
<1> QED
  BY <1>1, <1>2, DatabaseInvariant, PTL DEF DatabaseSpec, ImplementsLedger, Jobs!LedgerSpec

=============================================================================
