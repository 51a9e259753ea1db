------------------------------- MODULE Tables -------------------------------
(***************************************************************************)
(* The SQLite tables that the scan scheduler, the worker, the webhook      *)
(* handler and the command line share: libraries, scan_results,            *)
(* work_queue and the junction work_queue_scan_results.  The modules       *)
(* ScanRepo and WorkQueue give the transactions on them.                   *)
(*                                                                         *)
(* A table is a function from the ids of its live rows to the rows, so     *)
(* that its DOMAIN is the set of live ids; a row that is deleted leaves    *)
(* the domain and, the id columns being AUTOINCREMENT, its id is never     *)
(* used again.                                                             *)
(***************************************************************************)
EXTENDS Naturals, FiniteSets, Functions

CONSTANTS
  Files,       \* (library, audio file) pairs: the unique key of scan_results
  Libraries,   \* library ids, used at most once each
  Keys,        \* normalised (artist, title) pairs: the unique key of work_queue
  Paths,       \* (outdir, filename) pairs a lyrics file can be written to
  LibOf,       \* the library of a file
  PathOf,      \* the lyrics path of a file
  MaxScan,     \* bound: scan_results rows ever inserted
  MaxWork      \* bound: work_queue rows ever inserted

ASSUME TablesAssumption ==
  /\ IsFiniteSet(Files)
  /\ LibOf \in [Files -> Libraries]
  /\ PathOf \in [Files -> Paths]
  /\ MaxScan \in Nat
  /\ MaxWork \in Nat

VARIABLES
  libraries,     \* the state of each library id
  scanResults,   \* scan_results
  workQueue,     \* work_queue
  links,         \* work_queue_scan_results: pairs <<work id, scan id>>
  lastScan,      \* sqlite_sequence of scan_results
  lastWork       \* sqlite_sequence of work_queue

tables == <<libraries, scanResults, workQueue, links, lastScan, lastWork>>

-----------------------------------------------------------------------------
(* Rows.  work_queue.scan_result_id is left out: no statement reads it to  *)
(* decide anything, the junction does its work.  source_path is left out   *)
(* too: a row has one exactly when its output path is a file's.            *)

PriorityScan == 0
PriorityWebhook == 10

ScanStatus == {"pending", "processing", "done"}
WorkStatus == {"pending", "processing", "done", "failed"}

ScanRow == [file: Files, key: Keys, status: ScanStatus]

\* `wait` is how far next_attempt_at lies ahead of now, 0 once it has passed.
WorkRow == [key: Keys, status: WorkStatus, prio: {PriorityScan, PriorityWebhook},
            attempts: Nat, wait: Nat, outs: SUBSET Paths]

ScanIds == DOMAIN scanResults
WorkIds == DOMAIN workQueue

Present == {l \in Libraries : libraries[l] = "present"}

LibraryOf(s) == LibOf[scanResults[s].file]

\* The rows of scan_results that collapsed into work row w.
LinkedTo(w) == {s \in ScanIds : <<w, s>> \in links}

\* ON DELETE CASCADE of the junction, for deleted work rows W and scan rows S.
Unlinked(W, S) == {l \in links : l[1] \notin W /\ l[2] \notin S}

-----------------------------------------------------------------------------
TablesInit ==
  /\ libraries \in [Libraries -> {"unused", "present"}]
  /\ scanResults = [s \in {} |-> {}]
  /\ workQueue = [w \in {} |-> {}]
  /\ links = {}
  /\ lastScan = 0
  /\ lastWork = 0

\* The shape of the tables.
TypeOK ==
  /\ libraries \in [Libraries -> {"unused", "present", "removed"}]
  /\ lastScan \in 0..MaxScan
  /\ lastWork \in 0..MaxWork
  /\ ScanIds \subseteq 1..lastScan
  /\ WorkIds \subseteq 1..lastWork
  /\ scanResults \in [ScanIds -> ScanRow]
  /\ workQueue \in [WorkIds -> WorkRow]
  /\ links \subseteq (1..lastWork) \X (1..lastScan)

=============================================================================
