------------------------------ MODULE Service ------------------------------
(***************************************************************************)
(* The running system: the serve process with its scan scheduler and its   *)
(* worker, scans started from the command line, the webhook handler and    *)
(* the maintenance commands, all over the tables of module Database, the   *)
(* lyrics cache and the lyrics files on disk.                              *)
(*                                                                         *)
(* Every database statement or transaction, and every file written, is a   *)
(* step of its own; what a process remembers between two of its steps is   *)
(* in its local record and may be stale.                                   *)
(***************************************************************************)
EXTENDS Database

CONSTANTS
  Scanners,    \* scanning processes; "serve" is the scheduler's goroutine
  Forced,      \* those that run with --update: every file, status reset
  KeyOf,       \* the tags of a file
  Env          \* what may happen around the serve process in a run

Events ==
  {"crash",     \* a process dies without warning; serve is started again
   "stop",      \* serve is told to stop and is started again
   "busy",      \* SQLite refuses a statement (SQLITE_BUSY, disk full)
   "walk",      \* a library's directory cannot be read
   "undecodable", \* the columns of a claimed row cannot be decoded
   "limit",     \* the provider answers 429 or 401
   "miss",      \* the provider has no lyrics, or verification rejects them
   "empty",     \* the provider returns a song with nothing to save
   "unwritable", \* a lyrics file cannot be written
   "hook",      \* Lidarr reports downloaded or retagged tracks
   "delete",    \* Lidarr reports deleted tracks
   "clear",     \* scan clear --yes
   "retry",     \* queue retry
   "clearDone", \* queue clear --done --yes
   "library"}   \* library add, library remove

ASSUME ServiceAssumption ==
  /\ Forced \subseteq Scanners
  /\ KeyOf \in [Files -> Keys]
  /\ Env \subseteq Events

VARIABLES
  cache,      \* lyrics_cache: per song "none", "song" or "empty"
  written,    \* the <<path, song>> pairs WriteLRC has saved
  scanner,    \* per scanning process, its local state
  worker,     \* the worker's local state
  circuit,    \* the circuit breaker is open
  stopping    \* the context of serve is canceled

procs == <<scanner, worker, circuit, stopping>>
vars == <<tables, cache, written, procs>>

Songs == {"song", "empty"}
NoSong == "none"
NoItem == 0

\* `libs` are the libraries still to scan, `lib` the current one, `found` the
\* files its scan returned, `batch` the listed <<id, key>> pairs still to
\* enqueue, `cur` the one in hand.
ScannerIdle ==
  [pc |-> "idle", libs |-> {}, lib |-> "none", found |-> {}, batch |-> {},
   cur |-> <<>>]

\* `item` is the claimed row; `key` and `todo` are what Dequeue returns of it.
WorkerIdle ==
  [pc |-> "idle", item |-> NoItem, key |-> "none", todo |-> {}, song |-> NoSong]

ServiceInit ==
  /\ TablesInit
  /\ "library" \notin Env => Present = Libraries
  /\ cache = [k \in Keys |-> NoSong]
  /\ written = {}
  /\ scanner = [p \in Scanners |-> ScannerIdle]
  /\ worker = WorkerIdle
  /\ circuit = FALSE
  /\ stopping = FALSE

-----------------------------------------------------------------------------
(* scan.Scheduler.RunOnceFor and scan.Enqueuer.EnqueuePending.             *)

\* A lyrics file lies beside the audio file.
HasLyrics(f) == \E key \in Keys : <<PathOf[f], key>> \in written

\* A scanner whose context is canceled gets no further.
At(p, pc) == scanner[p].pc = pc /\ (p = "serve" => ~stopping)

Goto(p, pc) == scanner' = [scanner EXCEPT ![p].pc = pc]

\* Any error ends the run, and with it the scheduler's goroutine: Run returns
\* on the first error of RunOnce.  A command only ends its own process.
Ended(p) == IF p = "serve" THEN [ScannerIdle EXCEPT !.pc = "dead"] ELSE ScannerIdle

End(p) == scanner' = [scanner EXCEPT ![p] = Ended(p)]

OnlyScanner == UNCHANGED <<cache, written, worker, circuit, stopping>>

\* scan of all libraries, or with --library of some.
StartScan(p) ==
  /\ At(p, "idle")
  /\ \E L \in SUBSET Present :
       /\ L # {}
       /\ p = "serve" => L = Present
       /\ scanner' = [scanner EXCEPT ![p].pc = "library", ![p].libs = L]
  /\ UNCHANGED tables /\ OnlyScanner

\* Scanner.ScanLibrary: a file that has its lyrics is skipped unless --update.
ScanLibrary(p) ==
  /\ At(p, "library")
  /\ \E l \in scanner[p].libs :
       scanner' = [scanner EXCEPT
         ![p].pc = "upsert", ![p].libs = @ \ {l}, ![p].lib = l,
         ![p].found = {f \in Files : /\ LibOf[f] = l
                                     /\ p \in Forced \/ ~HasLyrics(f)}]
  /\ UNCHANGED tables /\ OnlyScanner

UpsertResults(p) ==
  /\ At(p, "upsert")
  /\ Upsert(scanner[p].lib, scanner[p].found,
            [f \in scanner[p].found |-> KeyOf[f]], p \in Forced)
  /\ scanner' = [scanner EXCEPT ![p].pc = "list", ![p].found = {}]
  /\ OnlyScanner

\* The library was removed after it was listed.
UpsertRefused(p) ==
  /\ At(p, "upsert")
  /\ scanner[p].found # {}
  /\ scanner[p].lib \notin Present
  /\ End(p)
  /\ UNCHANGED tables /\ OnlyScanner

\* Any other call that returns an error; that of Enqueue is SubmitFails.
ScanFails(p) ==
  /\ \/ "walk" \in Env /\ At(p, "library")
     \/ "busy" \in Env /\ \E pc \in {"idle", "upsert", "list", "next", "hit",
                                   "reserve", "restore"} : At(p, pc)
  /\ End(p)
  /\ UNCHANGED tables /\ OnlyScanner

\* Mutant of Listed: reserved rows are listed again.
ListedReserved == {"pending", "processing"}

\* The status ListPendingByLibrary selects.
Listed == {"pending"}

ListPending(p) ==
  /\ At(p, "list")
  /\ scanner' = [scanner EXCEPT
       ![p].pc = "next",
       ![p].batch = {<<s, scanResults[s].key>> :
                       s \in {t \in ScanIds : /\ LibraryOf(t) = scanner[p].lib
                                              /\ scanResults[t].status \in Listed}}]
  /\ UNCHANGED tables /\ OnlyScanner

\* The next listed row, in id order, is looked up in the cache.
Lookup(p) ==
  /\ At(p, "next")
  /\ \E c \in scanner[p].batch :
       /\ \A d \in scanner[p].batch : c[1] <= d[1]
       /\ scanner' = [scanner EXCEPT
            ![p].pc = IF cache[c[2]] # NoSong THEN "hit" ELSE "reserve",
            ![p].batch = @ \ {c}, ![p].cur = c]
  /\ UNCHANGED tables /\ OnlyScanner

NextLibrary(p) ==
  /\ At(p, "next")
  /\ scanner[p].batch = {}
  /\ scanner' = [scanner EXCEPT
       ![p] = [ScannerIdle EXCEPT
                 !.pc = IF scanner[p].libs = {} THEN "idle" ELSE "library",
                 !.libs = scanner[p].libs]]
  /\ UNCHANGED tables /\ OnlyScanner

\* SetStatus on the row in hand; the run ends if the row is gone.
Mark(p, status, pc) ==
  LET s == scanner[p].cur[1]
  IN  IF s \in ScanIds
      THEN SetStatus(s, status) /\ Goto(p, pc)
      ELSE UNCHANGED tables /\ End(p)

MarkHit(p) == At(p, "hit") /\ Mark(p, "done", "next") /\ OnlyScanner
Reserve(p) == At(p, "reserve") /\ Mark(p, "processing", "submit") /\ OnlyScanner
Restore(p) ==
  /\ At(p, "restore")
  /\ LET s == scanner[p].cur[1]
     IN  IF s \in ScanIds THEN SetStatus(s, "pending") ELSE UNCHANGED tables
  /\ End(p) /\ OnlyScanner

\* Mutant of Submit: the scan row is not linked to its work.
SubmitUnlinked(p) ==
  /\ At(p, "submit")
  /\ scanner[p].cur[1] \in ScanIds
  /\ Enqueue(scanner[p].cur[2], {PathOf[scanResults[scanner[p].cur[1]].file]},
             PriorityScan, {})
  /\ Goto(p, "next") /\ OnlyScanner

Submit(p) ==
  /\ At(p, "submit")
  /\ EnqueueScan(scanner[p].cur[1], scanner[p].cur[2])
  /\ Goto(p, "next") /\ OnlyScanner

\* The foreign key refuses the link to a deleted row, or the database is busy.
SubmitFails(p) ==
  /\ At(p, "submit")
  /\ scanner[p].cur[1] \notin ScanIds \/ "busy" \in Env
  /\ Goto(p, "restore")
  /\ UNCHANGED tables /\ OnlyScanner

Scan(p) ==
  \/ StartScan(p) \/ ScanLibrary(p) \/ UpsertResults(p) \/ UpsertRefused(p)
  \/ ScanFails(p) \/ ListPending(p) \/ Lookup(p) \/ NextLibrary(p) \/ MarkHit(p)
  \/ Reserve(p) \/ Restore(p) \/ Submit(p) \/ SubmitFails(p)

-----------------------------------------------------------------------------
(* worker.Worker.RunOnce.                                                  *)

OnlyWorker == UNCHANGED <<scanner, stopping>>

WorkerAt(pc) == worker.pc = pc
WorkerTo(pc) == worker' = [worker EXCEPT !.pc = pc]

\* The circuit gate, then the statement of Dequeue: the row is claimed, and what
\* RETURNING yields of it is on its way to the worker.
Claim ==
  /\ WorkerAt("idle") /\ ~circuit /\ ~stopping
  /\ \E w \in WorkIds :
       /\ Dequeue(w)
       /\ worker' = [pc |-> "answer", item |-> w, key |-> workQueue[w].key,
                     todo |-> workQueue[w].outs, song |-> NoSong]
  /\ UNCHANGED <<cache, written, circuit>> /\ OnlyWorker

\* Dequeue returns the claimed row.
Answered ==
  /\ WorkerAt("answer")
  /\ WorkerTo("resolve")
  /\ UNCHANGED <<tables, cache, written, circuit>> /\ OnlyWorker

\* Dequeue, which runs under the context of serve, returns an error after its
\* statement has taken effect; RunOnce neither fails nor releases the row.
AnswerLost ==
  /\ WorkerAt("answer")
  /\ stopping \/ "undecodable" \in Env
  /\ worker' = WorkerIdle
  /\ UNCHANGED <<tables, cache, written, circuit>> /\ OnlyWorker

\* song: LookupExact, then LookupFallback; entries are never deleted.
Resolve ==
  /\ WorkerAt("resolve") /\ ~stopping
  /\ worker' = [worker EXCEPT !.song = cache[worker.key],
                              !.pc = IF cache[worker.key] # NoSong
                                     THEN "write" ELSE "fetch"]
  /\ UNCHANGED <<tables, cache, written, circuit>> /\ OnlyWorker

\* FindLyrics, and verification of what it found.
Fetch ==
  /\ WorkerAt("fetch") /\ ~stopping
  /\ \E song \in IF "empty" \in Env THEN Songs ELSE {"song"} :
       worker' = [worker EXCEPT !.song = song, !.pc = "store"]
  /\ UNCHANGED <<tables, cache, written, circuit>> /\ OnlyWorker

\* tripCircuitIfRateLimited.
FetchLimited ==
  /\ WorkerAt("fetch") /\ "limit" \in Env
  /\ circuit' = TRUE
  /\ WorkerTo("release")
  /\ UNCHANGED <<tables, cache, written>> /\ OnlyWorker

\* The steps of an attempt that may fail, and what makes them.  A canceled
\* context fails every call that takes it; WriteLRC takes none.
MayFail ==
  \/ worker.pc \in {"resolve", "fetch", "store"} /\ stopping
  \/ worker.pc = "fetch" /\ "miss" \in Env
  \/ worker.pc \in {"resolve", "store", "complete"} /\ "busy" \in Env
  \/ worker.pc = "complete" /\ ~Claimed(worker.item)
  \/ worker.pc = "write" /\ (worker.song = "empty" \/ "unwritable" \in Env)

AttemptFails ==
  /\ MayFail
  /\ WorkerTo("fail")
  /\ UNCHANGED <<tables, cache, written, circuit>> /\ OnlyWorker

Store ==
  /\ WorkerAt("store") /\ ~stopping
  /\ cache' = [cache EXCEPT ![worker.key] = worker.song]
  /\ WorkerTo("write")
  /\ UNCHANGED <<tables, written, circuit>> /\ OnlyWorker

\* Mutant of Write: an error of WriteLRC is only logged.
WriteLogged ==
  /\ WorkerAt("write") /\ worker.song = "song"
  /\ \E path \in worker.todo :
       /\ \/ written' = written \cup {<<path, worker.key>>}
          \/ "unwritable" \in Env /\ UNCHANGED written
       /\ worker' = [worker EXCEPT !.todo = @ \ {path},
                                   !.pc = IF worker.todo = {path}
                                          THEN "complete" ELSE "write"]
  /\ UNCHANGED <<tables, cache, circuit>> /\ OnlyWorker

\* WriteLRC to one output path after the other.
Write ==
  /\ WorkerAt("write") /\ worker.song = "song"
  /\ \E path \in worker.todo :
       /\ written' = written \cup {<<path, worker.key>>}
       /\ worker' = [worker EXCEPT !.todo = @ \ {path},
                                   !.pc = IF worker.todo = {path}
                                          THEN "complete" ELSE "write"]
  /\ UNCHANGED <<tables, cache, circuit>> /\ OnlyWorker

\* One of queue.Complete, queue.Fail and queue.Release ends the attempt.
Rest == worker' = WorkerIdle /\ UNCHANGED <<cache, written, circuit>> /\ OnlyWorker

Finish   == WorkerAt("complete") /\ Complete(worker.item) /\ Rest
GiveUp   == WorkerAt("fail") /\ Fail(worker.item) /\ Rest

HandBack == WorkerAt("release") /\ Release(worker.item) /\ Rest

\* The row is not claimed any more (sql.ErrNoRows) or the statement itself
\* fails, which leaves the row in processing without a worker.
SettleFails ==
  /\ worker.pc \in {"fail", "release"}
  /\ ~Claimed(worker.item) \/ "busy" \in Env
  /\ UNCHANGED tables /\ Rest

CircuitCloses ==
  /\ circuit
  /\ circuit' = FALSE
  /\ UNCHANGED <<tables, cache, written, scanner, worker, stopping>>

Work ==
  \/ Claim \/ Answered \/ AnswerLost \/ Resolve \/ Fetch \/ FetchLimited
  \/ AttemptFails \/ Store \/ Write \/ Finish \/ GiveUp \/ HandBack
  \/ SettleFails \/ CircuitCloses

-----------------------------------------------------------------------------
(* Around the service.                                                     *)

\* Each track of a Lidarr event is a transaction of its own.
Webhook ==
  /\ \/ "hook" \in Env /\ \E key \in Keys : EnqueueHook(key)
     \/ "delete" \in Env /\ \E key \in Keys : Cleanup(key)
  /\ UNCHANGED <<cache, written, procs>>

Commands ==
  /\ \/ "clear" \in Env /\ \E l \in Present : ScanClear(l)
     \/ "retry" \in Env /\ \E w \in WorkIds : Retry(w)
     \/ "clearDone" \in Env /\ ClearDone
     \/ "library" \in Env /\ \E l \in Libraries : AddLibrary(l) \/ RemoveLibrary(l)
  /\ UNCHANGED <<cache, written, procs>>

Clock == Tick /\ UNCHANGED <<cache, written, procs>>

\* Mutant of Stop: the worker is not waited for.
StopAtOnce ==
  /\ "stop" \in Env /\ ~stopping
  /\ stopping' = TRUE
  /\ scanner' = [p \in Scanners |->
                   IF p = "serve" THEN ScannerIdle ELSE scanner[p]]
  /\ worker' = WorkerIdle
  /\ UNCHANGED <<tables, cache, written, circuit>>

\* The context of serve is canceled: its scheduler stops where it is, its
\* worker ends the attempt in hand.
Stop ==
  /\ "stop" \in Env /\ ~stopping
  /\ stopping' = TRUE
  /\ scanner' = [p \in Scanners |->
                   IF p = "serve" THEN ScannerIdle ELSE scanner[p]]
  /\ UNCHANGED <<tables, cache, written, worker, circuit>>

Restart ==
  /\ stopping /\ worker.pc = "idle"
  /\ stopping' = FALSE
  /\ circuit' = FALSE
  /\ UNCHANGED <<tables, cache, written, scanner, worker>>

\* serve dies and is started again; nothing of the queue is repaired then.
Crash ==
  /\ "crash" \in Env
  /\ scanner' = [p \in Scanners |->
                   IF p = "serve" THEN ScannerIdle ELSE scanner[p]]
  /\ worker' = WorkerIdle
  /\ circuit' = FALSE
  /\ stopping' = FALSE
  /\ UNCHANGED <<tables, cache, written>>

\* A scan command is interrupted.
Kill(p) ==
  /\ "crash" \in Env /\ p # "serve"
  /\ scanner' = [scanner EXCEPT ![p] = ScannerIdle]
  /\ UNCHANGED <<tables, cache, written, worker, circuit, stopping>>

ServiceNext ==
  \/ \E p \in Scanners : Scan(p) \/ Kill(p)
  \/ Work
  \/ Webhook \/ Commands \/ Clock
  \/ Stop \/ Restart \/ Crash

ServiceSpec == ServiceInit /\ [][ServiceNext]_vars

\* The worker's ticker and the scheduler's keep firing, the clock moves and
\* the circuit closes; the provider and the file system, asked again and
\* again for the same song, are sometimes there.
Fairness ==
  /\ WF_vars(Work) /\ WF_vars(Scan("serve")) /\ WF_vars(Clock)
  /\ WF_vars(CircuitCloses) /\ WF_vars(Restart)
  /\ \A k \in Keys : /\ SF_vars(Fetch /\ worker.key = k /\ worker'.song = "song")
                    /\ SF_vars(Write /\ worker.key = k)

FairServiceSpec == ServiceSpec /\ Fairness

-----------------------------------------------------------------------------
(* Properties of the queue protocol.                                       *)

\* What the worker read when it claimed a row is still true when it settles
\* it: the row is live, claimed and of the same song, and it still wants the
\* outputs that remain to be written.
ClaimIsCurrent ==
  worker.pc # "idle" =>
    /\ Claimed(worker.item)
    /\ workQueue[worker.item].key = worker.key
    /\ worker.todo \subseteq workQueue[worker.item].outs

\* A claimed row that is in nobody's hands stays in processing for ever.
Orphaned(w) == Claimed(w) /\ ~(worker.pc # "idle" /\ worker.item = w)

\* A row is orphaned by a death of serve, by an answer of Dequeue that is lost,
\* or by a refused Fail or Release.  An attempt that has got its row settles it
\* on every other way out, stops and rate limits included.
OrphansOnlyByFaults ==
  [][\A w \in WorkIds' : Orphaned(w)' => \/ w \in WorkIds /\ Orphaned(w)
                                         \/ Crash
                                         \/ AnswerLost
                                         \/ SettleFails]_vars

\* A row is done only when lyrics of its song lie at each of its outputs.
DoneWasWritten ==
  \A w \in WorkIds : workQueue[w].status = "done" =>
    \A path \in workQueue[w].outs : <<path, workQueue[w].key>> \in written

\* A scan row is reserved only while a scanner is about to enqueue it, to
\* restore it, or a work row is there to write it back.
ReservedIsBacked ==
  \A s \in ScanIds : scanResults[s].status = "processing" =>
    \/ \E w \in WorkIds : <<w, s>> \in links /\ workQueue[w].status # "done"
    \/ \E p \in Scanners : /\ scanner[p].pc \in {"submit", "restore"}
                           /\ scanner[p].cur[1] = s

\* What the local state of a process holds.
ScannerState ==
  [pc: {"idle", "library", "upsert", "list", "next", "hit", "reserve", "submit",
        "restore", "dead"},
   libs: SUBSET Libraries, lib: Libraries \cup {"none"}, found: SUBSET Files,
   batch: SUBSET (Nat \X Keys), cur: (Nat \X Keys) \cup {<<>>}]

WorkerState ==
  [pc: {"idle", "answer", "resolve", "fetch", "store", "write", "complete",
        "fail", "release"},
   item: Nat, key: Keys \cup {"none"}, todo: SUBSET Paths, song: Songs \cup {NoSong}]

\* Types, and what a scanner has in hand where it uses it.
ServiceTypeOK ==
  /\ cache \in [Keys -> Songs \cup {NoSong}]
  /\ circuit \in BOOLEAN /\ stopping \in BOOLEAN
  /\ worker \in WorkerState
  /\ scanner \in [Scanners -> ScannerState]
  /\ \A p \in Scanners :
       /\ scanner[p].pc = "upsert" => /\ scanner[p].lib \in Libraries
                                      /\ \A f \in scanner[p].found : LibOf[f] = scanner[p].lib
       /\ scanner[p].pc \in {"hit", "reserve", "submit", "restore"}
          => scanner[p].cur \in Nat \X Keys

\* Of the claimed row, the outputs that are not to do any more are written.
WrittenSoFar ==
  worker.pc # "idle" =>
    /\ \A path \in workQueue[worker.item].outs \ worker.todo :
         <<path, worker.key>> \in written
    /\ worker.pc = "complete" => worker.todo = {}

\* The conjunction TLAPS proves inductive.
ServiceInv ==
  DatabaseInv /\ ServiceTypeOK /\ ClaimIsCurrent /\ WrittenSoFar /\ DoneWasWritten

\* The work row and its scan rows agree that the work is done.
CompleteAgreement ==
  \A l \in links : workQueue[l[1]].status = "done" => scanResults[l[2]].status = "done"

\* A scan row leaves done only when a forced scan resets it.
PeriodicScansKeepDone ==
  [][\A s \in ScanIds \cap ScanIds' :
       scanResults[s].status = "done" /\ scanResults'[s].status # "done"
       => \E p \in Forced : scanner[p].pc = "upsert"]_vars

-----------------------------------------------------------------------------
(* What makes ReservedIsBacked and PeriodicScansKeepDone inductive, in the *)
(* circumstances in which they hold.                                       *)

\* The scheduler scans alone and is not interrupted, each file has a song of
\* its own, and nobody else touches the queue than the worker and ClearDone.
Calm ==
  /\ Scanners = {"serve"} /\ Forced = {}
  /\ Env \cap {"crash", "stop", "busy", "hook", "delete", "clear", "retry"} = {}
  /\ \A f, g \in Files : KeyOf[f] = KeyOf[g] => f = g

\* A song is not queued before its file is submitted.
Unqueued(s) == RowsOf(scanResults[s].key) = {}

\* A listed row, if it is still there, is as it was and not yet queued.
StillIs(c, status) ==
  c[1] \in ScanIds => /\ scanResults[c[1]].status = status
                      /\ scanResults[c[1]].key = c[2]
                      /\ Unqueued(c[1])

\* What the enqueuer has listed stays true of the rows that are still there.
ListingIsCurrent ==
  LET me == scanner["serve"]
  IN  /\ me.pc \notin {"next", "hit", "reserve", "submit", "restore"} => me.batch = {}
      /\ \A c \in me.batch : StillIs(c, "pending")
      /\ \A c, d \in me.batch : c[1] = d[1] => c = d
      /\ me.pc \in {"hit", "reserve", "submit"} => \A c \in me.batch : c[1] # me.cur[1]
      /\ me.pc \in {"hit", "reserve"} => StillIs(me.cur, "pending")
      /\ me.pc = "submit" => StillIs(me.cur, "processing")
      /\ me.pc = "restore" => me.cur[1] \notin ScanIds

\* Scan rows carry the tags of their files, a pending one is not queued, links
\* join rows of one song, and queued work stems from a file that is recorded
\* or whose library is gone for good.
RowsMatch ==
  /\ \A s \in ScanIds : /\ scanResults[s].key = KeyOf[scanResults[s].file]
                        /\ scanResults[s].status = "pending" => Unqueued(s)
  /\ \A l \in links : workQueue[l[1]].key = scanResults[l[2]].key
  /\ \A w \in WorkIds : \E f \in Files :
       /\ KeyOf[f] = workQueue[w].key
       /\ f \in Recorded \/ libraries[LibOf[f]] = "removed"

CalmInv == ListingIsCurrent /\ RowsMatch /\ ReservedIsBacked

\* What the processes do to the tables are transactions of Database.
UsesTransactions == DatabaseSpec

\* Every file found without lyrics gets them in the end, unless its library is
\* removed.
EveryFileSettles ==
  \A f \in Files : f \in Recorded ~> HasLyrics(f) \/ f \notin Recorded

=============================================================================
