--------------------------- MODULE Service_proofs ---------------------------
(***************************************************************************)
(* Theorems about module Service: any number of scanning processes, files, *)
(* songs and libraries, under any of the events around the service.        *)
(***************************************************************************)
EXTENDS Service, Database_proofs

-----------------------------------------------------------------------------
(* Types of the processes.                                                 *)

\* Facts about the constants and the local state that every proof needs.
LEMMA TypeFacts ==
  ASSUME ServiceTypeOK
  PROVE  /\ worker \in WorkerState
         /\ scanner \in [Scanners -> ScannerState]
         /\ \A p \in Scanners : scanner[p] \in ScannerState
         /\ ScannerIdle \in ScannerState /\ WorkerIdle \in WorkerState
         /\ \A p : Ended(p) \in ScannerState /\ Ended(p).pc \in {"idle", "dead"}
BY DEF ServiceTypeOK, ScannerIdle, ScannerState, WorkerIdle, WorkerState, Ended,
   NoItem, NoSong, Songs

\* A scanner whose new state has the right type and the right things in hand
\* keeps the invariant of all scanners.
ScannersOK ==
  /\ scanner \in [Scanners -> ScannerState]
  /\ \A p \in Scanners :
       /\ scanner[p].pc = "upsert" => /\ scanner[p].lib \in Libraries
                                      /\ \A f \in scanner[p].found : LibOf[f] = scanner[p].lib
       /\ scanner[p].pc \in {"hit", "reserve", "submit", "restore"}
          => scanner[p].cur \in Nat \X Keys

\* A step of one scanner is well typed if its new local state is.
LEMMA OneScanner ==
  ASSUME ScannersOK, NEW p \in Scanners, NEW new \in ScannerState,
         scanner' = [scanner EXCEPT ![p] = new],
         new.pc = "upsert" => new.lib \in Libraries /\ \A f \in new.found : LibOf[f] = new.lib,
         new.pc \in {"hit", "reserve", "submit", "restore"} => new.cur \in Nat \X Keys
  PROVE  ScannersOK'
BY DEF ScannersOK

\* Every step of a scanner keeps its local state well typed.
LEMMA ScanTypes ==
  ASSUME ServiceInv, NEW p \in Scanners, Scan(p)
  PROVE  ScannersOK'
<1> DEFINE old == scanner[p]
<1>1. /\ ScannersOK /\ old \in ScannerState
      /\ scanner \in [Scanners -> ScannerState]
      /\ ScannerIdle \in ScannerState /\ ScannerIdle.pc = "idle"
      /\ Ended(p) \in ScannerState /\ Ended(p).pc \in {"idle", "dead"}
  BY TypeFacts DEF ServiceInv, ServiceTypeOK, ScannersOK, ScannerIdle
<1>2. CASE End(p)
  BY <1>1, <1>2, OneScanner DEF End
<1>3. CASE StartScan(p)
  <2>1. PICK L \in SUBSET Present :
          scanner' = [scanner EXCEPT ![p].pc = "library", ![p].libs = L]
    BY <1>3 DEF StartScan
  <2> DEFINE new == [old EXCEPT !.pc = "library", !.libs = L]
  <2>2. new \in ScannerState /\ new.pc = "library"
    BY <1>1 DEF ScannerState, Present
  <2>3. scanner' = [scanner EXCEPT ![p] = new]
    BY <1>1, <2>1
  <2> HIDE DEF new
  <2> QED
    BY <1>1, <2>2, <2>3, OneScanner
<1>4. CASE ScanLibrary(p)
  <2>1. PICK l \in old.libs :
          scanner' = [scanner EXCEPT
            ![p].pc = "upsert", ![p].libs = @ \ {l}, ![p].lib = l,
            ![p].found = {f \in Files : /\ LibOf[f] = l
                                        /\ p \in Forced \/ ~HasLyrics(f)}]
    BY <1>4 DEF ScanLibrary
  <2> DEFINE F == {f \in Files : LibOf[f] = l /\ (p \in Forced \/ ~HasLyrics(f))}
             new == [old EXCEPT !.pc = "upsert", !.libs = old.libs \ {l}, !.lib = l,
                                !.found = F]
  <2>2. /\ new \in ScannerState /\ new.pc = "upsert" /\ new.lib = l /\ l \in Libraries
        /\ new.found = F /\ \A f \in F : LibOf[f] = l
    BY <1>1 DEF ScannerState
  <2>3. scanner' = [scanner EXCEPT ![p] = new]
    BY <1>1, <2>1
  <2> HIDE DEF new, F
  <2> QED
    BY <1>1, <2>2, <2>3, OneScanner
<1>5. CASE UpsertResults(p)
  <2> DEFINE new == [old EXCEPT !.pc = "list", !.found = {}]
  <2>1. new \in ScannerState /\ new.pc = "list"
    BY <1>1 DEF ScannerState
  <2>2. scanner' = [scanner EXCEPT ![p] = new]
    BY <1>1, <1>5 DEF UpsertResults
  <2> HIDE DEF new
  <2> QED
    BY <1>1, <2>1, <2>2, OneScanner
<1>6. CASE ListPending(p)
  <2> DEFINE B == {<<s, scanResults[s].key>> :
                     s \in {t \in ScanIds : /\ LibraryOf(t) = old.lib
                                            /\ scanResults[t].status \in Listed}}
             new == [old EXCEPT !.pc = "next", !.batch = B]
  <2>1. \A s \in ScanIds : s \in Nat /\ scanResults[s].key \in Keys
    BY DEF ServiceInv, DatabaseInv, TypeOK, ScanRow
  <2>2. B \in SUBSET (Nat \X Keys)
    BY <2>1
  <2>3. scanner' = [scanner EXCEPT ![p] = new]
    BY <1>1, <1>6 DEF ListPending
  <2> HIDE DEF B
  <2>4. new \in ScannerState /\ new.pc = "next"
    BY <1>1, <2>2 DEF ScannerState
  <2> HIDE DEF new
  <2> QED
    BY <1>1, <2>3, <2>4, OneScanner
<1>7. CASE Lookup(p)
  <2>1. PICK c \in old.batch :
          scanner' = [scanner EXCEPT
            ![p].pc = IF cache[c[2]] # NoSong THEN "hit" ELSE "reserve",
            ![p].batch = @ \ {c}, ![p].cur = c]
    BY <1>7 DEF Lookup
  <2> DEFINE pc == IF cache[c[2]] # NoSong THEN "hit" ELSE "reserve"
             new == [old EXCEPT !.pc = pc, !.batch = old.batch \ {c}, !.cur = c]
  <2>2. c \in Nat \X Keys /\ pc \in {"hit", "reserve"}
    BY <1>1 DEF ScannerState
  <2>3. scanner' = [scanner EXCEPT ![p] = new]
    BY <1>1, <2>1
  <2> HIDE DEF pc
  <2>4. new \in ScannerState /\ new.pc # "upsert" /\ new.cur = c
    BY <1>1, <2>2 DEF ScannerState
  <2> HIDE DEF new
  <2> QED
    BY <1>1, <2>2, <2>3, <2>4, OneScanner
<1>8. CASE NextLibrary(p)
  <2> DEFINE pc == IF old.libs = {} THEN "idle" ELSE "library"
             new == [ScannerIdle EXCEPT !.pc = pc, !.libs = old.libs]
  <2>1. pc \in {"idle", "library"}
    OBVIOUS
  <2>2. scanner' = [scanner EXCEPT ![p] = new]
    BY <1>1, <1>8 DEF NextLibrary
  <2> HIDE DEF pc
  <2>3. new \in ScannerState /\ new.pc \in {"idle", "library"}
    BY <1>1, <2>1 DEF ScannerState, ScannerIdle
  <2> HIDE DEF new
  <2> QED
    BY <1>1, <2>2, <2>3, OneScanner
<1>9. ASSUME NEW pc \in {"next", "submit", "restore"}, Goto(p, pc),
             pc = "restore" => old.cur \in Nat \X Keys,
             pc = "submit" => old.cur \in Nat \X Keys
      PROVE  ScannersOK'
  <2> DEFINE new == [old EXCEPT !.pc = pc]
  <2>1. new \in ScannerState /\ new.pc = pc /\ new.cur = old.cur
    BY <1>1 DEF ScannerState
  <2>2. scanner' = [scanner EXCEPT ![p] = new]
    BY <1>1, <1>9 DEF Goto
  <2> HIDE DEF new
  <2> QED
    BY <1>1, <1>9, <2>1, <2>2, OneScanner
<1>10. old.pc \in {"hit", "reserve", "submit", "restore"} => old.cur \in Nat \X Keys
  BY <1>1 DEF ScannersOK
<1> HIDE DEF old
<1>11. CASE MarkHit(p) \/ Reserve(p) \/ Submit(p) \/ SubmitFails(p)
  BY <1>2, <1>9, <1>10, <1>11 DEF MarkHit, Reserve, Mark, Submit, SubmitFails, At, old
<1>12. CASE UpsertRefused(p) \/ ScanFails(p) \/ Restore(p)
  BY <1>2, <1>12 DEF UpsertRefused, ScanFails, Restore
<1> QED
  BY <1>3, <1>4, <1>5, <1>6, <1>7, <1>8, <1>11, <1>12 DEF Scan

-----------------------------------------------------------------------------
(* What each step does to the tables.                                      *)

\* The steps in which the worker takes no part.
Aside ==
  \/ \E p \in Scanners : Scan(p) \/ Kill(p)
  \/ Webhook \/ Commands \/ Clock \/ Stop \/ Restart \/ CircuitCloses

\* A scanner's statement is a transaction on the database, and no other than
\* Upsert, SetStatus and Enqueue.
LEMMA ScanTransaction ==
  ASSUME ServiceInv, NEW p \in Scanners, Scan(p)
  PROVE  Bystanders \/ UNCHANGED tables
<1>1. ASSUME NEW s, NEW status \in ScanStatus, SetStatus(s, status)
      PROVE  Bystanders
  BY <1>1 DEF Bystanders, ScanSide, SetStatus
<1>2. CASE UpsertResults(p)
  <2> DEFINE l == scanner[p].lib
             F == scanner[p].found
             key == [f \in F |-> KeyOf[f]]
  <2>1. l \in Libraries /\ F \in SUBSET {f \in Files : LibOf[f] = l}
    BY <1>2 DEF UpsertResults, At, ServiceInv, ServiceTypeOK, ScannerState
  <2>2. key \in [F -> Keys]
    BY <2>1, ServiceAssumption
  <2>3. Upsert(l, F, key, p \in Forced) /\ (p \in Forced) \in BOOLEAN
    BY <1>2 DEF UpsertResults
  <2> HIDE DEF l, F, key
  <2> QED
    BY <2>1, <2>2, <2>3 DEF Bystanders, ScanSide
<1>3. CASE MarkHit(p) \/ Reserve(p) \/ Restore(p)
  BY <1>1, <1>3 DEF MarkHit, Reserve, Restore, Mark, ScanStatus
<1>4. CASE Submit(p)
  <2>1. scanner[p].cur[2] \in Keys
    BY <1>4 DEF Submit, At, ServiceInv, ServiceTypeOK
  <2> QED
    BY <1>4, <2>1 DEF Submit, EnqueueScan, Bystanders
<1>5. CASE \/ StartScan(p) \/ ScanLibrary(p) \/ UpsertRefused(p) \/ ScanFails(p)
           \/ ListPending(p) \/ Lookup(p) \/ NextLibrary(p) \/ SubmitFails(p)
  BY <1>5 DEF StartScan, ScanLibrary, UpsertRefused, ScanFails, ListPending, Lookup,
     NextLibrary, SubmitFails
<1> QED
  BY <1>2, <1>3, <1>4, <1>5 DEF Scan

\* Apart from the worker, only Retry changes the status of a work row.
LEMMA AsideTransaction ==
  ASSUME ServiceInv, Aside
  PROVE  /\ UNCHANGED <<worker, written, cache>>
         /\ Bystanders \/ (\E w \in WorkIds : Retry(w)) \/ UNCHANGED tables
<1>1. CASE \E p \in Scanners : Scan(p)
  <2>1. UNCHANGED <<worker, written, cache>>
    BY <1>1 DEF Scan, StartScan, ScanLibrary, UpsertResults, UpsertRefused, ScanFails,
       ListPending, Lookup, NextLibrary, MarkHit, Reserve, Restore, Submit,
       SubmitFails, OnlyScanner
  <2> QED
    BY <1>1, <2>1, ScanTransaction
<1>2. CASE Webhook \/ Commands \/ Clock
  BY <1>2 DEF Webhook, Commands, Clock, procs, Bystanders, ScanSide, Present
<1>3. CASE (\E p \in Scanners : Kill(p)) \/ Stop \/ Restart \/ CircuitCloses
  BY <1>3 DEF Kill, Stop, Restart, CircuitCloses
<1> QED
  BY <1>1, <1>2, <1>3 DEF Aside

\* The worker's steps that leave the tables alone: what they do to the worker.
WorkerStays ==
  /\ UNCHANGED tables
  /\ worker'.item = worker.item /\ worker'.key = worker.key
  /\ worker.pc # "idle" /\ worker'.pc # "idle"

\* What the worker does to the tables.
LEMMA WorkTransaction ==
  ASSUME ServiceInv, Work, ~CircuitCloses
  PROVE  \/ Claim
         \/ Finish \/ GiveUp \/ HandBack
         \/ SettleFails \/ AnswerLost
         \/ WorkerStays /\ worker'.todo = worker.todo /\ worker'.pc # "complete"
            /\ written' = written
         \/ WorkerStays /\ Write
<1>1. worker \in WorkerState
  BY DEF ServiceInv, ServiceTypeOK
<1>2. CASE Resolve \/ Fetch
  BY <1>1, <1>2 DEF Resolve, Fetch, WorkerAt, WorkerState, WorkerStays
<1>3. CASE Answered \/ FetchLimited \/ Store
  BY <1>1, <1>3 DEF Answered, FetchLimited, Store, WorkerAt, WorkerTo, WorkerState, WorkerStays
<1>4. CASE AttemptFails
  <2>1. worker.pc # "idle"
    BY <1>4 DEF AttemptFails, MayFail
  <2> QED
    BY <1>1, <1>4, <2>1 DEF AttemptFails, WorkerTo, WorkerState, WorkerStays
<1>5. CASE Write
  BY <1>1, <1>5 DEF Write, WorkerAt, WorkerState, WorkerStays
<1> QED
  BY <1>2, <1>3, <1>4, <1>5 DEF Work

\* Every step of the service is one transaction on the database or none.
LEMMA ServiceTransaction ==
  ASSUME ServiceInv, [ServiceNext]_vars
  PROVE  [DatabaseNext]_tables
<1>1. CASE Aside
  BY <1>1, AsideTransaction DEF Bystanders, DatabaseNext, QueueSide
<1>2. CASE Work /\ ~CircuitCloses
  <2>1. CASE Claim
    BY <2>1 DEF Claim, DatabaseNext, QueueSide
  <2>2. CASE Finish \/ GiveUp \/ HandBack
    BY <2>2 DEF Finish, GiveUp, HandBack, Complete, Fail, Release, Claimed,
       DatabaseNext, QueueSide
  <2>3. CASE SettleFails \/ AnswerLost \/ WorkerStays
    BY <2>3 DEF SettleFails, AnswerLost, WorkerStays
  <2> QED
    BY <1>2, <2>1, <2>2, <2>3, WorkTransaction
<1>3. CASE Crash \/ UNCHANGED vars
  BY <1>3 DEF Crash, vars
<1> QED
  BY <1>1, <1>2, <1>3 DEF ServiceNext, Aside

-----------------------------------------------------------------------------
(* The invariant.                                                          *)

\* Nobody but the worker changes what it knows of its row, or finishes a row.
LEMMA AsideKeeps ==
  ASSUME ServiceInv, Aside
  PROVE  ClaimIsCurrent' /\ WrittenSoFar' /\ DoneWasWritten'
<1>1. /\ UNCHANGED <<worker, written>> /\ DatabaseInv
      /\ Bystanders \/ (\E w \in WorkIds : Retry(w)) \/ UNCHANGED tables
  BY AsideTransaction DEF ServiceInv
\* A row that is claimed or done stays as it is, and no row becomes so.
<1>2. /\ \A w \in WorkIds : workQueue[w].status = "processing" => w \in WorkIds'
      /\ \A w \in WorkIds' : workQueue'[w].status \in Settled => w \in WorkIds
      /\ \A w \in WorkIds \cap WorkIds' :
           /\ workQueue'[w].status \in Settled <=> workQueue[w].status \in Settled
           /\ workQueue[w].status \in Settled => RowUntouched(w)
  <2>1. CASE Bystanders
    BY <1>1, <2>1, BystanderRows DEF RowUntouched, Settled
  <2>2. CASE \E w \in WorkIds : Retry(w)
    <3>1. PICK v \in WorkIds : Retry(v)
      BY <2>2
    <3>2. /\ WorkIds' = WorkIds
          /\ workQueue[v].status = "failed" /\ workQueue'[v].status = "pending"
          /\ \A w \in WorkIds \ {v} : workQueue'[w] = workQueue[w]
      BY <1>1, <3>1, StatusRows
    <3> QED
      BY <3>2 DEF RowUntouched, Settled
  <2>3. CASE UNCHANGED tables
    BY <2>3 DEF tables, RowUntouched, WorkIds
  <2> QED
    BY <1>1, <2>1, <2>2, <2>3
<1>3. ClaimIsCurrent'
  BY <1>1, <1>2 DEF ServiceInv, ClaimIsCurrent, Claimed, RowUntouched, Settled
<1>4. WrittenSoFar'
  BY <1>1, <1>2 DEF ServiceInv, ClaimIsCurrent, Claimed, WrittenSoFar, RowUntouched, Settled
<1>5. DoneWasWritten'
  BY <1>1, <1>2 DEF ServiceInv, DoneWasWritten, RowUntouched, Settled
<1> QED
  BY <1>3, <1>4, <1>5

\* The worker claims, writes and settles its row.
LEMMA WorkKeeps ==
  ASSUME ServiceInv, Work, ~CircuitCloses
  PROVE  ClaimIsCurrent' /\ WrittenSoFar' /\ DoneWasWritten'
<1>1. /\ DatabaseInv /\ worker \in WorkerState
      /\ ClaimIsCurrent /\ WrittenSoFar /\ DoneWasWritten
  BY DEF ServiceInv, ServiceTypeOK
<1>2. CASE Claim
  <2>1. PICK w \in WorkIds :
          /\ Dequeue(w) /\ written' = written
          /\ worker' = [pc |-> "answer", item |-> w, key |-> workQueue[w].key,
                        todo |-> workQueue[w].outs, song |-> NoSong]
    BY <1>2 DEF Claim
  <2>2. /\ WorkIds' = WorkIds /\ workQueue'[w].status = "processing"
        /\ workQueue'[w].key = workQueue[w].key /\ workQueue'[w].outs = workQueue[w].outs
        /\ \A v \in WorkIds \ {w} : workQueue'[v] = workQueue[v]
    BY <1>1, <2>1, StatusRows
  <2>3. ClaimIsCurrent' /\ WrittenSoFar'
    BY <2>1, <2>2 DEF ClaimIsCurrent, WrittenSoFar, Claimed
  <2>4. DoneWasWritten'
    BY <1>1, <2>1, <2>2 DEF DoneWasWritten
  <2> QED
    BY <2>3, <2>4
<1>3. ASSUME worker' = WorkerIdle
      PROVE  ClaimIsCurrent' /\ WrittenSoFar'
  BY <1>3 DEF WorkerIdle, ClaimIsCurrent, WrittenSoFar
<1>4. CASE Finish
  <2> DEFINE w == worker.item
  <2>1. Complete(w) /\ worker' = WorkerIdle /\ written' = written /\ worker.pc = "complete"
    BY <1>4 DEF Finish, Rest, WorkerAt
  <2>2. /\ w \in WorkIds /\ WorkIds' = WorkIds
        /\ workQueue'[w].key = workQueue[w].key /\ workQueue'[w].outs = workQueue[w].outs
        /\ \A v \in WorkIds \ {w} : workQueue'[v] = workQueue[v]
    BY <1>1, <2>1, StatusRows
  <2>3. \A path \in workQueue[w].outs : <<path, workQueue[w].key>> \in written
    BY <1>1, <2>1 DEF ClaimIsCurrent, WrittenSoFar
  <2>4. DoneWasWritten'
    BY <1>1, <2>1, <2>2, <2>3 DEF DoneWasWritten
  <2> QED
    BY <1>3, <2>1, <2>4
<1>5. CASE GiveUp \/ HandBack
  <2> DEFINE w == worker.item
  <2>1. (Fail(w) \/ Release(w)) /\ worker' = WorkerIdle /\ written' = written
    BY <1>5 DEF GiveUp, HandBack, Rest
  <2>2. /\ w \in WorkIds /\ WorkIds' = WorkIds /\ workQueue'[w].status # "done"
        /\ \A v \in WorkIds \ {w} : workQueue'[v] = workQueue[v]
    BY <1>1, <2>1, StatusRows
  <2>3. DoneWasWritten'
    BY <1>1, <2>1, <2>2 DEF DoneWasWritten
  <2> QED
    BY <1>3, <2>1, <2>3
<1>6. CASE SettleFails \/ AnswerLost
  <2>1. UNCHANGED <<tables, written>> /\ worker' = WorkerIdle
    BY <1>6 DEF SettleFails, AnswerLost, Rest
  <2> QED
    BY <1>1, <1>3, <2>1 DEF tables, DoneWasWritten, WorkIds
<1>7. CASE /\ WorkerStays /\ worker'.todo = worker.todo /\ worker'.pc # "complete"
           /\ written' = written
  BY <1>1, <1>7 DEF WorkerStays, tables, ClaimIsCurrent, Claimed, WrittenSoFar,
     DoneWasWritten, WorkIds
<1>8. CASE WorkerStays /\ Write
  <2>1. PICK path \in worker.todo :
          /\ written' = written \cup {<<path, worker.key>>}
          /\ worker' = [worker EXCEPT !.todo = @ \ {path},
                                      !.pc = IF worker.todo = {path}
                                             THEN "complete" ELSE "write"]
    BY <1>8 DEF Write
  <2>2. /\ worker'.todo = worker.todo \ {path}
        /\ worker'.pc = "complete" => worker.todo = {path}
    BY <1>1, <2>1 DEF WorkerState
  <2>3. ClaimIsCurrent'
    BY <1>1, <1>8, <2>2 DEF WorkerStays, tables, ClaimIsCurrent, Claimed, WorkIds
  <2>4. WrittenSoFar'
    BY <1>1, <1>8, <2>1, <2>2 DEF WorkerStays, tables, WrittenSoFar
  <2>5. DoneWasWritten'
    BY <1>1, <1>8, <2>1 DEF WorkerStays, tables, DoneWasWritten, WorkIds
  <2> QED
    BY <2>3, <2>4, <2>5
<1> QED
  BY <1>2, <1>4, <1>5, <1>6, <1>7, <1>8, WorkTransaction

\* Every step keeps the local state of the processes well typed.
LEMMA ServiceTypes ==
  ASSUME ServiceInv, ServiceNext
  PROVE  ServiceTypeOK'
<1>1. /\ worker \in WorkerState /\ WorkerIdle \in WorkerState
      /\ cache \in [Keys -> Songs \cup {NoSong}]
      /\ ScannersOK /\ ScannerIdle \in ScannerState /\ ScannerIdle.pc = "idle"
  BY TypeFacts DEF ServiceInv, ServiceTypeOK, ScannersOK, ScannerIdle
<1>2. ScannersOK'
  <2>1. CASE \E p \in Scanners : Scan(p)
    BY <2>1, ScanTypes
  <2>2. CASE \E p \in Scanners : Kill(p)
    BY <1>1, <2>2, OneScanner DEF Kill
  <2>3. CASE Stop \/ Crash
    BY <1>1, <2>3 DEF Stop, Crash, ScannersOK
  <2>4. CASE UNCHANGED scanner
    BY <1>1, <2>4 DEF ScannersOK
  <2>5. Work \/ Webhook \/ Commands \/ Clock \/ Restart => UNCHANGED scanner
    BY DEF Work, Claim, Answered, AnswerLost, Resolve, Fetch, FetchLimited, AttemptFails,
       Store, Write, Finish, GiveUp, HandBack, SettleFails, CircuitCloses, Rest, OnlyWorker, Webhook,
       Commands, Clock, Restart, procs
  <2> QED
    BY <2>1, <2>2, <2>3, <2>4, <2>5 DEF ServiceNext
<1>3. worker' \in WorkerState
  <2>1. CASE UNCHANGED worker
    BY <1>1, <2>1
  <2>2. CASE Aside
    BY <2>1, <2>2, AsideTransaction
  <2>3. CASE Crash \/ AnswerLost \/ Finish \/ GiveUp \/ HandBack \/ SettleFails
    BY <1>1, <2>3 DEF Crash, AnswerLost, Finish, GiveUp, HandBack, SettleFails, Rest
  <2>4. CASE Claim
    <3>1. \A w \in WorkIds : w \in Nat /\ workQueue[w] \in WorkRow
      BY DEF ServiceInv, DatabaseInv, TypeOK
    <3> QED
      BY <2>4, <3>1 DEF Claim, WorkRow, WorkerState
  <2>5. CASE Resolve
    <3>1. worker.key \in Keys
      BY <2>5 DEF Resolve, WorkerAt, ServiceInv, ClaimIsCurrent, Claimed, DatabaseInv,
         TypeOK, WorkRow
    <3>2. cache[worker.key] \in Songs \cup {NoSong}
      BY <1>1, <3>1
    <3> QED
      BY <1>1, <2>5, <3>2 DEF Resolve, WorkerState
  <2>6. CASE Answered \/ Fetch \/ FetchLimited \/ AttemptFails \/ Store
    BY <1>1, <2>6 DEF Answered, Fetch, FetchLimited, AttemptFails, Store, WorkerTo, WorkerState, Songs
  <2>7. CASE Write
    BY <1>1, <2>7 DEF Write, WorkerState
  <2> QED
    BY <2>2, <2>3, <2>4, <2>5, <2>6, <2>7 DEF ServiceNext, Aside, Work
<1>4. cache' \in [Keys -> Songs \cup {NoSong}]
  <2>1. CASE UNCHANGED cache
    BY <1>1, <2>1
  <2>2. CASE Store
    BY <1>1, <2>2 DEF Store, WorkerState
  <2>3. CASE Aside
    BY <2>1, <2>3, AsideTransaction
  <2> QED
    BY <2>1, <2>2, <2>3 DEF ServiceNext, Aside, Work, Claim, Answered, AnswerLost,
       Resolve, Fetch, FetchLimited, AttemptFails, Write, Finish, GiveUp, HandBack, SettleFails, Rest, Crash
<1>5. circuit' \in BOOLEAN /\ stopping' \in BOOLEAN
  <2>1. circuit \in BOOLEAN /\ stopping \in BOOLEAN
    BY DEF ServiceInv, ServiceTypeOK
  <2>2. circuit' \in {circuit, TRUE, FALSE} /\ stopping' \in {stopping, TRUE, FALSE}
    BY DEF ServiceNext, Scan, StartScan, ScanLibrary, UpsertResults, UpsertRefused,
       ScanFails, ListPending, Lookup, NextLibrary, MarkHit, Reserve, Restore, Submit,
       SubmitFails, OnlyScanner, Kill, Work, Claim, Answered, AnswerLost, Resolve,
       Fetch, FetchLimited,
       AttemptFails, Store, Write, Finish, GiveUp, HandBack, SettleFails, Rest,
       OnlyWorker, CircuitCloses, Webhook, Commands, Clock, procs, Stop, Restart, Crash
  <2> QED
    BY <2>1, <2>2
<1> QED
  BY <1>2, <1>3, <1>4, <1>5 DEF ServiceTypeOK, ScannersOK

\* Every step keeps the invariant.
LEMMA ServiceStep ==
  ASSUME ServiceInv, [ServiceNext]_vars
  PROVE  ServiceInv'
<1>1. DatabaseInv'
  BY ServiceTransaction, DatabaseStep DEF ServiceInv
<1>2. CASE ServiceNext
  <2>1. ServiceTypeOK'
    BY <1>2, ServiceTypes
  <2>2. CASE Aside
    BY <1>1, <2>1, <2>2, AsideKeeps DEF ServiceInv
  <2>3. CASE Work /\ ~CircuitCloses
    BY <1>1, <2>1, <2>3, WorkKeeps DEF ServiceInv
  <2>4. CASE Crash
    <3>1. ClaimIsCurrent' /\ WrittenSoFar'
      BY <2>4 DEF Crash, WorkerIdle, ClaimIsCurrent, WrittenSoFar
    <3>2. DoneWasWritten'
      BY <2>4 DEF Crash, tables, ServiceInv, DoneWasWritten, WorkIds
    <3> QED
      BY <1>1, <2>1, <3>1, <3>2 DEF ServiceInv
  <2> QED
    BY <1>2, <2>2, <2>3, <2>4 DEF ServiceNext, Aside
<1>3. CASE UNCHANGED vars
  BY <1>1, <1>3 DEF vars, procs, tables, ServiceInv, ServiceTypeOK, ClaimIsCurrent, Claimed,
     WrittenSoFar, DoneWasWritten, WorkIds
<1> QED
  BY <1>2, <1>3

\* Whatever scans, webhooks, commands, failures and restarts come between the
\* steps of RunOnce, which holds no transaction open from Dequeue to Complete:
\* the tables are consistent, the claimed row is the worker's, and the outputs
\* it has passed have their lyrics.
THEOREM ServiceInvariant == ServiceSpec => []ServiceInv
<1>1. ServiceInit => ServiceInv
  <2> SUFFICES ASSUME ServiceInit PROVE ServiceInv
    OBVIOUS
  <2>1. DatabaseInv
    BY TablesAssumption DEF ServiceInit, TablesInit, DatabaseInv, TypeOK, ReferencesLive,
       KeysUnique, EveryRowHasOutput, LibraryOf, WorkIds, ScanIds
  <2>2. ServiceTypeOK
    BY DEF ServiceInit, ServiceTypeOK, ScannerIdle, ScannerState, WorkerIdle, WorkerState,
       NoItem, NoSong, Songs
  <2>3. ClaimIsCurrent /\ WrittenSoFar
    BY DEF ServiceInit, WorkerIdle, ClaimIsCurrent, WrittenSoFar
  <2>4. DoneWasWritten
    BY DEF ServiceInit, TablesInit, DoneWasWritten, WorkIds
  <2> QED
    BY <2>1, <2>2, <2>3, <2>4 DEF ServiceInv
<1>2. ServiceInv /\ [ServiceNext]_vars => ServiceInv'
  BY ServiceStep
<1> QED
  BY <1>1, <1>2, PTL DEF ServiceSpec

\* What the worker read when it claimed a row is still true whenever it settles
\* it (RunOnce against Enqueue, Cleanup, Retry, ClearDone and scan clear).
THEOREM ClaimStaysCurrent == ServiceSpec => []ClaimIsCurrent
<1>1. ServiceInv => ClaimIsCurrent
  BY DEF ServiceInv
<1> QED
  BY <1>1, ServiceInvariant, PTL

\* A work row is done only when the lyrics lie at each of its outputs (the
\* writes of RunOnce before Complete, and merging into finished rows).
THEOREM DoneMeansWritten == ServiceSpec => []DoneWasWritten
<1>1. ServiceInv => DoneWasWritten
  BY DEF ServiceInv
<1> QED
  BY <1>1, ServiceInvariant, PTL

\* The processes of the service, with all they keep between their statements,
\* are clients of the database as Database describes them, so that every
\* theorem about DatabaseSpec holds of the running service.
THEOREM ServiceUsesTransactions == ServiceSpec => UsesTransactions
<1>1. ServiceInit => TablesInit
  BY DEF ServiceInit
<1>2. ServiceInv /\ [ServiceNext]_vars => [DatabaseNext]_tables
  BY ServiceTransaction
<1> QED
  BY <1>1, <1>2, ServiceInvariant, PTL DEF ServiceSpec, UsesTransactions, DatabaseSpec

\* Rate limits, misses, write errors and stops settle the row that RunOnce has
\* got: a row is left in processing, where nothing picks it up, only when serve
\* dies, the answer of Dequeue is lost or the settling statement is refused.
THEOREM OnlyFaultsOrphan == ServiceSpec => OrphansOnlyByFaults
<1> DEFINE Excused == \A w \in WorkIds' : Orphaned(w)' => \/ w \in WorkIds /\ Orphaned(w)
                                                          \/ Crash
                                                          \/ AnswerLost
                                                          \/ SettleFails
<1>1. ASSUME ServiceInv, ServiceNext PROVE Excused
  <2> SUFFICES ASSUME ~Crash, ~AnswerLost, ~SettleFails, NEW w \in WorkIds', Orphaned(w)'
               PROVE  w \in WorkIds /\ Orphaned(w)
    OBVIOUS
  <2>1. workQueue'[w].status = "processing" /\ ~(worker'.pc # "idle" /\ worker'.item = w)
    BY DEF Orphaned, Claimed
  <2>2. DatabaseInv
    BY <1>1 DEF ServiceInv
  <2>3. CASE Aside
    <3>1. worker' = worker
          /\ (Bystanders \/ (\E v \in WorkIds : Retry(v)) \/ UNCHANGED tables)
      BY <1>1, <2>3, AsideTransaction
    <3>2. w \in WorkIds /\ workQueue[w].status = "processing"
      BY <2>1, <2>2, <3>1, BystanderRows, StatusRows DEF RowUntouched, tables, WorkIds
    <3> QED
      BY <2>1, <3>1, <3>2 DEF Orphaned, Claimed
  <2>4. CASE Claim
    <3>1. PICK v \in WorkIds : Dequeue(v) /\ worker'.pc = "answer" /\ worker'.item = v
      BY <2>4 DEF Claim
    <3>2. w \in WorkIds /\ workQueue[w].status = "processing"
      BY <2>1, <2>2, <3>1, StatusRows
    <3> QED
      BY <2>4, <3>2 DEF Claim, WorkerAt, Orphaned, Claimed
  <2>5. CASE Finish \/ GiveUp \/ HandBack
    <3>1. Complete(worker.item) \/ Fail(worker.item) \/ Release(worker.item)
      BY <2>5 DEF Finish, GiveUp, HandBack
    <3>2. w \in WorkIds /\ w # worker.item /\ workQueue[w].status = "processing"
      BY <2>1, <2>2, <3>1, StatusRows
    <3> QED
      BY <3>2 DEF Orphaned, Claimed
  <2>6. CASE WorkerStays
    BY <2>1, <2>6 DEF WorkerStays, tables, Orphaned, Claimed, WorkIds
  <2> QED
    BY <1>1, <2>3, <2>4, <2>5, <2>6, WorkTransaction DEF ServiceNext, Aside
<1>2. ServiceInv /\ [ServiceNext]_vars => [Excused]_vars
  BY <1>1
<1> QED
  BY <1>2, ServiceInvariant, PTL DEF ServiceSpec, OrphansOnlyByFaults

-----------------------------------------------------------------------------
(* Calm: one scheduler, not interrupted.                                   *)

\* What a step of the worker, of the clock or of a command may do: rows go,
\* finish or change hands, none appears, and a reserved scan row keeps the
\* work that will write it back.
Settles ==
  /\ ScanIds' \subseteq ScanIds
  /\ \A s \in ScanIds' :
       /\ scanResults'[s].file = scanResults[s].file
       /\ scanResults'[s].key = scanResults[s].key
       /\ \/ scanResults'[s].status = scanResults[s].status
          \/ scanResults'[s].status = "done" /\ \E w \in WorkIds : <<w, s>> \in links
  /\ WorkIds' \subseteq WorkIds
  /\ \A w \in WorkIds' : workQueue'[w].key = workQueue[w].key
  /\ links' \subseteq links
  /\ \A s \in ScanIds', w \in WorkIds :
       /\ <<w, s>> \in links /\ workQueue[w].status # "done"
       /\ scanResults'[s].status = "processing"
       => w \in WorkIds' /\ workQueue'[w].status # "done" /\ <<w, s>> \in links'
  /\ \A f \in Recorded : f \in Recorded' \/ libraries'[LibOf[f]] = "removed"
  /\ \A l \in Libraries : libraries[l] = "removed" => libraries'[l] = "removed"

\* No scan row leaves done in the step.
DoneStays ==
  \A s \in ScanIds \cap ScanIds' :
    scanResults[s].status = "done" => scanResults'[s].status = "done"

\* Such a step of another process leaves the scheduler's listing true.
LEMMA SettlesKeeps ==
  ASSUME DatabaseInv', CalmInv, Settles, scanner' = scanner
  PROVE  CalmInv' /\ DoneStays
<1>1. /\ ScanIds' \subseteq ScanIds /\ WorkIds' \subseteq WorkIds /\ links' \subseteq links
      /\ \A s \in ScanIds' :
           /\ scanResults'[s].file = scanResults[s].file
           /\ scanResults'[s].key = scanResults[s].key
           /\ \/ scanResults'[s].status = scanResults[s].status
              \/ scanResults'[s].status = "done" /\ \E w \in WorkIds : <<w, s>> \in links
      /\ \A w \in WorkIds' : workQueue'[w].key = workQueue[w].key
  BY DEF Settles
<1>2. ASSUME NEW s \in ScanIds', Unqueued(s)
      PROVE  Unqueued(s)' /\ scanResults'[s].status = scanResults[s].status
  <2>1. Unqueued(s)'
    BY <1>1, <1>2 DEF Unqueued, RowsOf
  <2>2. \A w \in WorkIds : <<w, s>> \notin links
    <3> SUFFICES ASSUME NEW w \in WorkIds, <<w, s>> \in links PROVE FALSE
      OBVIOUS
    <3>1. workQueue[w].key = scanResults[s].key
      BY DEF CalmInv, RowsMatch
    <3> QED
      BY <1>2, <3>1 DEF Unqueued, RowsOf
  <2> QED
    BY <1>1, <2>1, <2>2
<1>3. ASSUME NEW c, NEW status, StillIs(c, status) PROVE StillIs(c, status)'
  BY <1>1, <1>2, <1>3 DEF StillIs
<1>4. ListingIsCurrent'
  <2>1. ListingIsCurrent
    BY DEF CalmInv
  <2> DEFINE me == scanner["serve"]
  <2>2. \A c \in me.batch : StillIs(c, "pending")'
    BY <1>3, <2>1 DEF ListingIsCurrent
  <2>3. me.pc \in {"hit", "reserve"} => StillIs(me.cur, "pending")'
    BY <1>1, <1>2, <2>1 DEF ListingIsCurrent, StillIs
  <2>4. me.pc = "submit" => StillIs(me.cur, "processing")'
    BY <1>1, <1>2, <2>1 DEF ListingIsCurrent, StillIs
  <2>5. me.pc = "restore" => me.cur[1] \notin ScanIds'
    BY <1>1, <2>1 DEF ListingIsCurrent
  <2> QED
    BY <2>1, <2>2, <2>3, <2>4, <2>5 DEF ListingIsCurrent, StillIs
<1>5. RowsMatch'
  <2>1. \A s \in ScanIds' : /\ scanResults'[s].key = KeyOf[scanResults'[s].file]
                            /\ scanResults'[s].status = "pending" => Unqueued(s)'
    BY <1>1, <1>2 DEF CalmInv, RowsMatch
  <2>2. \A l \in links' : workQueue'[l[1]].key = scanResults'[l[2]].key
    <3> SUFFICES ASSUME NEW l \in links' PROVE workQueue'[l[1]].key = scanResults'[l[2]].key
      OBVIOUS
    <3>1. l[1] \in WorkIds' /\ l[2] \in ScanIds'
      BY DEF DatabaseInv, ReferencesLive
    <3> QED
      BY <1>1, <3>1 DEF CalmInv, RowsMatch
  <2>3. ASSUME NEW w \in WorkIds'
        PROVE  \E f \in Files : /\ KeyOf[f] = workQueue'[w].key
                                /\ f \in Recorded' \/ libraries'[LibOf[f]] = "removed"
    <3>1. PICK f \in Files : /\ KeyOf[f] = workQueue[w].key
                             /\ f \in Recorded \/ libraries[LibOf[f]] = "removed"
      BY <1>1 DEF CalmInv, RowsMatch
    <3>2. LibOf[f] \in Libraries
      BY TablesAssumption
    <3> QED
      BY <1>1, <3>1, <3>2 DEF Settles
  <2> QED
    BY <2>1, <2>2, <2>3 DEF RowsMatch
<1>6. ReservedIsBacked'
  <2> SUFFICES ASSUME NEW s \in ScanIds', scanResults'[s].status = "processing"
               PROVE  \/ \E w \in WorkIds' : <<w, s>> \in links' /\ workQueue'[w].status # "done"
                      \/ \E p \in Scanners : /\ scanner'[p].pc \in {"submit", "restore"}
                                             /\ scanner'[p].cur[1] = s
    BY DEF ReservedIsBacked
  <2>1. s \in ScanIds /\ scanResults[s].status = "processing"
    BY <1>1
  <2> QED
    BY <2>1 DEF CalmInv, ReservedIsBacked, Settles
<1>7. DoneStays
  BY <1>1 DEF DoneStays
<1> QED
  BY <1>4, <1>5, <1>6, <1>7 DEF CalmInv

\* Scan rows and libraries stay as they are, and so do the songs of work rows;
\* work rows that go, or finish, leave no reserved scan row behind.
LEMMA ScanRowsStay ==
  ASSUME scanResults' = scanResults, libraries' = libraries,
         WorkIds' \subseteq WorkIds, links' \subseteq links,
         \A w \in WorkIds' : workQueue'[w].key = workQueue[w].key,
         \A w \in WorkIds : workQueue[w].status # "done" =>
           w \in WorkIds' /\ workQueue'[w].status # "done",
         \A l \in links : workQueue[l[1]].status # "done" => l \in links'
  PROVE  Settles
<1>1. ScanIds' = ScanIds /\ Recorded' = Recorded
  BY DEF ScanIds, Recorded
<1>2. \A s \in ScanIds, w \in WorkIds :
        <<w, s>> \in links /\ workQueue[w].status # "done" => <<w, s>> \in links'
  OBVIOUS
<1> QED
  BY <1>1, <1>2 DEF Settles

\* The transactions that other processes issue while the scheduler is calm.
LEMMA CalmTransactions ==
  ASSUME DatabaseInv,
         \/ \E w : Dequeue(w) \/ Complete(w) \/ Release(w) \/ Fail(w)
         \/ ClearDone \/ Tick
         \/ \E l \in Libraries : AddLibrary(l) \/ RemoveLibrary(l)
         \/ UNCHANGED tables
  PROVE  Settles
<1>1. /\ workQueue \in [WorkIds -> WorkRow] /\ WorkIds = DOMAIN workQueue
      /\ scanResults \in [ScanIds -> ScanRow] /\ ScanIds = DOMAIN scanResults
      /\ \A w \in WorkIds : workQueue[w] \in WorkRow
      /\ \A s \in ScanIds : scanResults[s] \in ScanRow
      /\ libraries \in [Libraries -> LibraryState]
  BY DEF DatabaseInv, TypeOK, WorkIds, ScanIds, LibraryState
<1>2. ASSUME NEW w, Dequeue(w) \/ Release(w) \/ Fail(w) PROVE Settles
  <2>1. /\ scanResults' = scanResults /\ libraries' = libraries /\ links' = links
    BY <1>2 DEF Dequeue, Release, Fail
  <2>2. /\ w \in WorkIds /\ WorkIds' = WorkIds /\ workQueue'[w].key = workQueue[w].key
        /\ \A v \in WorkIds \ {w} : workQueue'[v] = workQueue[v]
        /\ workQueue'[w].status # "done"
    BY <1>2, StatusRows
  <2> QED
    BY <2>1, <2>2, ScanRowsStay
<1>3. ASSUME NEW w, Complete(w) PROVE Settles
  <2>1. /\ w \in WorkIds /\ WorkIds' = WorkIds /\ workQueue'[w].key = workQueue[w].key
        /\ \A v \in WorkIds \ {w} : workQueue'[v] = workQueue[v]
    BY <1>3, StatusRows
  <2>2. /\ libraries' = libraries /\ links' = links
        /\ scanResults' = [s \in ScanIds |->
                             IF s \in WrittenBack(w)
                             THEN [scanResults[s] EXCEPT !.status = "done"]
                             ELSE scanResults[s]]
    BY <1>3 DEF Complete
  <2>3. ScanIds' = ScanIds
    BY <2>2 DEF ScanIds
  <2>4. ASSUME NEW s \in ScanIds
        PROVE  /\ scanResults'[s].file = scanResults[s].file
               /\ scanResults'[s].key = scanResults[s].key
               /\ <<w, s>> \in links => scanResults'[s].status = "done"
               /\ <<w, s>> \notin links => scanResults'[s] = scanResults[s]
    BY <1>1, <2>2 DEF WrittenBack, LinkedTo, ScanRow
  <2>5. Recorded' = Recorded
    BY <2>3, <2>4 DEF Recorded
  <2>6. \A s \in ScanIds : \/ scanResults'[s].status = scanResults[s].status
                           \/ scanResults'[s].status = "done" /\ \E v \in WorkIds : <<v, s>> \in links
    BY <2>1, <2>4
  <2>7. \A s \in ScanIds, v \in WorkIds :
          /\ <<v, s>> \in links /\ workQueue[v].status # "done"
          /\ scanResults'[s].status = "processing"
          => workQueue'[v].status # "done"
    BY <2>1, <2>4
  <2> QED
    BY <2>1, <2>2, <2>3, <2>4, <2>5, <2>6, <2>7 DEF Settles
<1>4. CASE ClearDone
  <2> DEFINE gone == {w \in WorkIds : workQueue[w].status = "done"}
  <2>1. /\ workQueue' = [w \in WorkIds \ gone |-> workQueue[w]]
        /\ links' = {l \in links : l[1] \notin gone}
        /\ scanResults' = scanResults /\ libraries' = libraries
    BY <1>1, <1>4 DEF ClearDone, Restrict, Unlinked
  <2>2. WorkIds' = WorkIds \ gone /\ \A w \in WorkIds' : workQueue'[w] = workQueue[w]
    BY <2>1 DEF WorkIds
  <2> QED
    BY <2>1, <2>2, ScanRowsStay
<1>5. CASE Tick
  <2>1. /\ workQueue' = [w \in WorkIds |->
                           IF w \in Waiting
                           THEN [workQueue[w] EXCEPT !.wait = @ - 1]
                           ELSE workQueue[w]]
        /\ scanResults' = scanResults /\ libraries' = libraries /\ links' = links
    BY <1>5 DEF Tick
  <2>2. WorkIds' = WorkIds
    BY <2>1 DEF WorkIds
  <2>3. \A w \in WorkIds : /\ workQueue'[w].key = workQueue[w].key
                           /\ workQueue'[w].status = workQueue[w].status
    BY <1>1, <2>1 DEF WorkRow
  <2> QED
    BY <2>1, <2>2, <2>3, ScanRowsStay
<1>6. ASSUME NEW l \in Libraries, AddLibrary(l) PROVE Settles
  <2>1. /\ ScanIds' = ScanIds /\ WorkIds' = WorkIds /\ Recorded' = Recorded
        /\ scanResults' = scanResults /\ workQueue' = workQueue /\ links' = links
    BY <1>6 DEF AddLibrary, ScanIds, WorkIds, Recorded
  <2>2. \A k \in Libraries : libraries[k] = "removed" => libraries'[k] = "removed"
    BY <1>1, <1>6 DEF AddLibrary
  <2> QED
    BY <2>1, <2>2 DEF Settles
<1>7. ASSUME NEW l \in Libraries, RemoveLibrary(l) PROVE Settles
  <2> DEFINE gone == {s \in ScanIds : LibraryOf(s) = l}
  <2>1. /\ scanResults' = [s \in ScanIds \ gone |-> scanResults[s]]
        /\ links' = {k \in links : k[2] \notin gone}
        /\ workQueue' = workQueue /\ libraries' = [libraries EXCEPT ![l] = "removed"]
    BY <1>1, <1>7 DEF RemoveLibrary, Restrict, Unlinked
  <2>2. /\ WorkIds' = WorkIds /\ ScanIds' = ScanIds \ gone
        /\ \A s \in ScanIds' : scanResults'[s] = scanResults[s]
    BY <2>1 DEF WorkIds, ScanIds
  <2>3. \A f \in Recorded : f \in Recorded' \/ libraries'[LibOf[f]] = "removed"
    <3> SUFFICES ASSUME NEW s \in ScanIds
                 PROVE  \/ scanResults[s].file \in Recorded'
                        \/ libraries'[LibOf[scanResults[s].file]] = "removed"
      BY DEF Recorded
    <3>1. CASE s \in gone
      BY <1>1, <2>1, <3>1 DEF LibraryOf
    <3>2. CASE s \notin gone
      <4>1. s \in ScanIds' /\ scanResults'[s] = scanResults[s]
        BY <2>2, <3>2
      <4> QED
        BY <4>1 DEF Recorded
    <3> QED
      BY <3>1, <3>2
  <2>4. \A k \in Libraries : libraries[k] = "removed" => libraries'[k] = "removed"
    BY <1>1, <2>1
  <2>5. \A s \in ScanIds', w \in WorkIds : <<w, s>> \in links => <<w, s>> \in links'
    BY <2>1, <2>2
  <2> HIDE DEF gone
  <2> QED
    BY <2>1, <2>2, <2>3, <2>4, <2>5 DEF Settles
<1>8. CASE UNCHANGED tables
  BY <1>8, ScanRowsStay DEF tables, WorkIds
<1> QED
  BY <1>2, <1>3, <1>4, <1>5, <1>6, <1>7, <1>8

\* What holds of the scheduler when it is calm.
LEMMA CalmFacts ==
  ASSUME Calm, ServiceInv, CalmInv
  PROVE  /\ scanner \in [{"serve"} -> ScannerState] /\ scanner["serve"] \in ScannerState
         /\ DatabaseInv /\ ListingIsCurrent /\ RowsMatch /\ ReservedIsBacked
         /\ scanResults \in [ScanIds -> ScanRow] /\ ScanIds = DOMAIN scanResults
         /\ workQueue \in [WorkIds -> WorkRow] /\ WorkIds = DOMAIN workQueue
         /\ \A s \in ScanIds : scanResults[s] \in ScanRow
BY DEF Calm, ServiceInv, ServiceTypeOK, CalmInv, DatabaseInv, TypeOK, ScanIds, WorkIds

\* A step of the scheduler outside the tables, with no reservation in hand.
LEMMA OutsideTables ==
  ASSUME Calm, ServiceInv, CalmInv, UNCHANGED tables, ListingIsCurrent',
         \/ scanner["serve"].pc \notin {"submit", "restore"}
         \/ scanner["serve"].cur[1] \notin ScanIds
  PROVE  CalmInv' /\ DoneStays
<1>1. /\ scanResults' = scanResults /\ workQueue' = workQueue /\ links' = links
      /\ libraries' = libraries
      /\ ScanIds' = ScanIds /\ WorkIds' = WorkIds /\ Recorded' = Recorded
  BY DEF tables, ScanIds, WorkIds, Recorded
<1>2. RowsMatch'
  BY <1>1, CalmFacts DEF RowsMatch, Unqueued, RowsOf
<1>3. ReservedIsBacked'
  <2>1. ReservedIsBacked /\ Scanners = {"serve"}
    BY CalmFacts DEF Calm
  <2>2. ASSUME NEW s \in ScanIds, scanResults[s].status = "processing"
        PROVE  \E w \in WorkIds : <<w, s>> \in links /\ workQueue[w].status # "done"
    BY <2>1, <2>2 DEF ReservedIsBacked
  <2> QED
    BY <1>1, <2>2 DEF ReservedIsBacked
<1>4. DoneStays
  BY <1>1 DEF DoneStays
<1> QED
  BY <1>2, <1>3, <1>4 DEF CalmInv

\* A scheduler that has nothing listed.
LEMMA NothingListed ==
  ASSUME scanner'["serve"].batch = {},
         scanner'["serve"].pc \in {"idle", "library", "upsert", "list", "dead", "next"}
  PROVE  ListingIsCurrent'
BY DEF ListingIsCurrent

\* The scheduler's status update of the row in hand.
LEMMA StatusSet ==
  ASSUME Calm, ServiceInv, CalmInv, NEW s, NEW status \in {"processing", "done"},
         SetStatus(s, status),
         scanResults[s].status = "pending",
         ListingIsCurrent',
         scanner["serve"].pc \in {"hit", "reserve"},
         status = "processing" => /\ scanner'["serve"].pc = "submit"
                                  /\ scanner'["serve"].cur[1] = s
  PROVE  CalmInv' /\ DoneStays
<1>1. /\ s \in ScanIds /\ scanResults' = [scanResults EXCEPT ![s].status = status]
      /\ libraries' = libraries /\ workQueue' = workQueue /\ links' = links
  BY DEF SetStatus
<1>2. /\ ScanIds' = ScanIds /\ WorkIds' = WorkIds
      /\ scanResults'[s].file = scanResults[s].file /\ scanResults'[s].key = scanResults[s].key
      /\ scanResults'[s].status = status
      /\ \A t \in ScanIds \ {s} : scanResults'[t] = scanResults[t]
  BY <1>1, CalmFacts DEF ScanIds, WorkIds, ScanRow
<1>3. Recorded' = Recorded
  BY <1>2 DEF Recorded
<1>4. \A t \in ScanIds : Unqueued(t)' <=> Unqueued(t)
  BY <1>1, <1>2 DEF Unqueued, RowsOf
<1>5. RowsMatch'
  <2>1. \A t \in ScanIds : /\ scanResults'[t].key = KeyOf[scanResults'[t].file]
                           /\ scanResults'[t].status = "pending" => Unqueued(t)'
    BY <1>2, <1>4, CalmFacts DEF RowsMatch
  <2>2. \A l \in links : workQueue'[l[1]].key = scanResults'[l[2]].key
    <3>1. \A l \in links : l[2] \in ScanIds /\ workQueue[l[1]].key = scanResults[l[2]].key
      BY CalmFacts DEF RowsMatch, DatabaseInv, ReferencesLive
    <3> QED
      BY <1>1, <1>2, <3>1
  <2>3. \A w \in WorkIds : \E f \in Files :
          KeyOf[f] = workQueue[w].key /\ (f \in Recorded \/ libraries[LibOf[f]] = "removed")
    BY CalmFacts DEF RowsMatch
  <2> QED
    BY <1>1, <1>2, <1>3, <2>1, <2>2, <2>3 DEF RowsMatch
<1>6. ReservedIsBacked'
  <2>1. \A t \in ScanIds : scanResults[t].status = "processing" =>
          \E w \in WorkIds : <<w, t>> \in links /\ workQueue[w].status # "done"
    BY CalmFacts DEF ReservedIsBacked, Calm
  <2>2. ASSUME NEW t \in ScanIds', scanResults'[t].status = "processing"
        PROVE  \/ \E w \in WorkIds' : <<w, t>> \in links' /\ workQueue'[w].status # "done"
               \/ \E p \in Scanners : /\ scanner'[p].pc \in {"submit", "restore"}
                                      /\ scanner'[p].cur[1] = t
    <3>1. CASE t = s
      BY <1>2, <2>2, <3>1 DEF Calm
    <3>2. CASE t # s
      BY <1>1, <1>2, <2>1, <2>2, <3>2
    <3> QED
      BY <3>1, <3>2
  <2> QED
    BY <2>2 DEF ReservedIsBacked
<1>7. DoneStays
  BY <1>2 DEF DoneStays
<1> QED
  BY <1>5, <1>6, <1>7 DEF CalmInv

\* A file that is recorded for the first time has no work yet: what work its
\* song had stems from this file, whose library would have to be gone.
LEMMA UpsertCalm ==
  ASSUME Calm, ServiceInv, CalmInv, UpsertResults("serve")
  PROVE  CalmInv' /\ DoneStays
<1> DEFINE me == scanner["serve"]
           F == me.found
           key == [f \in F |-> KeyOf[f]]
           total == lastScan + Cardinality(F \ Recorded)
<1>1. /\ me \in ScannerState /\ me.pc = "upsert" /\ F \subseteq Files
      /\ \A f \in F : LibOf[f] = me.lib
  BY CalmFacts DEF UpsertResults, At, ServiceInv, ServiceTypeOK, Calm, ScannerState
<1>2. /\ F # {} => libraries[me.lib] = "present"
      /\ libraries' = libraries /\ workQueue' = workQueue /\ links' = links
      /\ scanner' = [scanner EXCEPT !["serve"].pc = "list", !["serve"].found = {}]
  BY DEF UpsertResults, Upsert
<1>3. PICK fileAt \in Bijection((lastScan + 1)..total, F \ Recorded) :
        scanResults' =
          [s \in ScanIds \cup (lastScan + 1)..total |->
             IF s > lastScan
             THEN [file |-> fileAt[s], key |-> key[fileAt[s]], status |-> "pending"]
             ELSE IF scanResults[s].file \in F
             THEN Refreshed(scanResults[s], key[scanResults[s].file], "serve" \in Forced)
             ELSE scanResults[s]]
  BY DEF UpsertResults, Upsert
<1>4. \A s \in (lastScan + 1)..total : fileAt[s] \in F \ Recorded
  BY <1>3 DEF Bijection, Injection, Surjection, IsInjective
<1>5. lastScan \in Nat /\ ScanIds \subseteq 1..lastScan
  BY TablesAssumption, CalmFacts DEF DatabaseInv, TypeOK
<1>6. total \in Nat
  <2> HIDE DEF F
  <2>1. F \in SUBSET Files
    BY <1>1
  <2>2. Cardinality(F \ Recorded) \in Nat
    BY <2>1, NewFilesFinite
  <2> QED
    BY <1>5, <2>2
<1> HIDE DEF total
<1>7. ScanIds' = ScanIds \cup (lastScan + 1)..total
  BY <1>3 DEF ScanIds
<1>8. ASSUME NEW s \in ScanIds PROVE scanResults'[s] = scanResults[s]
  <2>1. ~(s > lastScan)
    BY <1>5
  <2>2. scanResults[s] \in ScanRow /\ scanResults[s].key = KeyOf[scanResults[s].file]
    BY CalmFacts DEF RowsMatch
  <2>3. CASE scanResults[s].file \in F
    <3>1. key[scanResults[s].file] = scanResults[s].key
      BY <2>2, <2>3
    <3>2. scanResults'[s] = Refreshed(scanResults[s], scanResults[s].key, "serve" \in Forced)
      BY <1>3, <2>1, <2>3, <3>1
    <3>3. "serve" \notin Forced
      BY DEF Calm
    <3> QED
      BY <2>2, <3>2, <3>3 DEF Refreshed, ScanRow
  <2>4. CASE scanResults[s].file \notin F
    BY <1>3, <2>1, <2>4
  <2> QED
    BY <2>3, <2>4
<1>9. ASSUME NEW s \in ScanIds', s \notin ScanIds
      PROVE  /\ scanResults'[s].file \in F \ Recorded /\ scanResults'[s].status = "pending"
             /\ scanResults'[s].key = KeyOf[scanResults'[s].file]
  <2>1. s \in (lastScan + 1)..total /\ s > lastScan
    BY <1>5, <1>6, <1>7, <1>9
  <2>2. fileAt[s] \in F \ Recorded /\ key[fileAt[s]] = KeyOf[fileAt[s]]
    BY <1>4, <2>1
  <2>3. scanResults'[s] = [file |-> fileAt[s], key |-> key[fileAt[s]], status |-> "pending"]
    BY <1>3, <2>1
  <2> HIDE DEF key
  <2> QED
    BY <2>2, <2>3
<1>10. WorkIds' = WorkIds /\ Recorded \subseteq Recorded'
  <2>1. WorkIds' = WorkIds
    BY <1>2 DEF WorkIds
  <2>2. \A s \in ScanIds : s \in ScanIds' /\ scanResults'[s] = scanResults[s]
    BY <1>7, <1>8
  <2> QED
    BY <2>1, <2>2 DEF Recorded
<1>11. RowsMatch'
  <2>1. RowsMatch
    BY CalmFacts
  <2>2. ASSUME NEW s \in ScanIds'
        PROVE  /\ scanResults'[s].key = KeyOf[scanResults'[s].file]
               /\ scanResults'[s].status = "pending" => Unqueued(s)'
    <3>1. CASE s \in ScanIds
      BY <1>2, <1>8, <1>10, <2>1, <3>1 DEF RowsMatch, Unqueued, RowsOf
    <3>2. CASE s \notin ScanIds
      <4> DEFINE f == scanResults'[s].file
      <4>1. f \in F \ Recorded /\ scanResults'[s].key = KeyOf[f] /\ f \in Files
        BY <1>1, <1>9, <3>2
      <4>2. libraries[LibOf[f]] = "present"
        BY <1>1, <1>2, <4>1
      <4> HIDE DEF f
      <4>3. ASSUME NEW w \in WorkIds, workQueue[w].key = KeyOf[f] PROVE FALSE
        <5>1. PICK g \in Files : /\ KeyOf[g] = workQueue[w].key
                                 /\ g \in Recorded \/ libraries[LibOf[g]] = "removed"
          BY <2>1 DEF RowsMatch
        <5>2. g = f
          BY <4>1, <4>3, <5>1 DEF Calm
        <5> QED
          BY <4>1, <4>2, <5>1, <5>2
      <4>4. Unqueued(s)'
        BY <1>2, <1>10, <4>1, <4>3 DEF Unqueued, RowsOf
      <4> QED
        BY <4>1, <4>4 DEF f
    <3> QED
      BY <3>1, <3>2
  <2>3. \A l \in links' : workQueue'[l[1]].key = scanResults'[l[2]].key
    <3>1. \A l \in links : l[2] \in ScanIds /\ workQueue[l[1]].key = scanResults[l[2]].key
      BY <2>1, CalmFacts DEF RowsMatch, DatabaseInv, ReferencesLive
    <3> QED
      BY <1>2, <1>8, <3>1
  <2>4. \A w \in WorkIds' : \E f \in Files :
          KeyOf[f] = workQueue'[w].key /\ (f \in Recorded' \/ libraries'[LibOf[f]] = "removed")
    BY <1>2, <1>10, <2>1 DEF RowsMatch
  <2> QED
    BY <2>2, <2>3, <2>4 DEF RowsMatch
<1>12. ReservedIsBacked'
  <2>1. ReservedIsBacked /\ Scanners = {"serve"}
    BY CalmFacts DEF Calm
  <2>2. ASSUME NEW s \in ScanIds', scanResults'[s].status = "processing"
        PROVE  \E w \in WorkIds' : <<w, s>> \in links' /\ workQueue'[w].status # "done"
    <3>1. s \in ScanIds /\ scanResults[s].status = "processing"
      BY <1>8, <1>9, <2>2
    <3>2. \E w \in WorkIds : <<w, s>> \in links /\ workQueue[w].status # "done"
      BY <1>1, <2>1, <3>1 DEF ReservedIsBacked
    <3> QED
      BY <1>2, <1>10, <3>2
  <2> QED
    BY <2>2 DEF ReservedIsBacked
<1>13. ListingIsCurrent'
  <2>1. ListingIsCurrent /\ scanner \in [{"serve"} -> ScannerState]
    BY CalmFacts
  <2>2. me.batch = {}
    BY <1>1, <2>1 DEF ListingIsCurrent
  <2>3. scanner'["serve"].batch = me.batch /\ scanner'["serve"].pc = "list"
    BY <1>1, <1>2, <2>1 DEF ScannerState
  <2> QED
    BY <2>2, <2>3, NothingListed
<1>14. DoneStays
  BY <1>8 DEF DoneStays
<1> QED
  BY <1>11, <1>12, <1>13, <1>14 DEF CalmInv

\* The row in hand gets work of its own, and no other listed row shares it.
LEMMA SubmitCalm ==
  ASSUME Calm, ServiceInv, CalmInv, Submit("serve")
  PROVE  CalmInv' /\ DoneStays
<1> DEFINE me == scanner["serve"]
           s == me.cur[1]
           k == me.cur[2]
           outs == {PathOf[scanResults[s].file]}
<1>1. /\ me \in ScannerState /\ me.pc = "submit" /\ ListingIsCurrent /\ RowsMatch
      /\ s \in ScanIds /\ StillIs(me.cur, "processing")
      /\ \A c \in me.batch : StillIs(c, "pending") /\ c[1] # s
      /\ \A c, d \in me.batch : c[1] = d[1] => c = d
  BY CalmFacts DEF Submit, At, EnqueueScan, ListingIsCurrent
<1>2. /\ scanResults[s].status = "processing" /\ scanResults[s].key = k /\ RowsOf(k) = {}
  BY <1>1 DEF StillIs, Unqueued
<1>3. /\ scanner' = [scanner EXCEPT !["serve"].pc = "next"]
      /\ Enqueue(k, outs, PriorityScan, {s})
  BY DEF Submit, EnqueueScan, Goto
<1>4. /\ lastWork' = lastWork + 1
      /\ workQueue' = [w \in WorkIds \cup {lastWork'} |->
                         IF w = lastWork' THEN NewRow(k, outs, PriorityScan) ELSE workQueue[w]]
      /\ links' = links \cup ({lastWork'} \X {s})
      /\ libraries' = libraries /\ scanResults' = scanResults
  BY <1>2, <1>3 DEF Enqueue
<1>5. lastWork \in Nat /\ WorkIds \subseteq 1..lastWork
  BY TablesAssumption, CalmFacts DEF DatabaseInv, TypeOK
<1> DEFINE n == lastWork'
<1>6. n \notin WorkIds
  BY <1>4, <1>5
<1> HIDE DEF n, me, s, k, outs
<1>7. /\ WorkIds' = WorkIds \cup {n} /\ ScanIds' = ScanIds /\ Recorded' = Recorded
      /\ \A w \in WorkIds : workQueue'[w] = workQueue[w]
      /\ workQueue'[n] = NewRow(k, outs, PriorityScan)
  BY <1>4, <1>6 DEF n, WorkIds, ScanIds, Recorded
<1>8. workQueue'[n].key = k /\ workQueue'[n].status = "pending"
  BY <1>7 DEF NewRow
<1>9. links' = links \cup {<<n, s>>}
  BY <1>4 DEF n
\* No other scan row is of this song.
<1>10. ASSUME NEW t \in ScanIds, t # s, Unqueued(t) PROVE Unqueued(t)'
  <2>1. /\ scanResults[t].key = KeyOf[scanResults[t].file]
        /\ scanResults[s].key = KeyOf[scanResults[s].file]
        /\ scanResults[t].file \in Files /\ scanResults[s].file \in Files
    BY <1>1, CalmFacts DEF RowsMatch, ScanRow
  <2>2. scanResults[t].file # scanResults[s].file
    BY <1>1, <1>10, CalmFacts DEF DatabaseInv, KeysUnique
  <2>3. scanResults[t].key # k
    BY <1>2, <2>1, <2>2 DEF Calm
  <2> QED
    BY <1>4, <1>7, <1>8, <1>10, <2>3 DEF Unqueued, RowsOf
<1>11. RowsMatch'
  <2>1. ASSUME NEW t \in ScanIds'
        PROVE  /\ scanResults'[t].key = KeyOf[scanResults'[t].file]
               /\ scanResults'[t].status = "pending" => Unqueued(t)'
    <3>1. /\ scanResults[t].key = KeyOf[scanResults[t].file] /\ t \in ScanIds
          /\ scanResults[t].status = "pending" => Unqueued(t)
      BY <1>1, <1>7 DEF RowsMatch
    <3> QED
      BY <1>2, <1>4, <1>10, <3>1
  <2>2. \A l \in links' : workQueue'[l[1]].key = scanResults'[l[2]].key
    <3>1. \A l \in links : l[1] \in WorkIds /\ workQueue[l[1]].key = scanResults[l[2]].key
      BY <1>1, CalmFacts DEF RowsMatch, DatabaseInv, ReferencesLive
    <3> QED
      BY <1>2, <1>4, <1>7, <1>8, <1>9, <3>1
  <2>3. ASSUME NEW w \in WorkIds'
        PROVE  \E f \in Files :
                 KeyOf[f] = workQueue'[w].key /\ (f \in Recorded' \/ libraries'[LibOf[f]] = "removed")
    <3>1. CASE w \in WorkIds
      BY <1>1, <1>4, <1>7, <3>1 DEF RowsMatch
    <3>2. CASE w = n
      <4> DEFINE f == scanResults[s].file
      <4>1. f \in Files /\ f \in Recorded /\ KeyOf[f] = k
        BY <1>1, <1>2, CalmFacts DEF RowsMatch, ScanRow, Recorded
      <4> QED
        BY <1>7, <1>8, <3>2, <4>1
    <3> QED
      BY <1>7, <3>1, <3>2
  <2> QED
    BY <2>1, <2>2, <2>3 DEF RowsMatch
<1>12. ReservedIsBacked'
  <2>1. ReservedIsBacked /\ Scanners = {"serve"}
    BY CalmFacts DEF Calm
  <2>2. ASSUME NEW t \in ScanIds', scanResults'[t].status = "processing"
        PROVE  \E w \in WorkIds' : <<w, t>> \in links' /\ workQueue'[w].status # "done"
    <3>1. CASE t = s
      BY <1>7, <1>8, <1>9, <3>1
    <3>2. CASE t # s
      <4>1. t \in ScanIds /\ scanResults[t].status = "processing"
        BY <1>4, <1>7, <2>2
      <4>2. \E w \in WorkIds : <<w, t>> \in links /\ workQueue[w].status # "done"
        BY <2>1, <3>2, <4>1 DEF ReservedIsBacked, s, me
      <4> QED
        BY <1>7, <1>9, <4>2
    <3> QED
      BY <3>1, <3>2
  <2> QED
    BY <2>2 DEF ReservedIsBacked
<1>13. ListingIsCurrent'
  <2>1. scanner'["serve"].batch = me.batch /\ scanner'["serve"].pc = "next"
    BY <1>1, <1>3, CalmFacts DEF ScannerState, me
  <2>2. ASSUME NEW c \in me.batch PROVE StillIs(c, "pending")'
    <3>1. StillIs(c, "pending") /\ c[1] # s
      BY <1>1
    <3> QED
      BY <1>4, <1>7, <1>10, <3>1 DEF StillIs
  <2> QED
    BY <1>1, <2>1, <2>2 DEF ListingIsCurrent
<1>14. DoneStays
  BY <1>4 DEF DoneStays
<1> QED
  BY <1>11, <1>12, <1>13, <1>14 DEF CalmInv

\* The scheduler's own steps.
LEMMA ScanCalm ==
  ASSUME Calm, ServiceInv, CalmInv, Scan("serve")
  PROVE  CalmInv' /\ DoneStays
<1> DEFINE me == scanner["serve"]
           new == scanner'["serve"]
<1>1. /\ scanner \in [{"serve"} -> ScannerState] /\ me \in ScannerState
      /\ ListingIsCurrent /\ RowsMatch
      /\ scanResults \in [ScanIds -> ScanRow] /\ ScanIds = DOMAIN scanResults
  BY CalmFacts
<1>2. "busy" \notin Env
  BY DEF Calm
<1>3. Ended("serve").batch = {} /\ Ended("serve").pc = "dead" /\ ScannerIdle.batch = {}
  BY DEF Ended, ScannerIdle
<1>4. End("serve") => new.batch = {} /\ new.pc = "dead"
  BY <1>1, <1>3 DEF End
\* Nothing is listed before or after.
<1>5. CASE StartScan("serve") \/ ScanLibrary("serve") \/ UpsertRefused("serve")
           \/ ScanFails("serve") \/ NextLibrary("serve")
  <2>1. UNCHANGED tables /\ me.pc \in {"idle", "library", "upsert", "next"}
    BY <1>2, <1>5 DEF StartScan, ScanLibrary, UpsertRefused, ScanFails, NextLibrary, At
  <2>2. new.batch = {} /\ new.pc \in {"idle", "library", "upsert", "list", "dead", "next"}
    <3>1. CASE StartScan("serve")
      <4>1. me.batch = {}
        BY <1>1, <3>1 DEF StartScan, At, ListingIsCurrent
      <4>2. new.batch = me.batch /\ new.pc = "library"
        BY <1>1, <3>1 DEF StartScan, ScannerState
      <4> QED
        BY <4>1, <4>2
    <3>2. CASE ScanLibrary("serve")
      <4>1. me.batch = {}
        BY <1>1, <3>2 DEF ScanLibrary, At, ListingIsCurrent
      <4>2. new.batch = me.batch /\ new.pc = "upsert"
        BY <1>1, <3>2 DEF ScanLibrary, ScannerState
      <4> QED
        BY <4>1, <4>2
    <3>3. CASE UpsertRefused("serve") \/ ScanFails("serve")
      BY <1>4, <3>3 DEF UpsertRefused, ScanFails
    <3>4. CASE NextLibrary("serve")
      <4> DEFINE pc == IF me.libs = {} THEN "idle" ELSE "library"
      <4>1. new = [ScannerIdle EXCEPT !.pc = pc, !.libs = me.libs]
        BY <1>1, <3>4 DEF NextLibrary
      <4>2. pc \in {"idle", "library"}
        OBVIOUS
      <4> HIDE DEF pc, me, new
      <4>3. new.batch = {} /\ new.pc = pc
        BY <4>1 DEF ScannerIdle
      <4> QED
        BY <4>2, <4>3 DEF new
    <3> QED
      BY <1>5, <3>1, <3>2, <3>3, <3>4
  <2>3. ListingIsCurrent'
    BY <2>2, NothingListed
  <2> QED
    BY <2>1, <2>3, OutsideTables
<1>6. CASE ListPending("serve")
  <2> DEFINE B == {<<s, scanResults[s].key>> :
                     s \in {t \in ScanIds : /\ LibraryOf(t) = me.lib
                                            /\ scanResults[t].status \in Listed}}
  <2>1. /\ UNCHANGED tables /\ me.pc = "list"
        /\ scanner' = [scanner EXCEPT !["serve"].pc = "next", !["serve"].batch = B]
    BY <1>6 DEF ListPending, At
  <2>2. \A c \in B : StillIs(c, "pending")
    BY <1>1 DEF StillIs, RowsMatch, Listed
  <2>3. \A c, d \in B : c[1] = d[1] => c = d
    OBVIOUS
  <2> HIDE DEF B
  <2>4. new.pc = "next" /\ new.batch = B
    BY <1>1, <2>1 DEF ScannerState
  <2>5. \A c \in B : StillIs(c, "pending")'
    BY <2>1, <2>2 DEF StillIs, Unqueued, RowsOf, ScanIds, WorkIds, tables
  <2>6. ListingIsCurrent'
    BY <2>3, <2>4, <2>5 DEF ListingIsCurrent
  <2> QED
    BY <2>1, <2>6, OutsideTables
<1>7. CASE Lookup("serve")
  <2>1. PICK c \in me.batch :
          scanner' = [scanner EXCEPT
            !["serve"].pc = IF cache[c[2]] # NoSong THEN "hit" ELSE "reserve",
            !["serve"].batch = @ \ {c}, !["serve"].cur = c]
    BY <1>7 DEF Lookup
  <2>2. UNCHANGED tables /\ me.pc = "next"
    BY <1>7 DEF Lookup, At
  <2>3. new.pc \in {"hit", "reserve"} /\ new.batch = me.batch \ {c} /\ new.cur = c
    BY <1>1, <2>1 DEF ScannerState
  <2>4. \A d \in me.batch : StillIs(d, "pending")'
    <3>1. \A d \in me.batch : StillIs(d, "pending")
      BY <1>1 DEF ListingIsCurrent
    <3> QED
      BY <2>2, <3>1 DEF StillIs, Unqueued, RowsOf, ScanIds, WorkIds, tables
  <2>5. \A d, e \in me.batch : d[1] = e[1] => d = e
    BY <1>1 DEF ListingIsCurrent
  <2>6. StillIs(c, "pending")'
    BY <2>4
  <2> HIDE DEF me
  <2>7. ListingIsCurrent'
    BY <2>3, <2>4, <2>5, <2>6 DEF ListingIsCurrent, StillIs, Unqueued
  <2> QED
    BY <2>2, <2>7, OutsideTables DEF me
<1>8. ASSUME NEW status \in {"processing", "done"}, NEW pc \in {"next", "submit"},
             Mark("serve", status, pc), me.pc \in {"hit", "reserve"},
             (status = "processing") <=> (pc = "submit")
      PROVE  CalmInv' /\ DoneStays
  <2> DEFINE s == me.cur[1]
  <2>1. CASE s \notin ScanIds
    <3>1. UNCHANGED tables /\ End("serve")
      BY <1>8, <2>1 DEF Mark
    <3>2. ListingIsCurrent'
      BY <1>4, <3>1, NothingListed
    <3> QED
      BY <1>8, <3>1, <3>2, OutsideTables
  <2>2. CASE s \in ScanIds
    <3>1. SetStatus(s, status) /\ scanner' = [scanner EXCEPT !["serve"].pc = pc]
      BY <1>8, <2>2 DEF Mark, Goto
    <3>2. new.pc = pc /\ new.batch = me.batch /\ new.cur = me.cur
      BY <1>1, <3>1 DEF ScannerState
    <3>3. /\ scanResults[s].status = "pending" /\ scanResults[s].key = me.cur[2] /\ Unqueued(s)
          /\ \A c \in me.batch : StillIs(c, "pending") /\ c[1] # s
          /\ \A c, d \in me.batch : c[1] = d[1] => c = d
      BY <1>1, <1>8, <2>2 DEF ListingIsCurrent, StillIs
    <3>4. /\ ScanIds' = ScanIds /\ WorkIds' = WorkIds /\ workQueue' = workQueue
          /\ scanResults'[s].status = status /\ scanResults'[s].key = scanResults[s].key
          /\ \A t \in ScanIds \ {s} : scanResults'[t] = scanResults[t]
      BY <1>1, <2>2, <3>1 DEF SetStatus, ScanIds, WorkIds, ScanRow
    <3>5. \A t \in ScanIds : Unqueued(t) => Unqueued(t)'
      BY <3>4 DEF Unqueued, RowsOf
    <3>6. \A c \in me.batch : StillIs(c, "pending")'
      BY <3>3, <3>4, <3>5 DEF StillIs
    <3>7. /\ scanResults'[s].status = status /\ scanResults'[s].key = me.cur[2]
          /\ {w \in WorkIds' : workQueue'[w].key = scanResults'[s].key} = {}
      BY <2>2, <3>3, <3>4 DEF Unqueued, RowsOf
    <3>8. ListingIsCurrent'
      <4>1. new.pc = "submit" => /\ scanResults'[new.cur[1]].status = "processing"
                                 /\ scanResults'[new.cur[1]].key = new.cur[2]
                                 /\ {w \in WorkIds' :
                                       workQueue'[w].key = scanResults'[new.cur[1]].key} = {}
        BY <1>8, <3>2, <3>7
      <4>2. \A c \in new.batch : StillIs(c, "pending")'
        BY <3>2, <3>6
      <4>3. StillIs(scanner["serve"].cur, "processing")' \/ new.pc # "submit"
        BY <4>1 DEF StillIs, Unqueued, RowsOf
      <4>4. /\ \A c, d \in new.batch : c[1] = d[1] => c = d
            /\ \A c \in new.batch : c[1] # new.cur[1]
            /\ new.pc \in {"next", "submit"}
        BY <1>8, <3>2, <3>3
      <4> QED
        BY <4>2, <4>3, <4>4 DEF ListingIsCurrent
    <3>9. status = "processing" => new.pc = "submit" /\ new.cur[1] = s
      BY <1>8, <3>2
    <3> HIDE DEF s
    <3> QED
      BY <1>8, <3>1, <3>3, <3>8, <3>9, StatusSet
  <2> QED
    BY <2>1, <2>2
<1>9. CASE MarkHit("serve") \/ Reserve("serve")
  BY <1>8, <1>9 DEF MarkHit, Reserve, At
<1>10. CASE SubmitFails("serve")
  <2>1. /\ UNCHANGED tables /\ me.pc = "submit" /\ me.cur[1] \notin ScanIds
        /\ scanner' = [scanner EXCEPT !["serve"].pc = "restore"]
    BY <1>2, <1>10 DEF SubmitFails, At, Goto
  <2>2. new.pc = "restore" /\ new.batch = me.batch /\ new.cur = me.cur
    BY <1>1, <2>1 DEF ScannerState
  <2>3. /\ \A c \in me.batch : StillIs(c, "pending")
        /\ \A c, d \in me.batch : c[1] = d[1] => c = d
    BY <1>1 DEF ListingIsCurrent
  <2>4. \A c \in me.batch : StillIs(c, "pending")'
    BY <2>1, <2>3 DEF StillIs, Unqueued, RowsOf, ScanIds, WorkIds, tables
  <2>5. new.cur[1] \notin ScanIds'
    BY <2>1, <2>2 DEF ScanIds, tables
  <2>6. ListingIsCurrent'
    BY <2>2, <2>3, <2>4, <2>5 DEF ListingIsCurrent
  <2> QED
    BY <2>1, <2>6, OutsideTables
<1>11. CASE Restore("serve")
  <2>1. me.pc = "restore"
    BY <1>11 DEF Restore, At
  <2>2. me.cur[1] \notin ScanIds
    BY <1>1, <2>1 DEF ListingIsCurrent
  <2>3. UNCHANGED tables /\ End("serve")
    BY <1>11, <2>2 DEF Restore
  <2>4. ListingIsCurrent'
    BY <1>4, <2>3, NothingListed
  <2> QED
    BY <2>2, <2>3, <2>4, OutsideTables
<1> QED
  BY <1>5, <1>6, <1>7, <1>9, <1>10, <1>11, UpsertCalm, SubmitCalm DEF Scan

\* One step of the calm service.
LEMMA CalmStep ==
  ASSUME Calm, ServiceInv, ServiceInv', CalmInv, [ServiceNext]_vars
  PROVE  CalmInv' /\ DoneStays
<1>1. /\ DatabaseInv /\ DatabaseInv'
      /\ Scanners = {"serve"}
      /\ Env \cap {"crash", "stop", "busy", "hook", "delete", "clear", "retry"} = {}
  BY DEF ServiceInv, Calm
<1>2. CASE \E p \in Scanners : Scan(p)
  BY <1>1, <1>2, ScanCalm
<1>3. CASE Work
  <2>1. scanner' = scanner
    BY <1>3 DEF Work, Claim, Answered, AnswerLost, Resolve, Fetch, FetchLimited, AttemptFails,
       Store, Write, Finish, GiveUp, HandBack, SettleFails, CircuitCloses, Rest, OnlyWorker
  <2>2. \/ \E w : Dequeue(w) \/ Complete(w) \/ Release(w) \/ Fail(w)
        \/ UNCHANGED tables
    BY <1>3 DEF Work, Claim, Answered, AnswerLost, Resolve, Fetch, FetchLimited, AttemptFails,
       Store, Write, Finish, GiveUp, HandBack, SettleFails, CircuitCloses
  <2> QED
    BY <1>1, <2>1, <2>2, CalmTransactions, SettlesKeeps
<1>4. CASE Commands \/ Clock
  <2>1. scanner' = scanner
    BY <1>4 DEF Commands, Clock, procs
  <2>2. ClearDone \/ Tick \/ \E l \in Libraries : AddLibrary(l) \/ RemoveLibrary(l)
    BY <1>1, <1>4 DEF Commands, Clock
  <2> QED
    BY <1>1, <2>1, <2>2, CalmTransactions, SettlesKeeps
<1>5. CASE Restart \/ UNCHANGED vars
  <2>1. scanner' = scanner /\ UNCHANGED tables
    BY <1>5 DEF Restart, vars, procs
  <2> QED
    BY <1>1, <2>1, CalmTransactions, SettlesKeeps
<1>6. ~(Webhook \/ Stop \/ Crash \/ \E p \in Scanners : Kill(p))
  BY <1>1 DEF Webhook, Stop, Crash, Kill
<1> QED
  BY <1>2, <1>3, <1>4, <1>5, <1>6 DEF ServiceNext

\* While the scheduler scans alone and uninterrupted, the rows that
\* EnqueuePending has listed stay as it listed them until it submits them.
THEOREM CalmInvariant == Calm => (ServiceSpec => []CalmInv)
<1> SUFFICES ASSUME Calm PROVE ServiceSpec => []CalmInv
  OBVIOUS
<1>1. ServiceInit => CalmInv
  <2> SUFFICES ASSUME ServiceInit PROVE CalmInv
    OBVIOUS
  <2>1. ScanIds = {} /\ WorkIds = {} /\ links = {}
    BY DEF ServiceInit, TablesInit, ScanIds, WorkIds
  <2>2. scanner["serve"].pc = "idle" /\ scanner["serve"].batch = {}
    BY DEF ServiceInit, Calm, ScannerIdle
  <2>3. ListingIsCurrent
    BY <2>2 DEF ListingIsCurrent
  <2>4. RowsMatch /\ ReservedIsBacked
    BY <2>1 DEF RowsMatch, ReservedIsBacked
  <2> QED
    BY <2>3, <2>4 DEF CalmInv
<1>2. ServiceInv /\ ServiceInv' /\ CalmInv /\ [ServiceNext]_vars => CalmInv'
  BY CalmStep
<1> QED
  BY <1>1, <1>2, ServiceInvariant, PTL DEF ServiceSpec

\* ... and a row it has reserved is always in its hands or backed by work that
\* will write it back, so that no file is forgotten (EnqueuePending and
\* Complete, of two goroutines).
THEOREM ReservationsBacked == Calm => (ServiceSpec => []ReservedIsBacked)
<1> SUFFICES ASSUME Calm PROVE ServiceSpec => []ReservedIsBacked
  OBVIOUS
<1>1. CalmInv => ReservedIsBacked
  BY DEF CalmInv
<1> QED
  BY <1>1, CalmInvariant, PTL

\* ... and what is done stays done, however often the library is scanned again
\* (Upsert, which takes over tags but no status).
THEOREM DoneStaysDone == Calm => (ServiceSpec => PeriodicScansKeepDone)
<1> SUFFICES ASSUME Calm PROVE ServiceSpec => PeriodicScansKeepDone
  OBVIOUS
<1> DEFINE Keeps ==
      \A s \in ScanIds \cap ScanIds' :
        scanResults[s].status = "done" /\ scanResults'[s].status # "done"
        => \E p \in Forced : scanner[p].pc = "upsert"
<1>1. ServiceInv /\ ServiceInv' /\ CalmInv /\ [ServiceNext]_vars => [Keeps]_vars
  BY CalmStep DEF DoneStays
<1> QED
  BY <1>1, ServiceInvariant, CalmInvariant, PTL DEF ServiceSpec, PeriodicScansKeepDone

\* The service keeps the ledger: per song, at most one job, with a legal life.
THEOREM ServiceImplementsLedger == ServiceSpec => ImplementsLedger
BY ServiceUsesTransactions, QueueImplementsLedger, PTL DEF UsesTransactions

=============================================================================
