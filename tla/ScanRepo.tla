------------------------------ MODULE ScanRepo ------------------------------
(***************************************************************************)
(* The transactions on libraries and scan_results: library.Repo and        *)
(* scan.Repo.  Each action is one committed transaction; one that fails    *)
(* rolls back and changes nothing.                                         *)
(***************************************************************************)
EXTENDS Tables

\* library.Repo.Add.
AddLibrary(l) ==
  /\ libraries[l] = "unused"
  /\ libraries' = [libraries EXCEPT ![l] = "present"]
  /\ UNCHANGED <<scanResults, workQueue, links, lastScan, lastWork>>

\* library.Repo.Remove: the foreign keys of scan_results and of the junction
\* cascade; rows of work_queue survive without their links.
RemoveLibrary(l) ==
  /\ libraries[l] = "present"
  /\ libraries' = [libraries EXCEPT ![l] = "removed"]
  /\ LET gone == {s \in ScanIds : LibraryOf(s) = l}
     IN  /\ scanResults' = Restrict(scanResults, ScanIds \ gone)
         /\ links' = Unlinked({}, gone)
  /\ UNCHANGED <<workQueue, lastScan, lastWork>>

-----------------------------------------------------------------------------
Recorded == {scanResults[s].file : s \in ScanIds}

\* Mutant of Refreshed: every scan resets the status.
RefreshedAlways(row, key, force) ==
  [row EXCEPT !.key = key, !.status = "pending"]

\* ON CONFLICT(library_id, file_path): the tags are taken over, the status
\* only when the caller forces it.
Refreshed(row, key, force) ==
  [row EXCEPT !.key = key, !.status = IF force THEN "pending" ELSE @]

\* scan.Repo.Upsert of the scanned files F of library l, file f carrying the
\* tags key[f].  The foreign key refuses rows of a library that is not there.
\* Walk order decides the order of the new ids.
Upsert(l, F, key, force) ==
  LET new == F \ Recorded
      total == lastScan + Cardinality(new)
  IN  /\ F # {} => libraries[l] = "present"
      /\ total <= MaxScan
      /\ \E fileAt \in Bijection((lastScan + 1)..total, new) :
           scanResults' =
             [s \in ScanIds \cup (lastScan + 1)..total |->
                IF s > lastScan
                THEN [file |-> fileAt[s], key |-> key[fileAt[s]],
                      status |-> "pending"]
                ELSE IF scanResults[s].file \in F
                THEN Refreshed(scanResults[s], key[scanResults[s].file], force)
                ELSE scanResults[s]]
      /\ lastScan' = total
      /\ UNCHANGED <<libraries, workQueue, links, lastWork>>

\* scan.Repo.SetStatus of one row; sql.ErrNoRows when it is gone.
SetStatus(s, status) ==
  /\ s \in ScanIds
  /\ scanResults' = [scanResults EXCEPT ![s].status = status]
  /\ UNCHANGED <<libraries, workQueue, links, lastScan, lastWork>>

=============================================================================
