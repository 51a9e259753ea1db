------------------------------ MODULE FetchApp ------------------------------
(***************************************************************************)
(* The application behind the fetch command: app.App.Run and handleFailed  *)
(* over two in-memory queues, with Ctrl+C at any moment.  An input is its  *)
(* position in the list that the scanner parsed.                           *)
(***************************************************************************)
EXTENDS Naturals, SequencesExt

CONSTANTS
  MaxInputs,    \* bound: inputs of one command
  Modes         \* "dir", or "cli" and "text", which list failed inputs

ASSUME FetchAppAssumption == MaxInputs \in Nat /\ Modes \subseteq {"dir", "cli", "text"}

VARIABLES
  pc,
  mode,
  total,       \* inputs that were parsed
  inputs,      \* InputsQueue: still to do
  failed,      \* InputsQueue: to be reported
  saved,       \* inputs whose lyrics were written
  rows,        \* the failed-items file, rows buffered or written
  success,     \* the count that handleFailed logs
  failures,    \* failureCount, at most MaxInputs
  canceled     \* the command's context is canceled

vars == <<pc, mode, total, inputs, failed, saved, rows, success, failures, canceled>>

\* No input is there before the command line is parsed.
FetchInit ==
  /\ pc = "parse"
  /\ mode \in Modes
  /\ total = 0 /\ inputs = <<>>
  /\ failed = <<>> /\ saved = <<>> /\ rows = <<>>
  /\ success = 0 /\ failures = 0
  /\ canceled = FALSE

\* NewApp with n inputs.
NewApp(n) ==
  /\ pc = "parse"
  /\ pc' = "loop"
  /\ total' = n /\ inputs' = [i \in 1..n |-> i]
  /\ UNCHANGED <<mode, failed, saved, rows, success, failures, canceled>>

-----------------------------------------------------------------------------
(* Run.                                                                    *)

\* FindLyrics of the first input, which stays queued meanwhile.
Search ==
  /\ pc = "loop" /\ inputs # <<>> /\ ~canceled
  /\ pc' = "search"
  /\ UNCHANGED <<mode, total, inputs, failed, saved, rows, success, failures, canceled>>

LoopEnds ==
  /\ pc = "loop" /\ (inputs = <<>> \/ canceled)
  /\ pc' = "drain"
  /\ UNCHANGED <<mode, total, inputs, failed, saved, rows, success, failures, canceled>>

\* The context may be canceled after FindLyrics; WriteLRC does not look at it.
Found ==
  /\ pc = "search"
  /\ failures' = 0 /\ pc' = "timer"
  /\ inputs' = Tail(inputs)
  /\ saved' = Append(saved, Head(inputs))
  /\ UNCHANGED <<mode, total, failed, rows, success, canceled>>

\* Mutant of Unwritable: the input is only logged.
UnwritableLogged ==
  /\ pc = "search"
  /\ failures' = 0 /\ pc' = "timer"
  /\ inputs' = Tail(inputs)
  /\ UNCHANGED <<mode, total, failed, saved, rows, success, canceled>>

\* Lyrics were found but WriteLRC failed.
Unwritable ==
  /\ pc = "search"
  /\ failures' = 0 /\ pc' = "timer"
  /\ inputs' = Tail(inputs)
  /\ failed' = Append(failed, Head(inputs))
  /\ UNCHANGED <<mode, total, saved, rows, success, canceled>>

\* Mutant of NotFound: the input is tried again.
NotFoundRetried ==
  /\ pc = "search"
  /\ failures' = IF failures < MaxInputs THEN failures + 1 ELSE failures
  /\ pc' = "backoff"
  /\ UNCHANGED <<mode, total, inputs, failed, saved, rows, success, canceled>>

\* FindLyrics failed, as it does when the context is canceled meanwhile.
NotFound ==
  /\ pc = "search"
  /\ failures' = failures + 1 /\ pc' = "backoff"
  /\ inputs' = Tail(inputs)
  /\ failed' = Append(failed, Head(inputs))
  /\ UNCHANGED <<mode, total, saved, rows, success, canceled>>

\* timer and backoffTimer, over or cut short by the context.
Waited ==
  /\ pc \in {"timer", "backoff"}
  /\ pc' = "loop"
  /\ UNCHANGED <<mode, total, inputs, failed, saved, rows, success, failures, canceled>>

-----------------------------------------------------------------------------
(* handleFailed.                                                           *)

\* Mutant of Drain: the inputs never tried are reported before the failed.
DrainFirst ==
  /\ pc = "drain"
  /\ failed' = inputs \o failed /\ inputs' = <<>>
  /\ success' = total - Len(failed')
  /\ pc' = IF failed' = <<>> \/ mode = "dir" THEN "done" ELSE "list"
  /\ UNCHANGED <<mode, total, saved, rows, failures, canceled>>

Drain ==
  /\ pc = "drain"
  /\ failed' = failed \o inputs /\ inputs' = <<>>
  /\ success' = total - Len(failed')
  /\ pc' = IF failed' = <<>> \/ mode = "dir" THEN "done" ELSE "list"
  /\ UNCHANGED <<mode, total, saved, rows, failures, canceled>>

\* One row of the failed-items file.
Row ==
  /\ pc = "list" /\ failed # <<>>
  /\ rows' = Append(rows, Head(failed))
  /\ failed' = Tail(failed)
  /\ UNCHANGED <<pc, mode, total, inputs, saved, success, failures, canceled>>

ListEnds ==
  /\ pc = "list" /\ failed = <<>>
  /\ pc' = "done"
  /\ UNCHANGED <<mode, total, inputs, failed, saved, rows, success, failures, canceled>>

\* Create, Write, Flush or Close failed: Run returns the error.
ListFails ==
  /\ pc = "list"
  /\ pc' = "error"
  /\ UNCHANGED <<mode, total, inputs, failed, saved, rows, success, failures, canceled>>

Cancel ==
  /\ ~canceled /\ pc \notin {"done", "error"}
  /\ canceled' = TRUE
  /\ UNCHANGED <<pc, mode, total, inputs, failed, saved, rows, success, failures>>

Run ==
  \/ Search \/ LoopEnds \/ Found \/ Unwritable \/ NotFound \/ Waited
  \/ Drain \/ Row \/ ListEnds \/ ListFails

-----------------------------------------------------------------------------
\* Every parsed input is in exactly one place, in whatever order fetching,
\* writing and canceling succeed or fail: none is lost, none reported twice.
NothingLost ==
  LET all == saved \o rows \o failed \o inputs
  IN  Len(all) = total /\ ToSet(all) = 1..total

Ascending(s) == \A i, j \in DOMAIN s : i < j => s[i] < s[j]

\* When the command ends well its count is that of the lyrics it saved, and
\* except in dir mode the failed-items file lists all the others in the order
\* in which they were given.
HonestEnd ==
  pc = "done" =>
    /\ success = Len(saved)
    /\ mode # "dir" => /\ ToSet(rows) = (1..total) \ ToSet(saved)
                       /\ Ascending(rows)

\* Run returns, canceled or not.
RunReturns == <>(pc \in {"done", "error"})

-----------------------------------------------------------------------------
(* What makes NothingLost and HonestEnd inductive.                         *)

\* The inputs that have been saved or have failed.
Tried == Len(saved) + Len(rows) + Len(failed)

FetchTypeOK ==
  /\ pc \in {"parse", "loop", "search", "timer", "backoff", "drain", "list", "done", "error"}
  /\ mode \in {"dir", "cli", "text"} /\ total \in Nat
  /\ \A queue \in {inputs, failed, saved, rows} : queue \in Seq(Nat)

\* The first inputs were tried, the others are queued in their order.
TriedInOrder ==
  /\ Tried + Len(inputs) = total
  /\ \A i \in DOMAIN inputs : inputs[i] = Tried + i
  /\ ToSet(saved) \cup ToSet(rows) \cup ToSet(failed) = 1..Tried
  /\ ToSet(saved) \cap (ToSet(rows) \cup ToSet(failed)) = {}
  /\ Ascending(rows) /\ Ascending(failed)
  /\ \A i \in DOMAIN rows, j \in DOMAIN failed : rows[i] < failed[j]

\* What each part of Run leaves to the next.
Phases ==
  /\ pc = "parse" => total = 0
  /\ pc = "search" => inputs # <<>>
  /\ pc \notin {"list", "done", "error"} => rows = <<>>
  /\ pc \in {"list", "done"} => inputs = <<>> /\ success = Len(saved)
  /\ pc = "done" /\ mode # "dir" => failed = <<>>

\* The conjunction TLAPS proves inductive.
FetchInv == FetchTypeOK /\ TriedInOrder /\ Phases

-----------------------------------------------------------------------------
(* Why Run returns.                                                        *)

\* An input takes three steps of the loop, and then perhaps a row: all that Run
\* has left to do.
Rounds ==
  CASE pc = "loop" -> 4 [] pc = "search" -> 3 [] pc \in {"timer", "backoff"} -> 5
    [] pc = "drain" -> 2 [] pc = "list" -> 1 [] OTHER -> 0

Work == 6 * Len(inputs) + Len(failed) + Rounds

\* Every step of Run leaves less to do, and canceling leaves no more.
WorkShrinks ==
  /\ Run => Work' < Work
  /\ Cancel => Work' = Work

=============================================================================
