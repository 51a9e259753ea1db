# mxlrcgo-svc in TLA+

A verification project for `mxlrcgo-svc`, the Go program in this repository
that fetches lyrics for a music library. It holds TLA+ modules for the parts
whose correctness depends on order, concurrency or failure, TLC configurations
that check them on small instances, and TLAPS proofs for any instance. Paths
below such as `internal/queue/queue.go` are under `src/`.

1. [The system](#1-the-system)
2. [Modules](#2-modules)
3. [Runs](#3-runs)
4. [Fairness](#4-fairness)
5. [What the checks found in the code](#5-what-the-checks-found-in-the-code)
6. [Proofs](#6-proofs)
7. [Abstractions](#7-abstractions)
8. [Not modelled](#8-not-modelled)
9. [Plan](#9-plan)

## 1. The system

One binary with several commands. `serve` is a long-running process with an
HTTP server (Lidarr webhook, health and status), a scan scheduler and one
worker; `scan`, `scan clear`, `queue retry`, `queue clear`, `library ...`,
`keys ...` and `config ...` are short processes of their own; `fetch` works from
an in-memory list. All but `fetch` and `config` meet in one SQLite file. `serve`
has a single connection to it, so the goroutines of `serve` and the other
processes are serialised per transaction by SQLite and by nothing else: what a
goroutine read in one statement may be stale in its next one.

| Component | Source | State | Operations | Correct when |
|---|---|---|---|---|
| work queue | `internal/queue/queue.go` | `work_queue`, junction `work_queue_scan_results` | Enqueue, Dequeue, Complete, Release, Fail, Cleanup, Retry, ClearDone, CancelByLibrary | one row per song with a legal life cycle; a claimed row belongs to its worker; completion reaches every scan row that collapsed into it; no bulk scan shortens a backoff; clearing a library leaves each queued row just the outputs that its other scan rows vouch for |
| scan results | `internal/scan/repository.go` | `scan_results` | Upsert, SetStatus, ListPending, ClearByLibrary | one row per file; a finished row is not reopened by a periodic scan |
| libraries | `internal/library/repository.go` | `libraries` | Add, Remove, List (Update) | removal cascades and leaves no dangling row |
| scan scheduler, enqueuer | `internal/scan/scheduler.go`, `enqueuer.go` | position in a run, the stale list of pending rows | Run, RunOnceFor, EnqueuePending | every file is reserved, enqueued and in the end has lyrics; a reserved row is always backed by work |
| library scanner | `internal/scanner/scanner.go` | the stack of its recursion, the results | ScanLibrary, ParseInput | finds every file in reach whose lyrics the options ask for, once, in the promised order, while lyrics files change |
| worker | `internal/worker/worker.go` | claimed row, consecutive failures, circuit breaker | RunOnce, Run, RunPaced | each claim is settled once; a rate limit costs no attempt; ready work is served |
| backoff | `internal/backoff/backoff.go` | none | Geometric | base doubled per attempt, capped, never wrapping |
| lyrics cache | `internal/cache/cache.go` | `lyrics_cache` | LookupExact, LookupFallback, Store | a hit spares a request and loses no file |
| lyrics writer | `internal/lyrics/writer.go` | `.lrc` and `.txt` beside the audio file | WriteLRC | lyrics are replaced by complete lyrics, and only by those |
| fetch loop | `internal/app/app.go`, `internal/queue/queue.go` (InputsQueue) | inputs, failed inputs, failed-items file | Run, handleFailed | no input is lost or reported twice, however the run ends |
| serve process | `internal/commands/commands.go` (`runServe`), `cmd/mxlrcgo-svc/main.go` | contexts, listener, goroutines, database handle | start, signal, shutdown, exit | it stops when told to, and nothing of it runs on a closed database |
| webhook | `internal/server/server.go` | one handler per request | Download, TrackRetag, Delete, Grab, Rename events; health, readiness, status | the answer tells what was committed; keys are checked |
| API keys | `internal/auth/service.go`, `store.go` | `api_key_metadata` | CreateKey, CreateIfNotExists, RevokeKey, ValidateKey | a revoked key stays revoked and is refused; no key gains a scope |
| provider client | `internal/musixmatch/client.go` | none | FindLyrics | every response becomes a song, a rate limit or an error |
| verification | `internal/verification/verification.go` | a temporary sample | Verify | doubtful lyrics are compared with the audio; the sample is removed |
| configuration | `internal/config/config.go`, `commands.go` (`runConfig`) | the TOML file, the environment | Load, `config set` | what Load lets through is valid, NaN and negative counts of a file apart; a set value takes effect and no other changes |
| command line | `internal/commands/commands.go` | none of its own | the commands | processes may come and go between any two statements |
| normalisation, slugs, migrations, data types | `internal/normalize`, `lyrics/slugify.go`, `db`, `models` | none that changes | pure functions and set-up | not modelled |

How they meet: the scheduler writes `scan_results` and enqueues; the worker
dequeues, reads and fills the cache, writes lyrics files and completes, which
writes back to `scan_results` through the junction; the next scan sees the
lyrics files and skips those songs. The webhook handler enqueues with higher
priority and deletes queued rows; the commands change any table at any time.
`keys` commands and a starting `serve` write the key table that each request
reads; every command loads the configuration that `config set` rewrites.

What makes it hard, with the source lines, is the `hazards` list of
`PROJECT.json`: two processes between two statements of a third; the list of
pending rows that is stale when it is used; a reservation whose restore can
fail too; a process dying with a claimed row; two delays from one formula that
meet in lockstep; two formats of one lyrics file replaced call by call; a
shutdown that does not wait for handlers; a revocation beside a restart; a file
that is truncated before it is written; a cache that outlives what it caches.

## 2. Modules

```
Tables ── ScanRepo ──┐
      └── WorkQueue ─┴─ Database ── Service ── MCService
                │          │ │        └ Service_proofs (extends Database_proofs)
                │          │ └ MCDatabase, Database_proofs
                │          └ Ledger (INSTANCE, refinement)
                └── WorkerLoop ──┐
                       Backoff ──┴─ MCTiming, Timing_proofs
LyricsWriter ── Attempt ── MCAttempt
            │        └ Attempt_proofs (extends LyricsWriter_proofs)
            └ LyricsWriter_proofs
Scanner, FetchApp ── FetchCommand ── MCFetchCommand, FetchCommand_proofs
ApiKeys ── Serve ── MCServe, Serve_proofs
ConfigFile ── MCConfigFile, ConfigFile_proofs
```

**Tables** declares the tables as functions from live ids to rows, so that
`DOMAIN` is the set of live ids and AUTOINCREMENT is a counter that never goes
back. Foreign keys with their cascades are in the actions (`Unlinked`).

**ScanRepo** and **WorkQueue** have one action per committed transaction, with
the conditions of its SQL: `Refreshed` is the `ON CONFLICT` clause of Upsert,
`Merged` that of Enqueue, `Before` the `ORDER BY` of Dequeue, `Retryable` and
`Settled` the status sets of the `WHERE` and `CASE` clauses. A transaction that
fails rolls back and is therefore not a step of these modules; what the caller
then does is in Service.

**Database** is the next-state relation of arbitrary clients: every transaction
with every argument, in any order. What holds here holds whatever the processes
do. **Ledger** is the abstract specification: per song one job that is queued,
claimed, finished, forgotten. `ImplementsLedger` is the refinement, with the
status of a song's row as the mapping.

**Service** is the running system over those tables: `scanner[p]` is the local
state of each scanning process (program counter, the current library, what the
walk found, the listed rows still to enqueue), `worker` that of the worker, plus
the cache and the written files. Every statement, transaction and file written
is one step. `Env` names what may happen around it: crashes, stops, refused
statements, unreadable directories, undecodable rows, rate limits, misses,
webhook events, and the commands. `Crash` takes the processes and keeps the
tables; `Stop` cancels the context, after which every call that takes it fails,
which is how `context.Canceled` moves through the code; `WriteLRC` takes no
context and goes on. Dequeue takes two steps: `Claim` is its statement,
`Answered` or `AnswerLost` its return. Alone of the calls that change the row of
an attempt, it runs under a context that can be canceled, and it decodes the row
after its statement took effect.

| Action of Service | Code |
|---|---|
| StartScan, ScanLibrary, UpsertResults, UpsertRefused, NextLibrary, ScanFails | `Scheduler.RunOnceFor`, `Scheduler.Run` |
| ListPending, Lookup, MarkHit, Reserve, Submit, SubmitFails, Restore | `Enqueuer.EnqueuePending` |
| Claim, Answered, AnswerLost, Resolve, Fetch, FetchLimited, AttemptFails, Store, Write, Finish, GiveUp, HandBack, SettleFails | `Worker.RunOnce`, `song`, `tripCircuitIfRateLimited`, `fail` |
| Webhook | `handleLidarr` and its track loop |
| Commands | `runScanClear`, `runQueueRetry`, `runQueueClear`, library commands |
| Stop, Restart, Crash, Kill | signals, `runServe` |

**WorkerLoop** is the worker again, this time with the clock: the sleep of `run`
after failures, the circuit window, the poll ticker, and `next_attempt_at`
counted in ticks of the base backoff. `waited` counts the ticks in which webhook
work was ready and none was claimed. It is apart from Service since the
questions about delays need neither scanners nor files.

**Backoff** is `Geometric` step by step over integers of a given width, with
Go's wrap-around multiplication.

**LyricsWriter** is `WriteLRC` system call by system call for the two paths of
one audio file, for any number of processes: create a temp file, fill it, remove
the old file, rename, remove the other format. Any call may fail (`disk`), any
process may die (`crash`).

**Attempt** is what Service leaves out of `RunOnce`: the content of the song. The
answer of the provider is a record of the fields that `FindLyrics` looks at, and
`FindLyrics` the decision over it; `Check`, `Sample`, `Sampled`, `Transcribe` and
`VerifyFails` are the verifier; `Decoded` is what the cache gives back of what
was stored; writing goes call by call through LyricsWriter. Around it scans and
webhooks enqueue the song again and again and the provider's catalogue grows.

**Scanner** is `scanDir` with its recursion as a stack, one directory entry per
step and each `os.Stat` a step of its own, while other processes change lyrics
files (`LyricsChange`); `seen` records what lay beside each file since the walk
began. **FetchApp** is `App.Run` and `handleFailed`, with the cancellation of its
context possible at any step. **FetchCommand** composes them: `ParseInput` in its
three modes, then `Run` over what was found.

**ApiKeys** is the key table with the statements of its commands: `keys revoke`
is two statements, `CreateIfNotExists` the one a starting `serve` runs per
configured key. **Serve** is `runServe` from `db.Open` to `os.Exit` over that
table: `main` is the position of the main goroutine, `goroutine` that of worker
and scheduler, `listener` and `db` the two handles that a shutdown closes,
`request` the handlers. A handler's statements fail once the database is closed;
a transaction that began before may commit.

**ConfigFile** is `config.Load` as an operator over the file and the environment
(`FromFile`, `Overlaid`, `Clamp`) and `config set` as the steps that touch the
file: load, truncate, encode, close. A setting is known by its kind, which is
what decides how it is checked.

## 3. Runs

| Run | Distinct states | Shows |
|---|---|---|
| `database` | 29,788 | two libraries, a file each, one song both collapse into: `DatabaseInv` (no dangling or duplicate row, no row without output), `ClaimProtected`, `DoneTogether`, `ScanClearExact`, `BackoffHonoured`, and `ImplementsLedger` |
| `service_faults` | 524,553 | `serve` and a `scan` command under every event of `Env` at once: `ServiceInv`, `ClaimIsCurrent`, `DoneWasWritten`, `OrphansOnlyByFaults` (nothing but a crash, a lost answer of Dequeue or a refused Fail or Release leaves a row in processing without a worker), and `UsesTransactions`, so that what holds of Database holds of Service |
| `service_live` | 27,353 | two files of two songs: `CalmInv`, `ReservedIsBacked`, `PeriodicScansKeepDone`, and `EveryFileSettles` under misses, rate limits and write errors that do not last for ever |
| `timing` | 73,566 | `Correct`, `LoopInv` of Geometric for bases and caps from -2 to 31 and up to eight attempts; then, with the delays it returns, the loop: `PromptWebhook` (while webhook work is ready, some is claimed within one worker sleep and one circuit window), `PaceInv`, from which that is proved, `RowsServed` when the provider has every song; no deadlock |
| `attempt` | 2,301 | one song, every answer, verification, failing statements and system calls, deaths: `DoubtIsVerified`, `SampleRemoved`, `DoneIsThere`, `RowSettles`, and of the writer `WriterInv`, `SavedIsThere`, `GivenUpForNew` |
| `fetch` | 765,560 | four directories, four files, every combination of options and lyrics files, one change during the walk, or up to four given songs: `WalkComplete`, `WalkOrdered`, `NothingLost`, `HonestEnd`, `RunReturns` |
| `serve` | 420,259 | one request of ten kinds with a configured, a created or a foreign key, a `keys revoke`, signals, crashes, restarts: `NoStatementAfterClose`, `AnswersAreTrue`, `RevokedIsRefused`, `KeysOnlyWeaken`, `ServeStops`; no deadlock |
| `config` | 838,715 | seven settings of five kinds, two commands: `LoadGuards`, `SetTakesEffect`, `SetKeepsOthers` |
| `service_agree`, `config_range`, `config_docker`, `attempt_upgrade` | | end with a counterexample, see section 5 |

`ServiceInv`, `CalmInv` and `PaceInv` are the inductive invariants of section 6;
so are `DatabaseInv`, `WriterInv` and `LoopInv`. Those of the other components
(`AttemptInv`, `CommandInv`, `ServeInv`, `ConfigInv`) are conjunctions of
invariants that the runs check one by one and of what their proofs add. They hold
in the same runs when they are named in the `.cfg`.

Every property of a passing run has a mutant in `PROJECT.json`: a changed
definition (a dropped status in a `WHERE` clause, a swapped order, a missing
link) under which TLC finds the property violated.

### Bounds and why they are enough

- `MaxScan`, `MaxWork`: rows ever inserted into a table. Two scan rows in two
  libraries are what the collapse of two files into one work row needs; three
  work rows give room for a song's row to be deleted and inserted anew, and for
  that to happen while another song's row is held. Ids are never reused, so a fresh row is another row.
  When the bound is used up an inserting process stays where it is, as if it had
  not been scheduled again; no safety property depends on that, and in
  `service_live` the bounds are not reached, since a library, once removed, does
  not come back, and a song whose work was cleared already has its lyrics.
- `Keys`, `Files`, `Libraries`: one or two each. `database`, `service_faults`
  and `service_agree` have one song, `service_live` and `timing` two. All
  statements treat songs independently, except the order of Dequeue, which those
  two show; in `service_faults` everything that may happen meets on one row. The
  theorems of section 6 hold for any number.
- `AttemptCap`: attempts saturate where the delay does. Two suffice to tell a
  kept backoff from a reset one; `timing` uses the real doubling in ticks.
- `Responses`: in `attempt` the provider first has only errors, then any answer of
  `MCGood` too, so that a row can have failed before it succeeds.
- `Writers`: `attempt` has one process, because `SavedIsThere` and
  `GivenUpForNew` are about a process that writes alone; `WriterInv` is proved
  for any number. `Responses` holds each way in which a response can be refused
  and every combination of what an accepted one may hold. `Transcripts` has
  silence, half right and all wrong, around a threshold of 35 percent.
- `MaxInt = 31` in `timing`: six-bit durations, in which doubling overflows
  after five steps while attempts go to eight. The theorem covers 64 bits. The
  loop goes on from one of the calls, the one that returns its longest delay;
  in the others nothing else happens once Geometric has returned.
- `MaxInputs = 4`: the order of the failed list needs a failed, a saved and two
  untried inputs.
- The tree of `fetch` has two levels below the root, two audio files sharing one
  stem and a directory without files; `MaxChanges = 1` is enough to fall between
  the two Stat calls of one entry, which is where the order of looking matters.
- `serve`: handlers share nothing but the tables, so one request per behaviour
  meets every event around it; two keys are a configured one that a restart
  stores again and one that only a command made.
- `config`: a file and an environment with one setting each at first, which is
  what each setting depends on; `config set` then makes full files. Values are
  blank, zero, negative, one below a limit, at it, above it, and NaN.

## 4. Fairness

`FairServiceSpec` assumes of the program: the worker's ticker and the
scheduler's ticker keep firing (`WF` of `Work` and `Scan("serve")`), the clock
moves, and the circuit closes after its window. Of the world it assumes that the
provider, asked for a song again and again, has it sometimes, and that a lyrics
file can sometimes be written (`SF` per song). Nothing is assumed of commands,
webhooks and crashes. `service_live` leaves out the events that
section 5 shows to strand a file.

`FairLoopSpec` assumes that the loop runs, that time passes (`SF`, since the
model polls in zero time and would otherwise be free to poll for ever between
two ticks) and, per song that the provider has, that an attempt succeeds
sometimes. `CommandSpec` assumes only that the command keeps running; `Cancel` is
not fair.

`ServeSpec` assumes that the main goroutine, the shutdown goroutine, the worker
and the scheduler run on when they can: the Go scheduler does that, and each of
their statements returns. Nothing makes a handler, a signal or a command come
about. `AttemptSpec` assumes that the worker runs on, scans are repeated and
finished rows cleared, that the provider is sometimes sure of lyrics it has, and
that a statement or system call tried again and again succeeds sometimes.

## 5. What the checks found in the code

Each of these is a run that ends with a counterexample to a statement of the
repository; `PROJECT.json` quotes that statement.

- `service_agree`: two files of one song. The second is reserved and enqueued
  when the song's row is already done; it is linked, and stays in processing,
  since only Complete writes back and that has happened.
- `config_range`: Load checks no count that a file sets, so
  `server.work_interval_seconds = -1` of a file is in force, although `config set`
  says that it must not be negative. NaN is the other case: no comparison turns it
  down, neither in Load nor in `config set`, whose message asks for a number
  between 0 and 1. `LoadGuards`, which holds, says that there is no third.
- `config_docker`: under `MXLRC_DOCKER` every command reads
  `/config/config.toml`, but `config set` without `--config` writes the file of
  the home directory (`defaultConfigPath`), so the value is never in force.
- `attempt_upgrade`: a scan with `--upgrade` finds the `.txt` and records the
  file, but the enqueuer takes the cache entry of the first answer for finished
  work; nothing expires the cache, so the lyrics are never promoted.

Observations made while modelling that have no run of their own. They follow
from the actions named, and the properties above are checked beside them:

- Crash with a claimed row: the row stays in processing; nothing repairs it at
  the next start, and Dequeue, Retry and duplicates pass over it. So does the row
  of a worker whose Fail or Release is refused (`worker/worker.go:304,312`).
- AnswerLost: Dequeue runs under the context of `serve`, and RunOnce settles
  nothing when it returns an error (`worker/worker.go:187`). A clean stop that
  falls between the effect of its UPDATE and its return, or a row whose columns
  cannot be decoded, leaves the row in processing like a crash.
- Failing rows: the delay of a failed row and the sleep of the worker grow by the
  same formula, so the oldest failing row is ready whenever the worker wakes and
  it comes first; with a song the provider never has, rows behind it can wait for
  ever. `RowsServed` is checked with a provider that has every song.
- Reserve after `queue retry`: a scan that listed a row as pending reserves it
  after the worker completed it, so done becomes processing
  (`scan/enqueuer.go:76`). `PeriodicScansKeepDone` is checked without retries.
- Store before WriteLRC: an answer with nothing to save is cached, and each later
  attempt hits the cache and fails (`Poisoned` in Attempt).
- Lookup: lyrics of doubtful match that a webhook put into the cache are written
  beside an audio file without verification. A cached song whose track has
  neither artist nor title is read back as plain text, its JSON being the lyrics
  (`worker/worker.go:336`).
- Encode: two overlapping `config set` commands lose one of the two settings, or
  leave the end of the longer text behind the shorter. `config set` also stores
  the variables of its environment in the file, secrets included.
- NaN is accepted for the ratios everywhere; as `min_similarity` it makes the
  verifier reject everything, as `min_confidence` doubt everything.
- Listing: `--bfs` puts the files of each directory before its subdirectories;
  two levels apart the walk is still depth-first.
- Close: a webhook of several tracks that meets a shutdown may have some of them
  committed and be answered 500 or not at all; `AnswersAreTrue` says what then
  holds.
- MarkHit: the second file of a cached song is marked done and gets no lyrics
  file, since the enqueuer takes a cache hit for finished work
  (`scan/enqueuer.go:66`). For the same reason `--update` of a cached song
  fetches and writes nothing.
- Ended: one unreadable directory ends the scheduler of `serve` until the next
  start, although `scan/scheduler.go:97` says it repeats until the context ends.
- Stop between Reserve and Submit: Enqueue fails with the canceled context, the
  restoring SetStatus fails with it too, and the row stays in processing.
- SidecarStays, or Crash before Sidecar: `.lrc` and `.txt` are both left,
  although `lyrics/writer.go:129` says that transitions never leave both.
- Two processes writing different formats for one audio file can remove each
  other's new file, so that none is left.

## 6. Proofs

Checked by `tlapm` for every value of the constants that the named assumptions
allow: any number of files, songs, processes, requests, settings, any tree, any
bound. Each theorem below states a property of section 3 or the invariant it
follows from. An invariant is proved in three steps: the initial states satisfy
it, every step keeps it (one case per action, lemmas where several actions do the
same), and it implies the property.

Where data is recursive (`PathTo` over the tree, `Power` over the attempts) the
proofs use that a set of natural numbers has a least element (`LeastNat`), which
follows from the library's `WFMin` and `NatLessThanWellFounded`; with it they show
first that the recursive definition has a solution, so that its equation holds
(`PathUnfolds`, `PowerUnfolds`), and then what it computes.

### The database and the processes on it

`DatabaseInvariant` (`Database_proofs`): `DatabaseInv` is inductive as it stands
because its parts carry each other. A new row has a fresh id only because
`TypeOK` keeps ids below the counters; links name live rows only because a
cascade deletes exactly the pairs of the rows that go; a row keeps an output after
`ScanClear` because a row whose outputs are all filtered away is in `Canceled`.
There is one lemma per group of transactions (`LibraryOps`, `UpsertOp`,
`EnqueueOp`, `StatusOps`, `DeleteOps`, `ScanClearOp`), each proving the whole
invariant for the next state.

From it, transaction by transaction: `ClaimsProtected` (nobody touches a claimed
row), `FinishedTogether` (a row and its scan rows are done in one step),
`ClearsExactly` (clearing a library leaves a queued row just the outputs that the
scan rows still linked to it vouch for, so the path a webhook merged into it goes
too), `BackoffKept` (only time, Retry, or a webhook for the song in that very step
shortens a backoff; a scan does not, whatever priority the row has), and
`QueueImplementsLedger`: the tables implement the abstract life cycle of Ledger. For the refinement the
job of a song is the status of its row, which is a function only because
`KeysUnique` holds; `RowsMove` says how a transaction may move a row,
`LedgerStep` that this is a step of Ledger or none.

`ServiceUsesTransactions` (`Service_proofs`): every step of every process of
Service is one transaction of Database or none. So the theorems above hold of the
running system; `ServiceImplementsLedger` is that conclusion for the ledger.

`ServiceInvariant`: `ServiceInv` adds to `DatabaseInv` what the processes hold.
`ClaimIsCurrent`, that the worker's copy of its row is still true, is inductive
only because no transaction of another process touches a claimed row (the lemma
behind `ClaimsProtected`, used again). `DoneWasWritten` needs `WrittenSoFar`:
the outputs the worker has ticked off are written, and at Complete none is left.
`ClaimStaysCurrent` and `DoneMeansWritten` are the two conclusions,
`OnlyFaultsOrphan` the action property from the same invariant: it names a death,
a lost answer of Dequeue and a refused Fail or Release, and no fourth way.

`CalmInvariant`, `ReservationsBacked` and `DoneStaysDone` are about EnqueuePending,
which works from a list that may be stale. They have the hypothesis `Calm`: one
scheduler, no forced scans, no stops, crashes, refused statements, webhooks,
deletions, `scan clear` or `queue retry`, and no two files of one song.
Without it the properties are false: section 5 lists how each of these events
strands or reopens a row. What is left (the worker, rate limits, misses, write
errors, unreadable directories, `queue clear --done`, libraries that come and go)
interleaves freely, for any number of files and libraries. The strengthening is
`ListingIsCurrent`, that a listed row is still pending and its song not yet queued
until its turn comes, and `RowsMatch`, from which follows that nobody else queues
it meanwhile. The instance of `service_live` satisfies `Calm`.

### Delays

`BackoffInRange` (`Timing_proofs`): for any odd `MaxInt`, attempts, base and cap
the delay lies between the base and the cap and the doubling never wraps. In the
loop the delay is the base or at most the cap, so `delay <= max \div 2` before
each doubling (`NoWrap`). `GeometricIsTheFormula`: the result is the formula of the
doc comment, computed without overflow. The invariant says that in round `i` the
delay is `base * Power[i - 1]`; returning `max` early is right because powers of
two grow (`Powers`), so that one more doubling would already reach the cap.
`LaterWaitsLonger`: the formula grows with the attempts, which is what
`WorkerLoopAssumption` takes for granted of `Delay`.

`PaceInvariant` and `WebhooksArePrompt`: `PromptWebhook` bounds a history, so the
invariant bounds the history plus what may still come. `StillToWait` is the most
ticks the worker can still sit out from where it is: a sleep that ends before the
circuit closes may be followed by another one, so while the circuit is open it
counts a whole sleep on top. Each tick moves one from `StillToWait` to `waited`;
every other step leaves the sum or resets `waited`, the latter at a claim, since
Dequeue takes webhook work first (`ClaimEndsWait`). Any number of webhook songs.

### Lyrics files and one attempt

`LyricsNeverPartial` (`LyricsWriter_proofs`): for any number of processes, songs,
failures and deaths no lyrics file is half written. `NeverPartial` alone is not
inductive, a rename could bring in an unfinished temp file; `CompleteFirst` says
that a process past `Fill` holds a whole one.

`AttemptInvariant` (`Attempt_proofs`) uses that proof for the writer inside the
worker. `DoneHasLyrics` needs `AttemptHolds` (the attempt is about the claimed
row, and what it is about to complete is on disk) and, for the time after the
rename, `RenamedIsThere`; `SavedHasLyrics` the latter. `NoUnverifiedDoubt` needs
`DoubtIsKnown`: a doubtful song in the cache was verified or came from a webhook.
`NoSampleLeft` is inductive as it is; `OldForNew` is the action property.

### The fetch command

`CommandInvariant`, `NoInputLost`, `EndsHonestly` (`FetchCommand_proofs`), for any
tree and any number of inputs. `NothingLost` says that four queues together hold
each input once, which no step preserves by itself: what makes it inductive is
`TriedInOrder`. The inputs before some position have been tried and are disjointly
saved, listed or failed, the others wait in their order, and each list ascends.
`Phases` says what each part of `Run` leaves to the next. `Pushed`, `Popped` and
`Drained` are the three queue operations on ascending lists. `RunIsFinite` is the
part of `RunReturns` that is no liveness: `Work` is a natural number which every step
of `Run` makes smaller, `Cancel` leaving it as it is, so that no order of failures
and no moment of Ctrl+C keeps `Run` going.

`WalkFindsAll` and `WalkInOrder` (same module), for any finite tree, any options
and any changes of lyrics files. Both speak of the end, or of files already found;
the invariant `WalkInv` says how the stack leads there:

- `StackIsPath`: the directories on the stack are the path from the root to the
  innermost one, each call has taken a beginning of its listing, and the last entry
  it took is the directory of the next call;
- `NoneMissed`: a file in reach is `Waiting` (it, or a directory it lies in, is
  among the entries to come of some call), found, or was unwanted at some moment;
- `FoundOnce`: a file found is in reach, looked wanted, and is not `Waiting`, so it
  cannot be found again;
- `StatWasTrue`: what the first Stat said held at some moment of the walk;
- `WalkOrdered` itself.

The heart is how `Waiting` changes: taking an entry takes away exactly the files at
or below it (`TurnTaken`), a call that begins brings those below a directory back
(`TurnDescends`, with `Covers`: a listing leads to exactly the files below its
directory), a call that ends had none left (`TurnReturns`). That they are not met
again is `NotAgain`, that directories skipped at `--depth` hold nothing in reach
`OutOfReach`. `FoundInOrder` comes from the sort: when a file has its turn, with
`--bfs` the directories beside it are all still to come; without, the calls further
up are each at a directory, so their files are. These rest on facts about `PathTo`
(`PathFacts`, `Below`), proved by induction over the tree.

### serve, keys and configuration

`ServeInvariant` (`Serve_proofs`), with `CloseComesLast`, `CodesTellTheTruth`,
`RevocationHolds` and the action property `KeysWeaken`. `AnswersAreTrue` is about
the answer; on the way `HandlerOK` says that what a handler has committed and what
it has still to do are together what was asked for. `RevokedIsRefused` needs
`KeysOK`: a key whose revocation was reported is stored and revoked, which a
restart that stores its configured keys again cannot undo.

`ConfigInvariant` (`ConfigFile_proofs`), with `LoadAlwaysGuards`, `SetIsInForce` and
`SetLeavesOthers`. The key lemma is `LoadStable`: loading what was loaded changes
nothing, so writing defaults, clamped and overlaid values back is harmless. The
invariant says that a command has changed one setting of such a configuration,
and that while a command is alone the file holds what it put there. The last two
theorems have the hypothesis `~DockerMode`: in Docker mode they are false, which is
what `config_docker` shows.

### Assumptions

They are in the modules that declare the constants, and TLC evaluates them in the
runs. Most only give types. Those that say more, and why the code justifies them:

- `TablesAssumption`: finitely many files; a file lies in one library.
- `ServiceAssumption`: a file has one song, as its tags are not edited.
- `WorkerLoopAssumption`: delays grow up to the last one (`Geometric` doubles up to
  its cap), and the circuit window is at least one tick. `clampCircuitOpenDuration`
  makes it five minutes at least, and a tick is `backoff.DefaultBase`, a minute.
- `BackoffAssumption`: the largest integer is odd, as 2^63 - 1 is.
- `LyricsWriterAssumption`: the names of processes are none of the marks for
  absent, old and partial content.
- `AttemptAssumption`: the only writer beside this audio file is the worker, which
  may be given every kind of song. With two writers `SavedIsThere` is false
  (section 5).
- `ScannerAssumption`: the directories are a finite tree. Listings name entries
  once; every directory but the root lies in exactly one directory, every file too;
  and levels grow on the way down. File systems have no hard links to directories,
  and `scanDir` does not follow symbolic ones: `IsDir` of their entries is false.
- `ApiKeysAssumption`: keys of clients that no command made are in no row.
- `ServeAssumption`: routes and tracks of the messages are those the handler can
  tell apart.
- `ConfigAssumption`: defaults are values that `config set` accepts, read off
  `defaults`;
  texts are not negative, which only says how texts are coded as numbers.

### Only model-checked

- Liveness: `EveryFileSettles`, `RowsServed`, `RowSettles`, `RunReturns`,
  `ServeStops`. The prover has no rules for fairness and ENABLED. Of `RunReturns` the
  finiteness is proved (`RunIsFinite`); that a step is possible until `Run` is over
  is not.
- The four runs that end with a counterexample.

## 7. Abstractions

- A song is the normalised artist and title, `Keys`; its cache entry is one
  entry, although the code keeps one per album and duration. An entry is never
  deleted by the code, so the step from exact to fallback look-up hits or misses
  as a whole.
- An output path is a member of `Paths`; a row enqueued by a scan has the path of
  its file, one enqueued by the webhook has `HookPath`. Each Enqueue passes one
  path, as in the code, so lists of outputs do not grow.
- `work_queue.scan_result_id` is written and read by no decision; the junction
  does its work and the column is left out.
- `next_attempt_at` is kept as the ticks that remain (`wait`). In Service the
  worker's own sleep is left out: each of its steps may be as late as it likes.
- WriteLRC is one step in Service and one step per system call in LyricsWriter
  and Attempt. In Service verification only decides between the outcomes of
  `Fetch` and `AttemptFails`; Attempt has its steps.
- In Attempt a song is its kind (what WriteLRC will find), whether its track is
  named, whether the match is doubtful, and its words. The lyrics of a webhook
  are written elsewhere, so of that only the outcome counts. A row is one of
  none, queued, claimed and done: delays are left to WorkerLoop. Neither module
  has stops, so a claim and its delivery are one step there.
- In Scanner an entry that cannot be opened or has no tags is never found.
- In Serve worker and scheduler are between statements, in one, or in an attempt;
  what they do is in Service. A key is its own hash.
- In ConfigFile a value is an integer: blank, empty and false are 0, a ratio is
  in percent. Encoding and decoding keep a value, NaN included.
- `Stop` sends the scanner of `serve` to idle at once: what it would still do with
  a canceled context is to fail, which changes no table.

## 8. Not modelled

- `library.Update` and the name look-ups of the library commands: name and root
  of a library are data here.
- The choice of a provider (there is one), the HTTP exchanges of the provider
  client and the verifier below the fields they read, ffmpeg itself.
- The in-memory key store, which only tests use.
- Pure string functions (normalisation, slugs), tag reading, argument parsing,
  listings, migrations, logging: data or I/O without control that a
  property here would tell apart.
- The Go memory model: the goroutines of `serve` share no variables besides the
  database handle and contexts.

## 9. Plan

Proofs: every safety property of the passing runs is a theorem. Left are measures
like `Work` for the walk and for one attempt of the worker, and `ReservedIsBacked`
under fewer exclusions than `Calm` makes, to say of each event which part of it is
lost.

Modelling: `library.Update` as one more transaction of ScanRepo, with what it
does to paths already in the queue; a property for two writers of different
formats, where each may remove what the other just wrote; the output path that a
second file of one song overwrites in a queued row.
