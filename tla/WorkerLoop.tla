----------------------------- MODULE WorkerLoop -----------------------------
(***************************************************************************)
(* The worker's loop in time: worker.Worker.run inside                     *)
(* commands.runWorkerLoop, over the queue of module WorkQueue.  The clock  *)
(* ticks once per base backoff (a minute).  It decides between two delays  *)
(* that use the same formula: next_attempt_at of a failed row, and the     *)
(* worker's own sleep after consecutive failures.  An attempt, the pause   *)
(* after it and the poll interval are shorter than a tick.                 *)
(***************************************************************************)
EXTENDS WorkQueue

CONSTANTS
  Bad,            \* songs the provider never has lyrics for
  HookKeys,       \* songs that arrive by webhook; the others by scan
  HookPath,       \* the (outdir, "") path of webhook work
  RateLimits,     \* whether the provider ever answers 429 or 401
  CircuitTicks    \* ticks the circuit stays open

ASSUME WorkerLoopAssumption ==
  /\ Bad \subseteq Keys /\ HookKeys \subseteq Keys
  /\ HookPath \in Paths
  /\ RateLimits \in BOOLEAN
  /\ CircuitTicks \in Nat \ {0}
  /\ \A n \in 1..AttemptCap : Delay[n] <= Delay[AttemptCap]

VARIABLES
  pc,         \* where the loop is
  item,       \* the claimed row, while busy
  failures,   \* consecutiveFailures, saturating at AttemptCap like attempts
  sleep,      \* ticks left of the worker's own backoff
  circuit,    \* ticks until circuitOpenUntil
  waited      \* history: ticks for which webhook work has been ready, and none claimed

loop == <<pc, item, failures, sleep, circuit>>
loopVars == <<tables, loop, waited>>

LoopInit ==
  /\ TablesInit
  /\ pc = "top" /\ item = 0 /\ failures = 0 /\ sleep = 0 /\ circuit = 0
  /\ waited = 0

\* Webhook work that Dequeue could hand out.
HookReady == \E w \in WorkIds : Ready(w) /\ workQueue[w].prio = PriorityWebhook

KeepWaited == waited' = IF HookReady' THEN waited ELSE 0

-----------------------------------------------------------------------------
(* run: back off after failures, then RunOnce.                             *)

LoopTop ==
  /\ pc = "top"
  /\ IF failures > 0
     THEN pc' = "asleep" /\ sleep' = Delay[failures]
     ELSE pc' = "once" /\ sleep' = 0
  /\ UNCHANGED <<tables, item, failures, circuit>> /\ KeepWaited

Wake ==
  /\ pc = "asleep" /\ sleep = 0
  /\ pc' = "once"
  /\ UNCHANGED <<tables, item, failures, sleep, circuit>> /\ KeepWaited

\* The circuit gate or an empty queue ends the run: errQueueEmpty.
NothingToDo ==
  /\ pc = "once"
  /\ circuit > 0 \/ NothingReady
  /\ pc' = "idle"
  /\ UNCHANGED <<tables, item, failures, sleep, circuit>> /\ KeepWaited

ClaimNext ==
  /\ pc = "once" /\ circuit = 0
  /\ \E w \in WorkIds :
       /\ Dequeue(w) /\ item' = w
       /\ IF workQueue[w].prio = PriorityWebhook THEN waited' = 0 ELSE KeepWaited
  /\ pc' = "busy"
  /\ UNCHANGED <<failures, sleep, circuit>>

Succeed ==
  /\ pc = "busy" /\ workQueue[item].key \notin Bad
  /\ Complete(item)
  /\ pc' = "top" /\ item' = 0 /\ failures' = 0
  /\ UNCHANGED <<sleep, circuit>> /\ KeepWaited

FailAttempt ==
  /\ pc = "busy"
  /\ Fail(item)
  /\ failures' = IF failures < AttemptCap THEN failures + 1 ELSE AttemptCap
  /\ pc' = "top" /\ item' = 0
  /\ UNCHANGED <<sleep, circuit>> /\ KeepWaited

\* Mutant of TripCircuit: the claimed row is not released.
TripCircuitOnly ==
  /\ pc = "busy" /\ RateLimits
  /\ circuit' = CircuitTicks
  /\ pc' = "idle" /\ item' = 0
  /\ UNCHANGED <<tables, failures, sleep>> /\ KeepWaited

\* tripCircuitIfRateLimited; the failure count is left alone.
TripCircuit ==
  /\ pc = "busy" /\ RateLimits
  /\ Release(item)
  /\ circuit' = CircuitTicks
  /\ pc' = "idle" /\ item' = 0
  /\ UNCHANGED <<failures, sleep>> /\ KeepWaited

\* The ticker of runWorkerLoop.
Poll ==
  /\ pc = "idle"
  /\ pc' = "top"
  /\ UNCHANGED <<tables, item, failures, sleep, circuit>> /\ KeepWaited

Loop == LoopTop \/ Wake \/ NothingToDo \/ ClaimNext \/ Succeed \/ FailAttempt
          \/ TripCircuit \/ Poll

-----------------------------------------------------------------------------
\* Time passes while the worker sleeps or polls, and polls at least once.
LessOne(n) == IF n > 0 THEN n - 1 ELSE 0

TimePasses ==
  /\ pc = "idle" \/ (pc = "asleep" /\ sleep > 0)
  /\ IF Waiting = {} THEN UNCHANGED tables ELSE Tick
  /\ sleep' = LessOne(sleep) /\ circuit' = LessOne(circuit)
  /\ pc' = IF pc = "idle" THEN "top" ELSE pc
  /\ waited' = IF HookReady THEN waited + 1 ELSE 0
  /\ UNCHANGED <<item, failures>>

\* New work; which scan row it is linked to makes no difference here.
Arrive(key) ==
  /\ IF key \in HookKeys
     THEN Enqueue(key, {HookPath}, PriorityWebhook, {})
     ELSE \E f \in Files : Enqueue(key, {PathOf[f]}, PriorityScan, {})
  /\ UNCHANGED loop /\ KeepWaited

LoopNext == Loop \/ TimePasses \/ \E key \in Keys : Arrive(key)

LoopSpec == LoopInit /\ [][LoopNext]_loopVars

\* The loop goes on and the clock does not stop, however often the worker
\* polls; a song the provider has is found sometimes.
FairLoopSpec ==
  /\ LoopSpec
  /\ WF_loopVars(Loop) /\ SF_loopVars(TimePasses)
  /\ \A k \in Keys : SF_loopVars(Succeed /\ workQueue[item].key = k)

-----------------------------------------------------------------------------
MaxDelay == Delay[AttemptCap]

\* While webhook work is ready, some is claimed within one worker sleep and one
\* window of the circuit, however many rows keep failing: it jumps the queue
\* but it does not wake the worker.
PromptWebhook == waited <= CircuitTicks + MaxDelay

\* Work for a song that the provider has is done in the end ("Run processes
\* ready work items until the queue is empty").
RowsServed ==
  \A k \in Keys \ Bad :
    RowsOf(k) # {} ~> \E w \in RowsOf(k) : workQueue[w].status = "done"

-----------------------------------------------------------------------------
(* What makes PromptWebhook inductive.                                     *)

LoopTypeOK ==
  /\ workQueue \in [WorkIds -> WorkRow]
  /\ pc \in {"top", "asleep", "once", "busy", "idle"}
  /\ failures \in 0..AttemptCap
  /\ sleep \in 0..MaxDelay /\ circuit \in 0..CircuitTicks /\ waited \in Nat

\* The ticks that may still pass before the worker claims what is ready.  A
\* sleep that ends before the circuit closes may be followed by another.
StillToWait ==
  CASE pc = "idle" -> (IF circuit = 0 THEN 1 ELSE circuit) + MaxDelay
    [] pc = "top" -> circuit + MaxDelay
    [] pc = "asleep" -> IF circuit > sleep THEN circuit + MaxDelay ELSE sleep
    [] pc = "once" -> IF circuit > 0 THEN circuit + MaxDelay ELSE 0
    [] pc = "busy" -> 0

\* Time spent waiting was time in which webhook work was ready, and is paid off
\* by what the worker has still to sit out.
PaceInv ==
  /\ LoopTypeOK
  /\ waited > 0 => HookReady /\ pc # "busy"
  /\ waited + StillToWait <= CircuitTicks + MaxDelay

=============================================================================
