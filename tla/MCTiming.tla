------------------------------ MODULE MCTiming ------------------------------
(***************************************************************************)
(* Backoff and WorkerLoop for TLC: Geometric is run on every attempt       *)
(* count, base and cap in six bits, and with the base and cap of the loop, *)
(* in ticks, the loop goes on from there.                                  *)
(***************************************************************************)
EXTENDS WorkerLoop, Backoff

OneFile == {"f1"}
OneLibOf == [f1 |-> "l1"]
OnePathOf == [f1 |-> "p1"]
OnePaths == {"p1", "hook"}

MCAttempts == -1..8
MCDurations == -2..31

\* A tick, which is backoff.DefaultBase, and the cap of the loop's delays.
LoopBase == 1
LoopMax == 4

MCDelay == [n \in 1..AttemptCap |-> Formula(n, LoopBase, LoopMax)]

\* Geometric has returned the longest delay of the loop.
LoopDelay ==
  /\ stage = "done" /\ result = MaxDelay
  /\ attempts = AttemptCap /\ base = LoopBase /\ max = LoopMax

Looping(A) == LoopDelay /\ A /\ UNCHANGED vars

TimingInit == Init /\ LoopInit

allVars == <<vars, loopVars>>

\* Where Geometric returns anything else, nothing is left to do.
Returned == stage = "done" /\ ~LoopDelay /\ UNCHANGED allVars

TimingNext ==
  \/ Next /\ UNCHANGED loopVars
  \/ Looping(LoopNext)
  \/ Returned

\* FairLoopSpec, of the loop that goes on from there.
TimingSpec ==
  /\ TimingInit /\ [][TimingNext]_allVars
  /\ WF_allVars(Looping(Loop)) /\ SF_allVars(Looping(TimePasses))
  /\ \A k \in Keys : SF_allVars(Looping(Succeed /\ workQueue[item].key = k))

=============================================================================
