------------------------------- MODULE Ledger -------------------------------
(***************************************************************************)
(* What the durable queue promises, per song: at most one job, which is    *)
(* queued, then claimed by a worker, then finished.  A claim ends only in  *)
(* Finish or GiveBack; queued jobs may be withdrawn and finished ones      *)
(* forgotten, claimed ones neither; a finished job is not queued again     *)
(* before it was forgotten.                                                *)
(***************************************************************************)
CONSTANT Keys
VARIABLE job

JobState == {"none", "queued", "claimed", "finished"}

LedgerInit == job = [k \in Keys |-> "none"]

Move(K, from, to) ==
  /\ \A k \in K : job[k] = from
  /\ job' = [k \in Keys |-> IF k \in K THEN to ELSE job[k]]

Submit(k)   == Move({k}, "none", "queued")
Claim(k)    == Move({k}, "queued", "claimed")
Finish(k)   == Move({k}, "claimed", "finished")
GiveBack(k) == Move({k}, "claimed", "queued")
Withdraw(K) == Move(K, "queued", "none")
Forget(K)   == Move(K, "finished", "none")

LedgerNext ==
  \/ \E k \in Keys : Submit(k) \/ Claim(k) \/ Finish(k) \/ GiveBack(k)
  \/ \E K \in SUBSET Keys : Withdraw(K) \/ Forget(K)

LedgerSpec == LedgerInit /\ [][LedgerNext]_job

=============================================================================
