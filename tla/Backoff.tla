------------------------------ MODULE Backoff ------------------------------
(***************************************************************************)
(* backoff.Geometric step by step: the delay that the worker, the queue    *)
(* and the legacy fetch loop wait after the nth failure.  A time.Duration  *)
(* is a signed integer whose largest value is MaxInt; a product beyond it  *)
(* wraps around.                                                           *)
(***************************************************************************)
EXTENDS Integers

CONSTANTS
  MaxInt,      \* the largest Duration, 2^63 - 1 in the code
  Attempts,    \* failure counts the loop is run on
  Durations    \* values of base and max it is run on

Duration == (-MaxInt - 1)..MaxInt

ASSUME BackoffAssumption ==
  /\ MaxInt \in Nat /\ MaxInt % 2 = 1
  /\ Attempts \subseteq Int
  /\ Durations \subseteq Duration

VARIABLES stage, attempts, base, max, i, delay, result

vars == <<stage, attempts, base, max, i, delay, result>>

BackoffTypeOK ==
  /\ stage \in {"start", "loop", "done"}
  /\ attempts \in Int /\ i \in Int
  /\ base \in Duration /\ max \in Duration
  /\ delay \in Duration /\ result \in Duration

Init ==
  /\ stage = "start"
  /\ attempts \in Attempts /\ base \in Durations /\ max \in Durations
  /\ i = 0 /\ delay = 0 /\ result = 0

\* x for a Duration, and what twice a Duration wraps to.
Wrapped(x) == IF x > MaxInt THEN x - 2 * (MaxInt + 1) ELSE x

Return(r) ==
  /\ stage' = "done" /\ result' = r
  /\ UNCHANGED <<attempts, base, max, i, delay>>

Disabled ==
  /\ stage = "start"
  /\ base <= 0 \/ max <= 0
  /\ Return(0)

Start ==
  /\ stage = "start"
  /\ base > 0 /\ max > 0
  /\ attempts' = IF attempts < 1 THEN 1 ELSE attempts
  /\ delay' = base /\ i' = 1 /\ stage' = "loop"
  /\ UNCHANGED <<base, max, result>>

\* Mutant of AtCap: the delay is doubled up to the cap itself.
AtCapItself == delay >= max

AtCap == delay >= max \/ delay > max \div 2

Cap ==
  /\ stage = "loop" /\ i < attempts
  /\ AtCap
  /\ Return(max)

Double ==
  /\ stage = "loop" /\ i < attempts
  /\ ~AtCap
  /\ delay' = Wrapped(delay * 2) /\ i' = i + 1
  /\ UNCHANGED <<stage, attempts, base, max, result>>

\* Mutant of Exit: the base itself is not capped.
ExitUncapped ==
  /\ stage = "loop" /\ i >= attempts
  /\ Return(delay)

Exit ==
  /\ stage = "loop" /\ i >= attempts
  /\ Return(IF delay > max THEN max ELSE delay)

Next == Disabled \/ Start \/ Cap \/ Double \/ Exit

BackoffSpec == Init /\ [][Next]_vars

-----------------------------------------------------------------------------
\* The delay the callers get lies between one base and the cap, so that it
\* neither turns negative, which would retry at once, nor exceeds an hour.
InRange ==
  stage = "done" => IF base > 0 /\ max > 0
                    THEN result \in 1..max /\ (base <= max => base <= result)
                    ELSE result = 0

\* 2^n.
Power[n \in Nat] == IF n = 0 THEN 1 ELSE 2 * Power[n - 1]

\* The doc comment's formula: b doubled n - 1 times, capped at m.
Formula(n, b, m) ==
  LET exact == b * Power[(IF n < 1 THEN 1 ELSE n) - 1]
  IN  IF b <= 0 \/ m <= 0 THEN 0 ELSE IF exact < m THEN exact ELSE m

\* The loop computes the formula although the formula itself would overflow.
Correct == stage = "done" => result = Formula(attempts, base, max)

\* What holds in the loop: base was doubled i - 1 times, and doubling never
\* wraps.
LoopInv ==
  /\ BackoffTypeOK
  /\ stage = "loop" => /\ base > 0 /\ max > 0 /\ delay >= base
                       /\ delay = base \/ delay <= max
                       /\ i \in 1..attempts /\ delay = base * Power[i - 1]
  /\ InRange

=============================================================================
