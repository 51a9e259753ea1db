--------------------------- MODULE Timing_proofs ---------------------------
(***************************************************************************)
(* Theorems about delays: what backoff.Geometric returns, for every width  *)
(* of the integers, and how long webhook work waits for a worker that      *)
(* sleeps by it, for any queue and any circuit window.                     *)
(***************************************************************************)
EXTENDS WorkerLoop, Backoff, WellFoundedInduction, TLAPS

-----------------------------------------------------------------------------
(* Induction on the natural numbers.                                       *)

\* Less than on the naturals, as a relation for WFMin.
LEMMA LessIsWellFounded ==
  \E R : IsWellFoundedOn(R, Nat) /\ \A x, y \in Nat : y < x => <<y, x>> \in R
<1> DEFINE R == OpToRel(<, Nat)
<1>1. \A x, y \in Nat : y < x => <<y, x>> \in R
  BY Zenon DEF OpToRel
<1>2. IsWellFoundedOn(R, Nat)
  BY NatLessThanWellFounded, Zenon
<1> HIDE DEF R
<1> QED
  BY <1>1, <1>2

\* Induction as it is used below: a set of numbers has a least one.
LEMMA LeastNat ==
  ASSUME NEW T, T \subseteq Nat, T # {}
  PROVE  \E x \in T : \A y \in T : x <= y
<1>1. PICK R : IsWellFoundedOn(R, Nat) /\ \A x, y \in Nat : y < x => <<y, x>> \in R
  BY LessIsWellFounded
<1>2. \E x \in T : \A y \in T : ~(<<y, x>> \in R)
  BY <1>1, WFMin
<1>3. \A x, y \in T : ~(y < x) => x <= y
  OBVIOUS
<1> QED
  BY <1>1, <1>2, <1>3

\* Induction on a set of numbers: it holds all of them if it holds 0 and, with
\* each, the next.
LEMMA AllNat ==
  ASSUME NEW S, 0 \in S, \A k \in Nat : k \in S => k + 1 \in S
  PROVE  Nat \subseteq S
<1> DEFINE T == {k \in Nat : k \notin S}
<1> SUFFICES ASSUME T # {} PROVE FALSE
  OBVIOUS
<1>1. T \subseteq Nat
  OBVIOUS
<1>2. PICK x \in T : \A y \in T : x <= y
  <2> HIDE DEF T
  <2> QED
    BY <1>1, LeastNat
<1>3. x \in Nat /\ x - 1 \in Nat /\ (x - 1) + 1 = x /\ ~(x <= x - 1)
  BY <1>2
<1>4. x - 1 \in S
  BY <1>2, <1>3
<1> QED
  BY <1>3, <1>4

-----------------------------------------------------------------------------
(* Geometric.                                                              *)

\* The recursion of Power is well founded, so that its equation holds.
LEMMA PowerUnfolds ==
  \A n \in Nat : Power[n] = IF n = 0 THEN 1 ELSE 2 * Power[n - 1]
<1> DEFINE Up(g, n) == /\ DOMAIN g = Nat /\ g[0] = 1
                       /\ \A k \in Nat : k < n => g[k + 1] = 2 * g[k]
           S == {n \in Nat : \E g : Up(g, n)}
           G == [n \in Nat |-> CHOOSE g : Up(g, n)]
           h == [n \in Nat |-> G[n][n]]
<1>1. Nat \subseteq S
  <2>1. 0 \in S
    <3>1. Up([k \in Nat |-> 1], 0)
      OBVIOUS
    <3> QED
      BY <3>1
  <2>2. ASSUME NEW n \in Nat, n \in S PROVE n + 1 \in S
    <3>1. PICK g : Up(g, n)
      BY <2>2
    <3> DEFINE f == [k \in Nat |-> IF k = n + 1 THEN 2 * g[n] ELSE g[k]]
    <3>2. DOMAIN f = Nat /\ f[0] = 1
      BY <3>1
    <3>3. \A k \in Nat : k < n + 1 => f[k + 1] = 2 * f[k]
      <4>1. \A k \in Nat : k < n => f[k + 1] = g[k + 1] /\ f[k] = g[k]
        OBVIOUS
      <4>2. f[n + 1] = 2 * g[n] /\ f[n] = g[n]
        OBVIOUS
      <4> HIDE DEF f
      <4>3. \A k \in Nat : k < n + 1 => k < n \/ k = n
        OBVIOUS
      <4> QED
        BY <3>1, <4>1, <4>2, <4>3
    <3> HIDE DEF f
    <3>4. Up(f, n + 1)
      BY <3>2, <3>3
    <3> HIDE DEF Up
    <3> QED
      BY <3>4
  <2> HIDE DEF S
  <2> QED
    BY <2>1, <2>2, AllNat
<1>2. \A n \in Nat : Up(G[n], n)
  <2> HIDE DEF Up
  <2>1. \A n \in Nat : \E g : Up(g, n)
    BY <1>1
  <2> QED
    BY <2>1
<1> HIDE DEF G
<1>3. ASSUME NEW n \in Nat PROVE \A k \in Nat : k <= n => G[n + 1][k] = G[n][k]
  <2> DEFINE A == {k \in Nat : k <= n => G[n + 1][k] = G[n][k]}
  <2>1. 0 \in A
    BY <1>2
  <2>2. ASSUME NEW k \in Nat, k \in A, k + 1 <= n PROVE G[n + 1][k + 1] = G[n][k + 1]
    <3>1. G[n + 1][k] = G[n][k] /\ k < n /\ k < n + 1 /\ n + 1 \in Nat
      BY <2>2
    <3> QED
      BY <1>2, <3>1
  <2>3. Nat \subseteq A
    <3>1. \A k \in Nat : k \in A => k + 1 \in A
      BY <2>2
    <3> HIDE DEF A
    <3> QED
      BY <2>1, <3>1, AllNat
  <2> QED
    BY <2>3
<1>4. \A n \in Nat : h[n] = IF n = 0 THEN 1 ELSE 2 * h[n - 1]
  <2> SUFFICES ASSUME NEW n \in Nat PROVE h[n] = IF n = 0 THEN 1 ELSE 2 * h[n - 1]
    OBVIOUS
  <2>1. CASE n = 0
    BY <1>2, <2>1
  <2>2. CASE n # 0
    <3>1. PICK m : m = n - 1
      OBVIOUS
    <3>2. m \in Nat /\ n = m + 1 /\ m < n
      BY <2>2, <3>1
    <3>3. G[n][n] = 2 * G[n][m]
      BY <1>2, <3>2
    <3>4. G[n][m] = G[m][m]
      BY <1>3, <3>2
    <3> QED
      BY <2>2, <3>1, <3>2, <3>3, <3>4
  <2> QED
    BY <2>1, <2>2
<1>5. h = [n \in Nat |-> IF n = 0 THEN 1 ELSE 2 * h[n - 1]]
  <2>1. h = [n \in Nat |-> h[n]]
    OBVIOUS
  <2> HIDE DEF h
  <2> QED
    BY <1>4, <2>1
<1> HIDE DEF h
<1>6. Power = [n \in Nat |-> IF n = 0 THEN 1 ELSE 2 * Power[n - 1]]
  BY <1>5 DEF Power
<1> QED
  BY <1>6

\* Powers are positive and grow.
LEMMA Powers ==
  /\ Power[0] = 1
  /\ \A n \in Nat : Power[n] \in Nat /\ Power[n] > 0 /\ Power[n + 1] = 2 * Power[n]
  /\ \A k, n \in Nat : k <= n => Power[k] <= Power[n]
<1>1. Power[0] = 1 /\ \A n \in Nat : Power[n + 1] = 2 * Power[n]
  BY PowerUnfolds
<1>2. \A n \in Nat : Power[n] \in Nat /\ Power[n] > 0
  <2> DEFINE S == {n \in Nat : Power[n] \in Nat /\ Power[n] > 0}
  <2>1. 0 \in S /\ \A n \in Nat : n \in S => n + 1 \in S
    BY <1>1
  <2>2. Nat \subseteq S
    <3> HIDE DEF S
    <3> QED
      BY <2>1, AllNat
  <2> QED
    BY <2>2
<1>3. ASSUME NEW k \in Nat, NEW n \in Nat, k <= n PROVE Power[k] <= Power[n]
  <2> DEFINE S == {j \in Nat : Power[k] <= Power[k + j]}
  <2>1. 0 \in S
    BY <1>2
  <2>2. ASSUME NEW j \in Nat, j \in S PROVE j + 1 \in S
    <3>1. Power[k + j + 1] = 2 * Power[k + j] /\ Power[k + j] \in Nat /\ Power[k] \in Nat
      BY <1>1, <1>2
    <3>2. Power[k] <= Power[k + j] /\ k + (j + 1) = k + j + 1
      BY <2>2
    <3> QED
      BY <3>1, <3>2
  <2>3. Nat \subseteq S
    <3> HIDE DEF S
    <3> QED
      BY <2>1, <2>2, AllNat
  <2>4. n - k \in S /\ k + (n - k) = n
    BY <1>3, <2>3
  <2> QED
    BY <2>4
<1> QED
  BY <1>1, <1>2, <1>3

\* Below half of the cap, doubling stays within the width of a Duration.
LEMMA NoWrap ==
  ASSUME NEW d \in Duration, NEW m \in Duration, d > 0, m > 0, ~(d > m \div 2)
  PROVE  Wrapped(d * 2) = d * 2 /\ d * 2 \in Duration /\ d * 2 <= m
<1>1. d \in Int /\ m \in Int /\ MaxInt \in Nat /\ m <= MaxInt
  BY BackoffAssumption DEF Duration
<1>2. d * 2 <= m
  BY <1>1
<1> QED
  BY <1>1, <1>2 DEF Wrapped, Duration

\* A delay doubled more often is no smaller.
LEMMA DoublingGrows ==
  ASSUME NEW b \in Nat, NEW k \in Nat, NEW n \in Nat, k <= n
  PROVE  b * Power[k] \in Nat /\ b * Power[k] <= b * Power[n]
<1>1. \A x, y \in Nat : x <= y => b * x \in Nat /\ b * x <= b * y
  OBVIOUS
<1>2. Power[k] \in Nat /\ Power[n] \in Nat /\ Power[k] <= Power[n]
  BY Powers
<1> QED
  BY <1>1, <1>2

\* One doubling more.
LEMMA DoublingOnce ==
  ASSUME NEW b \in Nat, NEW k \in Nat
  PROVE  b * Power[k + 1] = (b * Power[k]) * 2
<1>1. \A x \in Nat : b * (2 * x) = (b * x) * 2
  OBVIOUS
<1>2. Power[k] \in Nat /\ Power[k + 1] = 2 * Power[k]
  BY Powers
<1> QED
  BY <1>1, <1>2

\* However large attempts, base and max are, the delay stays between one base
\* and the cap and the doubling never overflows (the halving guard of
\* backoff.Geometric).
THEOREM BackoffInRange == BackoffSpec => [](LoopInv /\ InRange)
<1> USE BackoffAssumption
<1>1. Init => LoopInv
  BY DEF Init, LoopInv, BackoffTypeOK, InRange, Duration
<1>2. LoopInv /\ [Next]_vars => LoopInv'
  <2> SUFFICES ASSUME LoopInv, [Next]_vars
               PROVE  LoopInv'
    OBVIOUS
  <2>1. CASE UNCHANGED vars
    BY <2>1 DEF vars, LoopInv, BackoffTypeOK, InRange
  <2>2. CASE Disabled
    BY <2>2 DEF Disabled, Return, LoopInv, BackoffTypeOK, InRange, Duration
  <2>3. CASE Start
    <3>1. base \in Int /\ base * 1 = base /\ Power[1 - 1] = 1
      BY Powers DEF LoopInv, BackoffTypeOK, Duration
    <3>2. delay' = base' * Power[i' - 1]
      BY <2>3, <3>1 DEF Start
    <3>3. i' \in 1..attempts'
      BY <2>3 DEF Start, LoopInv, BackoffTypeOK
    <3> QED
      BY <2>3, <3>2, <3>3 DEF Start, LoopInv, BackoffTypeOK, InRange, Duration
  <2>4. CASE Cap
    BY <2>4 DEF Cap, Return, LoopInv, BackoffTypeOK, InRange, Duration
  <2>5. CASE Double
    <3>1. delay \in Duration /\ max \in Duration /\ delay > 0 /\ max > 0 /\ base \in Nat
      BY <2>5 DEF Double, LoopInv, BackoffTypeOK, Duration
    <3>2. delay' = delay * 2 /\ delay' \in Duration /\ delay' <= max
      BY <2>5, <3>1, NoWrap DEF Double, AtCap
    <3>3. delay' >= delay
      BY <3>1, <3>2 DEF Duration
    <3>4. i - 1 \in Nat /\ i' - 1 = (i - 1) + 1 /\ i' \in 1..attempts'
      BY <2>5 DEF Double, LoopInv, BackoffTypeOK
    <3>5. delay' = base' * Power[i' - 1]
      <4>1. delay = base * Power[i - 1] /\ base' = base
        BY <2>5 DEF Double, LoopInv
      <4>2. base * Power[(i - 1) + 1] = (base * Power[i - 1]) * 2
        BY <3>1, <3>4, DoublingOnce
      <4> QED
        BY <3>2, <3>4, <4>1, <4>2
    <3> QED
      BY <2>5, <3>1, <3>2, <3>3, <3>4, <3>5 DEF Double, LoopInv, BackoffTypeOK, InRange, Duration
  <2>6. CASE Exit
    BY <2>6 DEF Exit, Return, LoopInv, BackoffTypeOK, InRange, Duration
  <2> QED
    BY <2>1, <2>2, <2>3, <2>4, <2>5, <2>6 DEF Next
<1>3. LoopInv => LoopInv /\ InRange
  BY DEF LoopInv
<1> QED
  BY <1>1, <1>2, <1>3, PTL DEF BackoffSpec

\* backoff.Geometric returns what its doc comment says, base doubled once per
\* attempt after the first and capped at max, for every number of attempts and
\* every width of the integers: no early return is taken too early, and the
\* one at half of the cap never cuts a delay short.
THEOREM GeometricIsTheFormula == BackoffSpec => []Correct
<1> USE BackoffAssumption
<1>1. Init => Correct
  BY DEF Init, Correct
<1>2. ASSUME LoopInv, Correct, [Next]_vars PROVE Correct'
  <2>0. /\ base \in Int /\ max \in Int /\ attempts \in Int /\ delay \in Int
        /\ stage = "loop" => /\ base \in Nat /\ max \in Nat /\ base > 0 /\ max > 0
                             /\ i \in Nat /\ 1 <= i /\ i <= attempts /\ attempts \in Nat
                             /\ delay = base * Power[i - 1]
    BY <1>2 DEF LoopInv, BackoffTypeOK, Duration
  <2>1. CASE UNCHANGED vars
    BY <1>2, <2>1 DEF vars, Correct, Formula
  <2>2. CASE Disabled
    BY <2>2 DEF Disabled, Return, Correct, Formula
  <2>3. CASE Start
    BY <2>3 DEF Start, Correct
  <2>4. CASE Cap
    <3>1. stage = "loop" /\ i < attempts /\ result' = max /\ base' = base /\ max' = max
          /\ attempts' = attempts /\ (delay >= max \/ delay > max \div 2)
      BY <2>4 DEF Cap, Return, AtCap
    <3>2. i - 1 \in Nat /\ attempts - 1 \in Nat /\ (i - 1) + 1 <= attempts - 1 /\ base \in Nat
      BY <2>0, <3>1
    <3>3. delay * 2 <= base * Power[attempts - 1] /\ base * Power[attempts - 1] \in Nat
      <4>1. base * Power[(i - 1) + 1] = (base * Power[i - 1]) * 2
        BY <3>2, DoublingOnce
      <4>2. base * Power[(i - 1) + 1] <= base * Power[attempts - 1]
        BY <3>2, DoublingGrows
      <4>3. base * Power[attempts - 1] \in Nat
        BY <3>2, DoublingGrows
      <4> QED
        BY <2>0, <3>1, <4>1, <4>2, <4>3
    <3>4. delay * 2 >= max
      BY <2>0, <3>1
    <3>5. ~(base * Power[attempts - 1] < max)
      BY <2>0, <3>3, <3>4
    <3>6. Formula(attempts, base, max) = max
      BY <2>0, <3>1, <3>5 DEF Formula
    <3> QED
      BY <3>1, <3>6 DEF Correct, Formula
  <2>5. CASE Double
    BY <2>5 DEF Double, Correct
  <2>6. CASE Exit
    <3>1. stage = "loop" /\ i >= attempts /\ base' = base /\ max' = max /\ attempts' = attempts
          /\ result' = IF delay > max THEN max ELSE delay
      BY <2>6 DEF Exit, Return
    <3>2. i = attempts /\ attempts >= 1
      BY <2>0, <3>1
    <3>3. Formula(attempts, base, max) = IF delay < max THEN delay ELSE max
      BY <2>0, <3>1, <3>2 DEF Formula
    <3> QED
      BY <2>0, <3>1, <3>3 DEF Correct, Formula
  <2> QED
    BY <1>2, <2>1, <2>2, <2>3, <2>4, <2>5, <2>6 DEF Next
<1> QED
  BY <1>1, <1>2, BackoffInRange, PTL DEF BackoffSpec

\* A later failure waits at least as long as an earlier one: what the worker's
\* loop assumes of its delays.
THEOREM LaterWaitsLonger ==
  ASSUME NEW b \in Int, NEW m \in Int, NEW k \in Int, NEW n \in Int, k <= n
  PROVE  Formula(k, b, m) <= Formula(n, b, m)
<1> DEFINE x == (IF k < 1 THEN 1 ELSE k) - 1
           y == (IF n < 1 THEN 1 ELSE n) - 1
<1>1. x \in Nat /\ y \in Nat /\ x <= y
  OBVIOUS
<1>2. CASE b <= 0 \/ m <= 0
  BY <1>2 DEF Formula
<1>3. CASE b > 0 /\ m > 0
  <2>1. b \in Nat
    BY <1>3
  <2>2. /\ b * Power[x] \in Nat /\ b * Power[y] \in Nat
        /\ b * Power[x] <= b * Power[y]
    <3> HIDE DEF x, y
    <3> QED
      BY <1>1, <2>1, DoublingGrows
  <2>3. /\ Formula(k, b, m) = IF b * Power[x] < m THEN b * Power[x] ELSE m
        /\ Formula(n, b, m) = IF b * Power[y] < m THEN b * Power[y] ELSE m
    BY <1>3 DEF Formula
  <2> HIDE DEF x, y
  <2> QED
    BY <2>2, <2>3
<1> QED
  BY <1>2, <1>3

-----------------------------------------------------------------------------
(* The worker's loop.                                                      *)

\* The bounds are numbers.
LEMMA Bounds ==
  /\ MaxDelay \in Nat /\ CircuitTicks \in Nat /\ CircuitTicks > 0 /\ AttemptCap \in Nat
  /\ \A n \in 1..AttemptCap : Delay[n] \in 0..MaxDelay
BY WorkQueueAssumption, WorkerLoopAssumption DEF MaxDelay

\* Whatever the worker is at, it has never more to sit out than one sleep and
\* one window of the circuit.
LEMMA WaitBounded ==
  ASSUME LoopTypeOK
  PROVE  StillToWait \in Nat /\ StillToWait <= CircuitTicks + MaxDelay
<1>1. /\ sleep \in Nat /\ sleep <= MaxDelay /\ circuit \in Nat /\ circuit <= CircuitTicks
      /\ pc \in {"top", "asleep", "once", "busy", "idle"}
  BY Bounds DEF LoopTypeOK
<1> QED
  BY <1>1, Bounds DEF StillToWait

\* Arrivals and the transactions of the worker keep the shape of the rows.
LEMMA RowsKept ==
  ASSUME LoopTypeOK,
         \/ \E w \in WorkIds : Dequeue(w)
         \/ Complete(item) \/ Fail(item) \/ Release(item)
         \/ Tick
         \/ \E key \in Keys : Arrive(key)
         \/ UNCHANGED tables
  PROVE  workQueue' \in [WorkIds' -> WorkRow]
<1>1. workQueue \in [WorkIds -> WorkRow] /\ WorkIds = DOMAIN workQueue
  BY DEF LoopTypeOK, WorkIds
<1>2. CASE \E w \in WorkIds : Dequeue(w)
  BY <1>1, <1>2 DEF Dequeue, WorkRow, WorkStatus, WorkIds
<1>3. CASE Complete(item) \/ Release(item)
  BY <1>1, <1>3 DEF Complete, Release, Claimed, WorkRow, WorkStatus, WorkIds
<1>4. CASE Fail(item)
  <2> DEFINE a == workQueue[item].attempts
             n == IF a < AttemptCap THEN a + 1 ELSE AttemptCap
  <2>1. item \in WorkIds /\ workQueue[item] \in WorkRow /\ a \in Nat
    BY <1>1, <1>4 DEF Fail, Claimed, WorkRow
  <2>2. n \in 1..AttemptCap /\ n \in Nat
    BY <2>1, WorkQueueAssumption
  <2>3. Delay[n] \in Nat
    BY <2>2, WorkQueueAssumption
  <2>4. workQueue' = [workQueue EXCEPT ![item].status = "failed",
                                       ![item].attempts = n, ![item].wait = Delay[n]]
    BY <1>4 DEF Fail
  <2> HIDE DEF n
  <2> QED
    BY <1>1, <2>1, <2>2, <2>3, <2>4 DEF WorkRow, WorkStatus, WorkIds
<1>5. CASE Tick
  BY <1>1, <1>5 DEF Tick, Waiting, WorkRow, WorkIds
<1>6. CASE \E key \in Keys : Arrive(key)
  <2>1. PICK key \in Keys : Arrive(key)
    BY <1>6
  <2>2. PICK outs \in SUBSET Paths, prio \in {PriorityScan, PriorityWebhook} :
          Enqueue(key, outs, prio, {})
    BY <2>1, TablesAssumption, WorkerLoopAssumption DEF Arrive
  <2>3. CASE RowsOf(key) = {} /\ workQueue' = [w \in WorkIds \cup {lastWork'} |->
                               IF w = lastWork' THEN NewRow(key, outs, prio) ELSE workQueue[w]]
    <3>1. NewRow(key, outs, prio) \in WorkRow
      BY DEF NewRow, WorkRow, WorkStatus
    <3> QED
      BY <1>1, <2>3, <3>1 DEF WorkIds
  <2>4. CASE \E w \in RowsOf(key) : workQueue' = [workQueue EXCEPT ![w] = Merged(@, outs, prio)]
    <3>1. \A row \in WorkRow : Merged(row, outs, prio) \in WorkRow
      BY DEF Merged, MaxPriority, WorkRow, PriorityScan, PriorityWebhook
    <3> QED
      BY <1>1, <2>4, <3>1 DEF RowsOf, WorkIds
  <2> QED
    BY <2>2, <2>3, <2>4 DEF Enqueue
<1>7. CASE UNCHANGED tables
  BY <1>1, <1>7 DEF tables, WorkIds
<1> QED
  BY <1>2, <1>3, <1>4, <1>5, <1>6, <1>7

\* Dequeue prefers webhook work, so claiming ends the wait for it.
LEMMA ClaimEndsWait ==
  ASSUME LoopTypeOK, ClaimNext
  PROVE  waited' = 0
<1>1. PICK w \in WorkIds :
        /\ Dequeue(w)
        /\ IF workQueue[w].prio = PriorityWebhook THEN waited' = 0 ELSE KeepWaited
  BY DEF ClaimNext
<1>2. CASE workQueue[w].prio = PriorityWebhook
  BY <1>1, <1>2
<1>3. CASE workQueue[w].prio # PriorityWebhook
  <2>1. \A v \in WorkIds : Ready(v) => workQueue[v].prio # PriorityWebhook
    <3> SUFFICES ASSUME NEW v \in WorkIds, Ready(v) PROVE workQueue[v].prio # PriorityWebhook
      OBVIOUS
    <3>1. /\ workQueue[v].prio \in {PriorityScan, PriorityWebhook}
          /\ workQueue[w].prio \in {PriorityScan, PriorityWebhook}
      BY DEF LoopTypeOK, WorkRow
    <3>2. workQueue[w].prio = PriorityScan
      BY <1>3, <3>1
    <3>3. Before(w, v)
      BY <1>1 DEF Dequeue
    <3> QED
      BY <3>1, <3>2, <3>3 DEF Before, PriorityScan, PriorityWebhook
  <2>2. workQueue' = [workQueue EXCEPT ![w].status = "processing"]
    BY <1>1 DEF Dequeue
  <2>3. WorkIds' = WorkIds
    BY <2>2 DEF WorkIds
  <2>4. \A v \in WorkIds : v # w => workQueue'[v] = workQueue[v]
    BY <2>2 DEF WorkIds
  <2>5. workQueue'[w].status = "processing"
    BY <2>2 DEF LoopTypeOK, WorkRow, WorkIds
  <2>6. ~HookReady'
    <3> SUFFICES ASSUME NEW v \in WorkIds', Ready(v)', workQueue'[v].prio = PriorityWebhook
                 PROVE  FALSE
      BY DEF HookReady
    <3>1. v # w
      BY <2>5 DEF Ready, Queued, Retryable
    <3>2. workQueue'[v] = workQueue[v]
      BY <2>3, <2>4, <3>1
    <3>3. Ready(v) /\ workQueue[v].prio = PriorityWebhook
      BY <3>2 DEF Ready, Queued
    <3> QED
      BY <2>1, <2>3, <3>3
  <2> QED
    BY <1>1, <1>3, <2>6 DEF KeepWaited
<1> QED
  BY <1>2, <1>3

\* A row that is ready stays so while time passes.
LEMMA StaysReady ==
  ASSUME LoopTypeOK, HookReady, Tick \/ UNCHANGED tables
  PROVE  HookReady'
<1>1. PICK w \in WorkIds : Ready(w) /\ workQueue[w].prio = PriorityWebhook
  BY DEF HookReady
<1>2. w \notin Waiting
  BY <1>1 DEF Ready, Waiting
<1>3. w \in WorkIds' /\ workQueue'[w] = workQueue[w]
  BY <1>1, <1>2 DEF Tick, tables, WorkIds
<1>4. Ready(w)' /\ workQueue'[w].prio = PriorityWebhook
  BY <1>1, <1>3 DEF Ready, Queued
<1> QED
  BY <1>3, <1>4 DEF HookReady

\* Every step keeps the worker within its bounds.
LEMMA LoopTypes ==
  ASSUME LoopTypeOK, LoopNext
  PROVE  LoopTypeOK'
<1>1. workQueue' \in [WorkIds' -> WorkRow]
  BY RowsKept DEF LoopNext, Loop, LoopTop, Wake, NothingToDo, ClaimNext, Succeed,
     FailAttempt, TripCircuit, Poll, TimePasses
<1>2. waited' \in Nat
  BY DEF LoopTypeOK, LoopNext, Loop, LoopTop, Wake, NothingToDo, ClaimNext, Succeed,
     FailAttempt, TripCircuit, Poll, TimePasses, Arrive, KeepWaited
<1>3. pc' \in {"top", "asleep", "once", "busy", "idle"}
  BY DEF LoopTypeOK, LoopNext, Loop, LoopTop, Wake, NothingToDo, ClaimNext, Succeed,
     FailAttempt, TripCircuit, Poll, TimePasses, Arrive, loop
<1>4. failures' \in 0..AttemptCap
  BY Bounds DEF LoopTypeOK, LoopNext, Loop, LoopTop, Wake, NothingToDo, ClaimNext,
     Succeed, FailAttempt, TripCircuit, Poll, TimePasses, Arrive, loop
<1>5. sleep' \in 0..MaxDelay
  <2>1. failures > 0 => Delay[failures] \in 0..MaxDelay
    BY Bounds DEF LoopTypeOK
  <2> QED
    BY <2>1, Bounds DEF LoopTypeOK, LoopNext, Loop, LoopTop, Wake, NothingToDo,
       ClaimNext, Succeed, FailAttempt, TripCircuit, Poll, TimePasses, Arrive, loop, LessOne
<1>6. circuit' \in 0..CircuitTicks
  BY Bounds DEF LoopTypeOK, LoopNext, Loop, LoopTop, Wake, NothingToDo, ClaimNext,
     Succeed, FailAttempt, TripCircuit, Poll, TimePasses, Arrive, loop, LessOne
<1> QED
  BY <1>1, <1>2, <1>3, <1>4, <1>5, <1>6 DEF LoopTypeOK

\* A tick more waited is a tick less to sit out.
LEMMA PaidOff ==
  ASSUME NEW done \in Nat, NEW left \in Nat, NEW limit \in Nat, done + left <= limit
  PROVE  \A left2 \in Nat : /\ left2 <= left => done + left2 <= limit
                            /\ left2 + 1 <= left => (done + 1) + left2 <= limit
OBVIOUS

\* What has been waited and what is still to sit out never add up to more.
LEMMA PaceStep ==
  ASSUME PaceInv, LoopNext
  PROVE  PaceInv'
<1> DEFINE B == CircuitTicks + MaxDelay
<1>1. LoopTypeOK /\ LoopTypeOK'
  BY LoopTypes DEF PaceInv
<1>2. /\ sleep \in Nat /\ sleep <= MaxDelay /\ circuit \in Nat /\ circuit <= CircuitTicks
      /\ waited \in Nat /\ waited' \in Nat /\ MaxDelay \in Nat /\ CircuitTicks \in Nat
      /\ failures \in Nat
      /\ sleep' \in Nat /\ sleep' <= MaxDelay /\ circuit' \in Nat /\ circuit' <= CircuitTicks
      /\ CircuitTicks > 0 /\ pc' \in {"top", "asleep", "once", "busy", "idle"}
      /\ B \in Nat
  BY <1>1, Bounds DEF LoopTypeOK, MaxDelay
<1>3. /\ StillToWait \in Nat /\ waited + StillToWait <= B
      /\ StillToWait' \in Nat /\ StillToWait' <= B
  <2>1. StillToWait' \in Nat /\ StillToWait' <= B
    BY <1>2 DEF StillToWait, MaxDelay
  <2> QED
    BY <1>1, <2>1, WaitBounded DEF PaceInv
<1> HIDE DEF B
<1>P. \A left2 \in Nat : /\ left2 <= StillToWait => waited + left2 <= B
                         /\ left2 + 1 <= StillToWait => (waited + 1) + left2 <= B
  BY <1>2, <1>3, PaidOff
<1>4. ASSUME waited' = 0 PROVE PaceInv'
  BY <1>1, <1>2, <1>3, <1>4, Bounds DEF PaceInv, MaxDelay, B
<1>5. ASSUME waited' # 0, KeepWaited, pc' # "busy", StillToWait' <= StillToWait
      PROVE  PaceInv'
  <2>1. waited' = waited /\ HookReady'
    BY <1>5 DEF KeepWaited
  <2>2. waited' + StillToWait' <= B
    <3>1. waited + StillToWait' <= B
      BY <1>3, <1>5, <1>P
    <3> QED
      BY <2>1, <3>1
  <2> QED
    BY <1>1, <1>5, <2>1, <2>2 DEF PaceInv, MaxDelay, B
<1>6. CASE ClaimNext
  BY <1>1, <1>4, <1>6, ClaimEndsWait
<1>7. CASE Succeed \/ FailAttempt \/ TripCircuit
  <2>1. waited = 0 /\ (waited' = waited \/ waited' = 0)
    BY <1>2, <1>7 DEF PaceInv, Succeed, FailAttempt, TripCircuit, KeepWaited
  <2> QED
    BY <1>4, <2>1
<1>8. CASE LoopTop \/ Wake \/ Poll
  <2>1. KeepWaited /\ pc' # "busy" /\ circuit' = circuit
    BY <1>8 DEF LoopTop, Wake, Poll
  <2>2. StillToWait' <= StillToWait
    <3>1. CASE LoopTop
      BY <1>2, <3>1 DEF LoopTop, StillToWait, MaxDelay
    <3>2. CASE Wake
      BY <1>2, <3>2 DEF Wake, StillToWait, MaxDelay
    <3>3. CASE Poll
      BY <1>2, <3>3 DEF Poll, StillToWait, MaxDelay
    <3> QED
      BY <1>8, <3>1, <3>2, <3>3
  <2> QED
    BY <1>4, <1>5, <2>1, <2>2
<1>9. CASE NothingToDo
  <2>1. KeepWaited /\ pc = "once" /\ pc' = "idle" /\ circuit' = circuit /\ UNCHANGED tables
    BY <1>9 DEF NothingToDo
  <2>2. CASE circuit > 0
    <3>1. StillToWait' <= StillToWait
      BY <1>2, <2>1, <2>2 DEF StillToWait, MaxDelay
    <3> QED
      BY <1>4, <1>5, <2>1, <3>1
  <2>3. CASE NothingReady
    <3>1. ~HookReady'
      BY <2>1, <2>3 DEF HookReady, NothingReady, tables, WorkIds, Ready, Queued
    <3> QED
      BY <1>4, <2>1, <3>1 DEF KeepWaited
  <2> QED
    BY <1>9, <2>2, <2>3 DEF NothingToDo
<1>10. CASE TimePasses
  <2>1. CASE ~HookReady
    BY <1>4, <1>10, <2>1 DEF TimePasses
  <2>2. CASE HookReady
    <3>1. /\ waited' = waited + 1 /\ pc' # "busy"
          /\ sleep' = LessOne(sleep) /\ circuit' = LessOne(circuit)
          /\ Tick \/ UNCHANGED tables
          /\ \/ pc = "idle" /\ pc' = "top"
             \/ pc = "asleep" /\ pc' = pc /\ sleep > 0
      BY <1>10, <2>2 DEF TimePasses
    <3>2. HookReady'
      BY <1>1, <2>2, <3>1, StaysReady
    <3>3. StillToWait' + 1 <= StillToWait
      BY <1>2, <3>1 DEF StillToWait, LessOne, MaxDelay
    <3>4. waited' + StillToWait' <= B
      <4>1. (waited + 1) + StillToWait' <= B
        BY <1>3, <1>P, <3>3
      <4> QED
        BY <3>1, <4>1
    <3> QED
      BY <1>1, <3>1, <3>2, <3>4 DEF PaceInv, MaxDelay, B
  <2> QED
    BY <2>1, <2>2
<1>11. CASE \E key \in Keys : Arrive(key)
  <2>1. KeepWaited /\ pc' = pc /\ circuit' = circuit /\ sleep' = sleep
    BY <1>11 DEF Arrive, loop
  <2>2. StillToWait' = StillToWait
    BY <2>1 DEF StillToWait, MaxDelay
  <2>3. CASE pc = "busy"
    BY <1>2, <1>4, <2>1, <2>3 DEF PaceInv, KeepWaited
  <2> QED
    BY <1>3, <1>4, <1>5, <2>1, <2>2, <2>3
<1> QED
  BY <1>6, <1>7, <1>8, <1>9, <1>10, <1>11 DEF LoopNext, Loop

\* For any queue, delays that grow to MaxDelay and any circuit window: the
\* ticks that webhook work has been ready and those that the loop of
\* Worker.run may still sleep, poll or hold the circuit open stay below one
\* sleep and one window.
THEOREM PaceInvariant == LoopSpec => []PaceInv
<1>1. LoopInit => PaceInv
  <2> SUFFICES ASSUME LoopInit PROVE PaceInv
    OBVIOUS
  <2>1. LoopTypeOK
    BY Bounds DEF LoopInit, TablesInit, LoopTypeOK, WorkIds
  <2>2. StillToWait \in Nat /\ StillToWait <= CircuitTicks + MaxDelay
    BY <2>1, WaitBounded
  <2> QED
    BY <2>1, <2>2, Bounds DEF LoopInit, PaceInv
<1>2. PaceInv /\ [LoopNext]_loopVars => PaceInv'
  <2> SUFFICES ASSUME PaceInv, [LoopNext]_loopVars PROVE PaceInv'
    OBVIOUS
  <2>1. CASE UNCHANGED loopVars
    BY <2>1 DEF loopVars, loop, tables, PaceInv, LoopTypeOK, StillToWait, MaxDelay, HookReady,
       Ready, Queued, WorkIds
  <2> QED
    BY <2>1, PaceStep
<1> QED
  BY <1>1, <1>2, PTL DEF LoopSpec

\* While webhook work is ready, some is claimed within one worker sleep and one
\* circuit window, however many rows of whatever priority keep failing (the
\* order of Dequeue, the sleep of Worker.run and the circuit gate of RunOnce).
THEOREM WebhooksArePrompt == LoopSpec => []PromptWebhook
<1>1. PaceInv => PromptWebhook
  BY WaitBounded, Bounds DEF PaceInv, PromptWebhook, LoopTypeOK
<1> QED
  BY <1>1, PaceInvariant, PTL

=============================================================================
