------------------------ MODULE FetchCommand_proofs ------------------------
(***************************************************************************)
(* Theorems about the fetch command: any number of inputs, any directory   *)
(* tree, failures and Ctrl+C at any moment.                                *)
(***************************************************************************)
EXTENDS FetchCommand, FiniteSetTheorems, SequenceTheorems, TLAPS

-----------------------------------------------------------------------------
(* Queues of numbers.                                                      *)

\* InputsQueue.Push.
LEMMA Pushed ==
  ASSUME NEW s \in Seq(Nat), NEW x \in Nat
  PROVE  /\ Append(s, x) \in Seq(Nat) /\ Len(Append(s, x)) = Len(s) + 1
         /\ ToSet(Append(s, x)) = ToSet(s) \cup {x}
         /\ Ascending(s) /\ (\A y \in ToSet(s) : y < x) => Ascending(Append(s, x))
<1> DEFINE t == Append(s, x)
<1>1. /\ t \in Seq(Nat) /\ Len(t) = Len(s) + 1 /\ Len(s) \in Nat
      /\ DOMAIN t = 1..(Len(s) + 1) /\ DOMAIN s = 1..Len(s)
      /\ t[Len(s) + 1] = x /\ \A i \in 1..Len(s) : t[i] = s[i]
  OBVIOUS
<1> HIDE DEF t
<1>2. ToSet(t) = ToSet(s) \cup {x}
  <2>1. \A y \in ToSet(t) : y \in ToSet(s) \cup {x}
    BY <1>1 DEF ToSet
  <2>2. \A y \in ToSet(s) \cup {x} : y \in ToSet(t)
    BY <1>1 DEF ToSet
  <2> QED
    BY <2>1, <2>2
<1>3. ASSUME Ascending(s), \A y \in ToSet(s) : y < x PROVE Ascending(t)
  <2> SUFFICES ASSUME NEW i \in DOMAIN t, NEW j \in DOMAIN t, i < j PROVE t[i] < t[j]
    BY DEF Ascending
  <2>1. i \in 1..Len(s) /\ s[i] \in ToSet(s)
    BY <1>1 DEF ToSet
  <2> QED
    BY <1>1, <1>3, <2>1 DEF Ascending
<1> QED
  BY <1>1, <1>2, <1>3 DEF t

\* InputsQueue.Pop.
LEMMA Popped ==
  ASSUME NEW s \in Seq(Nat), s # <<>>
  PROVE  /\ Tail(s) \in Seq(Nat) /\ Len(Tail(s)) = Len(s) - 1 /\ Len(s) > 0
         /\ Head(s) = s[1] /\ Head(s) \in Nat
         /\ \A i \in 1..(Len(s) - 1) : Tail(s)[i] = s[i + 1]
         /\ ToSet(s) = ToSet(Tail(s)) \cup {Head(s)}
         /\ Ascending(s) => Ascending(Tail(s))
<1> DEFINE t == Tail(s)
<1>1. /\ t \in Seq(Nat) /\ Len(t) = Len(s) - 1 /\ Len(s) \in Nat /\ Len(s) > 0
      /\ DOMAIN t = 1..(Len(s) - 1) /\ DOMAIN s = 1..Len(s)
      /\ Head(s) = s[1] /\ s[1] \in Nat
      /\ \A i \in 1..(Len(s) - 1) : t[i] = s[i + 1]
  OBVIOUS
<1> HIDE DEF t
<1>2. ToSet(s) = ToSet(t) \cup {s[1]}
  <2>1. ASSUME NEW i \in DOMAIN s PROVE s[i] \in ToSet(t) \cup {s[1]}
    <3>1. CASE i = 1
      BY <3>1
    <3>2. CASE i # 1
      <4>1. i \in 1..Len(s) /\ Len(s) \in Nat
        BY <1>1
      <4>2. i - 1 \in 1..(Len(s) - 1) /\ (i - 1) + 1 = i
        BY <3>2, <4>1
      <4>3. i - 1 \in DOMAIN t /\ t[i - 1] = s[i]
        BY <1>1, <4>2
      <4> QED
        BY <4>3 DEF ToSet
    <3> QED
      BY <3>1, <3>2
  <2>2. ASSUME NEW i \in DOMAIN t PROVE t[i] \in ToSet(s)
    <3>1. i + 1 \in DOMAIN s /\ t[i] = s[i + 1]
      BY <1>1
    <3> QED
      BY <3>1 DEF ToSet
  <2>3. s[1] \in ToSet(s)
    <3>1. 1 \in DOMAIN s
      BY <1>1
    <3> QED
      BY <3>1 DEF ToSet
  <2> QED
    BY <2>1, <2>2, <2>3 DEF ToSet
<1>3. ASSUME Ascending(s) PROVE Ascending(t)
  <2> SUFFICES ASSUME NEW i \in DOMAIN t, NEW j \in DOMAIN t, i < j PROVE t[i] < t[j]
    BY DEF Ascending
  <2>1. /\ i + 1 \in DOMAIN s /\ j + 1 \in DOMAIN s /\ i + 1 < j + 1
        /\ t[i] = s[i + 1] /\ t[j] = s[j + 1]
    <3>1. i \in 1..(Len(s) - 1) /\ j \in 1..(Len(s) - 1) /\ Len(s) \in Nat
      BY <1>1
    <3>2. i + 1 \in 1..Len(s) /\ j + 1 \in 1..Len(s) /\ i + 1 < j + 1
      BY <3>1
    <3> QED
      BY <1>1, <3>1, <3>2
  <2> QED
    BY <1>3, <2>1 DEF Ascending
<1> QED
  BY <1>1, <1>2, <1>3 DEF t

\* Draining one queue behind another.
LEMMA Drained ==
  ASSUME NEW s \in Seq(Nat), NEW t \in Seq(Nat)
  PROVE  /\ s \o t \in Seq(Nat) /\ Len(s \o t) = Len(s) + Len(t)
         /\ ToSet(s \o t) = ToSet(s) \cup ToSet(t)
         /\ Ascending(s) /\ Ascending(t) /\ (\A x \in ToSet(s), y \in ToSet(t) : x < y)
            => Ascending(s \o t)
<1> DEFINE u == s \o t
<1>1. /\ u \in Seq(Nat) /\ Len(u) = Len(s) + Len(t) /\ Len(s) \in Nat /\ Len(t) \in Nat
      /\ DOMAIN u = 1..(Len(s) + Len(t)) /\ DOMAIN s = 1..Len(s) /\ DOMAIN t = 1..Len(t)
      /\ \A i \in 1..Len(s) : u[i] = s[i]
      /\ \A i \in 1..(Len(s) + Len(t)) : i > Len(s) => u[i] = t[i - Len(s)]
  OBVIOUS
<1> HIDE DEF u
<1>2. ASSUME NEW i \in DOMAIN u
      PROVE  \/ i \in DOMAIN s /\ u[i] = s[i] /\ u[i] \in ToSet(s)
             \/ i > Len(s) /\ i - Len(s) \in DOMAIN t /\ u[i] = t[i - Len(s)] /\ u[i] \in ToSet(t)
  <2>1. CASE i <= Len(s)
    BY <1>1, <2>1 DEF ToSet
  <2>2. CASE i > Len(s)
    <3>1. i - Len(s) \in DOMAIN t /\ u[i] = t[i - Len(s)]
      BY <1>1, <2>2
    <3> QED
      BY <2>2, <3>1 DEF ToSet
  <2> QED
    BY <1>1, <2>1, <2>2
<1>3. ToSet(u) = ToSet(s) \cup ToSet(t)
  <2>1. ASSUME NEW i \in DOMAIN s PROVE s[i] \in ToSet(u)
    BY <1>1 DEF ToSet
  <2>2. ASSUME NEW i \in DOMAIN t PROVE t[i] \in ToSet(u)
    <3>2. i \in 1..Len(t) /\ Len(s) \in Nat /\ Len(t) \in Nat
      BY <1>1
    <3>3. /\ i + Len(s) \in 1..(Len(s) + Len(t)) /\ i + Len(s) > Len(s)
          /\ (i + Len(s)) - Len(s) = i
      BY <3>2
    <3>1. i + Len(s) \in DOMAIN u /\ u[i + Len(s)] = t[i]
      BY <1>1, <3>3
    <3> QED
      BY <3>1 DEF ToSet
  <2> QED
    BY <1>2, <2>1, <2>2 DEF ToSet
<1>4. ASSUME Ascending(s), Ascending(t), \A x \in ToSet(s), y \in ToSet(t) : x < y
      PROVE  Ascending(u)
  <2> SUFFICES ASSUME NEW i \in DOMAIN u, NEW j \in DOMAIN u, i < j PROVE u[i] < u[j]
    BY DEF Ascending
  <2>1. i \in Nat /\ j \in Nat /\ Len(s) \in Nat
    BY <1>1
  <2>2. CASE j \in DOMAIN s
    <3>1. i \in DOMAIN s
      BY <1>1, <2>1, <2>2
    <3>2. u[i] = s[i] /\ u[j] = s[j]
      BY <1>1, <2>2, <3>1
    <3> QED
      BY <1>4, <2>2, <3>1, <3>2 DEF Ascending
  <2>3. CASE i \in DOMAIN s /\ j \notin DOMAIN s
    <3>1. u[i] = s[i] /\ s[i] \in ToSet(s)
      BY <1>1, <2>3 DEF ToSet
    <3>2. u[j] \in ToSet(t)
      BY <1>2, <2>3
    <3> QED
      BY <1>4, <3>1, <3>2
  <2>4. CASE i \notin DOMAIN s
    <3>1. i > Len(s) /\ j > Len(s)
      BY <1>1, <2>1, <2>4
    <3>2. j \notin DOMAIN s
      BY <1>1, <2>1, <3>1
    <3>3. /\ i - Len(s) \in DOMAIN t /\ u[i] = t[i - Len(s)]
          /\ j - Len(s) \in DOMAIN t /\ u[j] = t[j - Len(s)]
      BY <1>2, <2>4, <3>2
    <3>4. i - Len(s) < j - Len(s)
      BY <2>1
    <3> QED
      BY <1>4, <3>3, <3>4 DEF Ascending
  <2> QED
    BY <2>2, <2>3, <2>4
<1> QED
  BY <1>1, <1>3, <1>4 DEF u

-----------------------------------------------------------------------------
(* The application.                                                        *)

queues == <<total, inputs, failed, saved, rows>>

\* What is known of the queues.
LEMMA QueueFacts ==
  ASSUME FetchInv
  PROVE  /\ inputs \in Seq(Nat) /\ failed \in Seq(Nat) /\ saved \in Seq(Nat) /\ rows \in Seq(Nat)
         /\ Len(inputs) \in Nat /\ Len(failed) \in Nat /\ Len(saved) \in Nat /\ Len(rows) \in Nat
         /\ total \in Nat /\ Tried \in Nat
         /\ TriedInOrder /\ Phases /\ mode \in {"dir", "cli", "text"}
BY DEF FetchInv, FetchTypeOK, Tried

\* A step that moves no input.
LEMMA QueuesStay ==
  ASSUME FetchInv, UNCHANGED queues
  PROVE  TriedInOrder' /\ \A queue \in {inputs', failed', saved', rows'} : queue \in Seq(Nat)
<1>1. Tried' = Tried
  BY DEF Tried, queues
<1>2. TriedInOrder
  BY QueueFacts
<1>3. TriedInOrder'
  BY <1>1, <1>2 DEF queues, TriedInOrder, Ascending
<1> QED
  BY <1>3, QueueFacts DEF queues

\* Counting the queues when one input moves.
LEMMA OneMoves ==
  ASSUME Len(inputs) \in Nat, Len(failed) \in Nat, Len(saved) \in Nat, Len(rows) \in Nat,
         Tried + Len(inputs) = total, total' = total,
         Len(inputs') = Len(inputs) - 1, Len(rows') = Len(rows),
         \/ Len(saved') = Len(saved) + 1 /\ Len(failed') = Len(failed)
         \/ Len(failed') = Len(failed) + 1 /\ Len(saved') = Len(saved)
  PROVE  Tried' = Tried + 1 /\ Tried' + Len(inputs') = total'
BY DEF Tried

\* The first input is taken from the queue and put behind one of the others.
LEMMA InputTaken ==
  ASSUME FetchInv, inputs # <<>>, rows = <<>>,
         inputs' = Tail(inputs), rows' = rows, total' = total,
         \/ saved' = Append(saved, Head(inputs)) /\ failed' = failed
         \/ failed' = Append(failed, Head(inputs)) /\ saved' = saved
  PROVE  TriedInOrder' /\ \A queue \in {inputs', failed', saved', rows'} : queue \in Seq(Nat)
<1> DEFINE x == Head(inputs)
<1>1. /\ inputs \in Seq(Nat) /\ failed \in Seq(Nat) /\ saved \in Seq(Nat) /\ rows \in Seq(Nat)
      /\ Len(inputs) \in Nat /\ Len(failed) \in Nat /\ Len(saved) \in Nat /\ Len(rows) \in Nat
      /\ Tried \in Nat /\ total \in Nat
  BY QueueFacts
<1>2. /\ Tried + Len(inputs) = total
      /\ \A i \in DOMAIN inputs : inputs[i] = Tried + i
      /\ ToSet(saved) \cup ToSet(rows) \cup ToSet(failed) = 1..Tried
      /\ ToSet(saved) \cap (ToSet(rows) \cup ToSet(failed)) = {}
      /\ Ascending(rows) /\ Ascending(failed)
  BY QueueFacts DEF TriedInOrder
<1>3. /\ Tail(inputs) \in Seq(Nat) /\ Len(Tail(inputs)) = Len(inputs) - 1 /\ Len(inputs) > 0
      /\ x = inputs[1] /\ x \in Nat
      /\ \A i \in 1..(Len(inputs) - 1) : Tail(inputs)[i] = inputs[i + 1]
  BY <1>1, Popped
<1>4. x = Tried + 1
  <2>1. 1 \in DOMAIN inputs
    BY <1>1, <1>3
  <2> QED
    BY <1>2, <1>3, <2>1
<1> HIDE DEF x
<1>5. /\ Append(saved, x) \in Seq(Nat) /\ Len(Append(saved, x)) = Len(saved) + 1
      /\ ToSet(Append(saved, x)) = ToSet(saved) \cup {x}
  BY <1>1, <1>3, Pushed
<1>6. /\ Append(failed, x) \in Seq(Nat) /\ Len(Append(failed, x)) = Len(failed) + 1
      /\ ToSet(Append(failed, x)) = ToSet(failed) \cup {x}
      /\ Ascending(Append(failed, x))
  <2>1. \A y \in ToSet(failed) : y < x
    BY <1>1, <1>2, <1>4
  <2> QED
    BY <1>1, <1>2, <1>3, <2>1, Pushed
<1>7. \/ saved' = Append(saved, x) /\ failed' = failed
      \/ failed' = Append(failed, x) /\ saved' = saved
  BY DEF x
<1>8. /\ \A queue \in {inputs', failed', saved', rows'} : queue \in Seq(Nat)
      /\ Tried' = Tried + 1 /\ Len(inputs') = Len(inputs) - 1
      /\ Tried' + Len(inputs') = total'
  <2>1. \A queue \in {inputs', failed', saved', rows'} : queue \in Seq(Nat)
    BY <1>1, <1>3, <1>5, <1>6, <1>7
  <2>2. Len(inputs') = Len(inputs) - 1 /\ Len(rows') = Len(rows)
    BY <1>3
  <2>3. \/ Len(saved') = Len(saved) + 1 /\ Len(failed') = Len(failed)
        \/ Len(failed') = Len(failed) + 1 /\ Len(saved') = Len(saved)
    BY <1>5, <1>6, <1>7
  <2> QED
    BY <1>1, <1>2, <2>1, <2>2, <2>3, OneMoves
<1>9. \A i \in DOMAIN inputs' : inputs'[i] = Tried' + i
  <2> SUFFICES ASSUME NEW i \in DOMAIN inputs' PROVE inputs'[i] = Tried' + i
    OBVIOUS
  <2>1. i \in 1..(Len(inputs) - 1)
    BY <1>3
  <2>2. i + 1 \in 1..Len(inputs) /\ i \in Nat
    BY <1>1, <2>1
  <2>3. inputs'[i] = inputs[i + 1] /\ i + 1 \in DOMAIN inputs
    BY <1>1, <1>3, <2>1, <2>2
  <2>4. inputs'[i] = Tried + (i + 1)
    BY <1>2, <2>3
  <2> QED
    BY <1>1, <1>8, <2>2, <2>4
<1>10. 1..Tried' = (1..Tried) \cup {x} /\ x \notin 1..Tried
  BY <1>1, <1>4, <1>8
<1>11. /\ ToSet(saved') \cup ToSet(rows') \cup ToSet(failed') = 1..Tried'
       /\ ToSet(saved') \cap (ToSet(rows') \cup ToSet(failed')) = {}
  <2>1. x \notin ToSet(saved) \cup ToSet(rows) \cup ToSet(failed)
    BY <1>2, <1>10
  <2>2. CASE saved' = Append(saved, x) /\ failed' = failed
    BY <1>2, <1>5, <1>10, <2>1, <2>2
  <2>3. CASE failed' = Append(failed, x) /\ saved' = saved
    BY <1>2, <1>6, <1>10, <2>1, <2>3
  <2> QED
    BY <1>7, <2>2, <2>3
<1>12. Ascending(rows)' /\ Ascending(failed)' /\ DOMAIN rows' = {}
  <2>1. DOMAIN rows' = {}
    OBVIOUS
  <2>2. Ascending(failed)'
    BY <1>2, <1>6, <1>7 DEF Ascending
  <2> QED
    BY <2>1, <2>2 DEF Ascending
<1> QED
  BY <1>8, <1>9, <1>11, <1>12 DEF TriedInOrder

\* NewApp queues the inputs in their order.
LEMMA InputsQueued ==
  ASSUME FetchInv, NEW n \in Nat, NewApp(n)
  PROVE  FetchInv'
<1>1. /\ pc' = "loop" /\ total' = n /\ inputs' = [i \in 1..n |-> i] /\ total = 0
      /\ mode' = mode /\ failed' = failed /\ saved' = saved /\ rows' = rows
  BY QueueFacts DEF NewApp, Phases
<1>2. /\ failed = <<>> /\ saved = <<>> /\ rows = <<>> /\ Tried = 0
  <2>1. Len(failed) = 0 /\ Len(saved) = 0 /\ Len(rows) = 0
    BY <1>1, QueueFacts DEF TriedInOrder, Tried
  <2> QED
    BY <2>1, QueueFacts DEF Tried
<1>3. inputs' \in Seq(Nat) /\ Len(inputs') = n /\ DOMAIN inputs' = 1..n
  BY <1>1
<1>4. Tried' = 0
  BY <1>1, <1>2 DEF Tried
<1>5. ToSet(saved') = {} /\ ToSet(rows') = {} /\ ToSet(failed') = {}
  BY <1>1, <1>2 DEF ToSet
<1>6. Ascending(rows)' /\ Ascending(failed)' /\ DOMAIN rows' = {}
  BY <1>1, <1>2 DEF Ascending
<1>7. TriedInOrder'
  <2>1. \A i \in DOMAIN inputs' : inputs'[i] = Tried' + i
    BY <1>1, <1>3, <1>4
  <2>2. Tried' + Len(inputs') = total' /\ 1..Tried' = {}
    BY <1>1, <1>3, <1>4
  <2> QED
    BY <1>5, <1>6, <2>1, <2>2 DEF TriedInOrder
<1>8. FetchTypeOK'
  BY <1>1, <1>3 DEF FetchInv, FetchTypeOK
<1>9. Phases'
  BY <1>1, <1>2 DEF Phases
<1> QED
  BY <1>7, <1>8, <1>9 DEF FetchInv

\* The inputs that still wait are the last ones.
LEMMA QueuedSet ==
  ASSUME inputs \in Seq(Nat), Len(inputs) \in Nat, Tried \in Nat, total \in Nat,
         Tried + Len(inputs) = total, \A i \in DOMAIN inputs : inputs[i] = Tried + i
  PROVE  ToSet(inputs) = (Tried + 1)..total
<1>1. DOMAIN inputs = 1..Len(inputs)
  OBVIOUS
<1>2. ASSUME NEW i \in DOMAIN inputs PROVE inputs[i] \in (Tried + 1)..total
  BY <1>1
<1>3. ASSUME NEW y \in (Tried + 1)..total PROVE y \in ToSet(inputs)
  <2>1. y - Tried \in 1..Len(inputs) /\ Tried + (y - Tried) = y
    OBVIOUS
  <2>2. inputs[y - Tried] = y /\ y - Tried \in DOMAIN inputs
    BY <1>1, <2>1
  <2> QED
    BY <2>2 DEF ToSet
<1> QED
  BY <1>2, <1>3 DEF ToSet

\* handleFailed: what was not tried is put behind what failed.
LEMMA DrainKeeps ==
  ASSUME FetchInv, Drain
  PROVE  FetchInv'
<1>1. /\ pc = "drain" /\ failed' = failed \o inputs /\ inputs' = <<>>
      /\ success' = total - Len(failed') /\ mode' = mode /\ total' = total
      /\ saved' = saved /\ rows' = rows
      /\ pc' = IF failed' = <<>> \/ mode = "dir" THEN "done" ELSE "list"
  BY DEF Drain
<1>2. /\ inputs \in Seq(Nat) /\ failed \in Seq(Nat) /\ saved \in Seq(Nat) /\ rows \in Seq(Nat)
      /\ Len(inputs) \in Nat /\ Len(failed) \in Nat /\ Len(saved) \in Nat
      /\ Tried \in Nat /\ total \in Nat /\ rows = <<>> /\ Len(rows) = 0
      /\ Tried + Len(inputs) = total
      /\ \A i \in DOMAIN inputs : inputs[i] = Tried + i
      /\ ToSet(saved) \cup ToSet(rows) \cup ToSet(failed) = 1..Tried
      /\ ToSet(saved) \cap (ToSet(rows) \cup ToSet(failed)) = {}
      /\ Ascending(failed)
  BY <1>1, QueueFacts DEF TriedInOrder, Phases
<1>3. ToSet(inputs) = (Tried + 1)..total
  BY <1>2, QueuedSet
<1>4. Ascending(inputs)
  <2> SUFFICES ASSUME NEW i \in DOMAIN inputs, NEW j \in DOMAIN inputs, i < j
               PROVE  inputs[i] < inputs[j]
    BY DEF Ascending
  <2>1. i \in Nat /\ j \in Nat /\ inputs[i] = Tried + i /\ inputs[j] = Tried + j
    BY <1>2
  <2> QED
    BY <1>2, <2>1
<1>5. \A x \in ToSet(failed), y \in ToSet(inputs) : x < y
  BY <1>2, <1>3
<1> DEFINE all == failed \o inputs
<1>6. /\ all \in Seq(Nat) /\ Len(all) = Len(failed) + Len(inputs)
      /\ ToSet(all) = ToSet(failed) \cup ToSet(inputs) /\ Ascending(all)
  BY <1>2, <1>4, <1>5, Drained
<1>7. failed' = all
  BY <1>1
<1> HIDE DEF all
<1>8. Len(inputs') = 0 /\ DOMAIN inputs' = {} /\ inputs' \in Seq(Nat) /\ DOMAIN rows' = {}
  BY <1>1, <1>2
<1>9. Tried' = total /\ Len(saved) = total - Len(all)
  <2>1. Len(saved') = Len(saved) /\ Len(rows') = 0 /\ Len(failed') = Len(failed) + Len(inputs)
    BY <1>1, <1>2, <1>6, <1>7
  <2>2. (Len(saved) + 0 + Len(failed)) + Len(inputs) = total
    BY <1>2 DEF Tried
  <2>3. Tried' = Len(saved) + 0 + (Len(failed) + Len(inputs))
    BY <2>1 DEF Tried
  <2> QED
    BY <1>2, <1>6, <2>2, <2>3
<1>10. /\ ToSet(saved') \cup ToSet(rows') \cup ToSet(failed') = 1..Tried'
       /\ ToSet(saved') \cap (ToSet(rows') \cup ToSet(failed')) = {}
  <2>1. 1..total = (1..Tried) \cup ((Tried + 1)..total) /\ (1..Tried) \cap ((Tried + 1)..total) = {}
    BY <1>2
  <2> QED
    BY <1>1, <1>2, <1>3, <1>6, <1>7, <1>9, <2>1
<1>11. Ascending(rows)' /\ Ascending(failed)'
  BY <1>6, <1>7, <1>8 DEF Ascending
<1>12. TriedInOrder'
  <2>1. Tried' + Len(inputs') = total'
    BY <1>1, <1>2, <1>8, <1>9
  <2> QED
    BY <1>8, <1>10, <1>11, <2>1 DEF TriedInOrder
<1>13. pc' \in {"done", "list"} /\ (pc' = "done" /\ mode' # "dir" => failed' = <<>>)
  BY <1>1
<1>14. FetchTypeOK'
  BY <1>1, <1>2, <1>6, <1>7, <1>8, <1>13 DEF FetchInv, FetchTypeOK
<1>15. success' = Len(saved')
  BY <1>1, <1>7, <1>9
<1>16. Phases'
  BY <1>1, <1>13, <1>15 DEF Phases
<1> QED
  BY <1>12, <1>14, <1>16 DEF FetchInv

\* One failed input is written to the file.
LEMMA RowKeeps ==
  ASSUME FetchInv, Row
  PROVE  FetchInv'
<1> DEFINE x == Head(failed)
<1>1. /\ pc = "list" /\ failed # <<>> /\ rows' = Append(rows, x) /\ failed' = Tail(failed)
      /\ pc' = pc /\ mode' = mode /\ total' = total /\ inputs' = inputs /\ saved' = saved
      /\ success' = success
  BY DEF Row
<1>2. /\ inputs \in Seq(Nat) /\ failed \in Seq(Nat) /\ saved \in Seq(Nat) /\ rows \in Seq(Nat)
      /\ Len(inputs) \in Nat /\ Len(failed) \in Nat /\ Len(saved) \in Nat /\ Len(rows) \in Nat
      /\ Tried \in Nat /\ TriedInOrder /\ Phases
  BY QueueFacts
<1>3. /\ Tail(failed) \in Seq(Nat) /\ Len(Tail(failed)) = Len(failed) - 1 /\ Len(failed) > 0
      /\ x = failed[1] /\ x \in Nat
      /\ \A i \in 1..(Len(failed) - 1) : Tail(failed)[i] = failed[i + 1]
      /\ ToSet(failed) = ToSet(Tail(failed)) \cup {x}
      /\ Ascending(failed) => Ascending(Tail(failed))
  BY <1>1, <1>2, Popped
<1>4. /\ Ascending(rows) /\ Ascending(failed)
      /\ \A i \in DOMAIN rows, j \in DOMAIN failed : rows[i] < failed[j]
      /\ DOMAIN failed = 1..Len(failed)
  BY <1>2 DEF TriedInOrder
<1> HIDE DEF x
<1>5. \A y \in ToSet(rows) : y < x
  <2>1. 1 \in DOMAIN failed
    BY <1>2, <1>3, <1>4
  <2>2. \A i \in DOMAIN rows : rows[i] < x
    BY <1>3, <1>4, <2>1
  <2> QED
    BY <2>2 DEF ToSet
<1>6. /\ Append(rows, x) \in Seq(Nat) /\ Len(Append(rows, x)) = Len(rows) + 1
      /\ ToSet(Append(rows, x)) = ToSet(rows) \cup {x} /\ Ascending(Append(rows, x))
  BY <1>2, <1>3, <1>4, <1>5, Pushed
<1>7. Tried' = Tried
  <2>1. Len(saved') = Len(saved) /\ Len(rows') = Len(rows) + 1 /\ Len(failed') = Len(failed) - 1
    BY <1>1, <1>3, <1>6
  <2>2. Len(saved) + (Len(rows) + 1) + (Len(failed) - 1) = Len(saved) + Len(rows) + Len(failed)
    BY <1>2
  <2> QED
    BY <2>1, <2>2 DEF Tried
<1>8. ASSUME NEW i \in DOMAIN rows', NEW j \in DOMAIN failed' PROVE rows'[i] < failed'[j]
  <2>1. j \in 1..(Len(failed) - 1)
    BY <1>1, <1>3
  <2>2. j + 1 \in 1..Len(failed) /\ 1 \in 1..Len(failed) /\ 1 < j + 1
    BY <1>2, <2>1
  <2>3. failed'[j] = failed[j + 1] /\ j + 1 \in DOMAIN failed
    BY <1>1, <1>3, <1>4, <2>1, <2>2
  <2>4. x < failed[j + 1]
    BY <1>3, <1>4, <2>2 DEF Ascending
  <2>5. CASE i \in DOMAIN rows
    <3>1. rows'[i] = rows[i]
      BY <1>1, <1>2, <1>3, <2>5
    <3> QED
      BY <1>4, <2>3, <2>5, <3>1
  <2>6. CASE i \notin DOMAIN rows
    <3>1. rows'[i] = x
      BY <1>1, <1>2, <1>3, <2>6
    <3> QED
      BY <2>3, <2>4, <3>1
  <2> QED
    BY <2>5, <2>6
<1>9. /\ ToSet(saved') \cup ToSet(rows') \cup ToSet(failed') = 1..Tried'
      /\ ToSet(saved') \cap (ToSet(rows') \cup ToSet(failed')) = {}
  BY <1>1, <1>2, <1>3, <1>6, <1>7 DEF TriedInOrder
<1>10. Ascending(rows)' /\ Ascending(failed)'
  BY <1>1, <1>3, <1>4, <1>6 DEF Ascending
<1>11. TriedInOrder'
  <2>1. Tried' + Len(inputs') = total' /\ \A i \in DOMAIN inputs' : inputs'[i] = Tried' + i
    BY <1>1, <1>2, <1>7 DEF TriedInOrder
  <2> QED
    BY <1>8, <1>9, <1>10, <2>1 DEF TriedInOrder
<1>12. FetchTypeOK'
  BY <1>1, <1>2, <1>3, <1>6 DEF FetchInv, FetchTypeOK
<1>13. Phases'
  BY <1>1, <1>2 DEF Phases
<1> QED
  BY <1>11, <1>12, <1>13 DEF FetchInv

\* One step of the application, or the error that ends the command before it.
LEMMA FetchStep ==
  ASSUME FetchInv,
         \/ \E n \in Nat : NewApp(n)
         \/ Run \/ Cancel
         \/ pc' = "error" /\ UNCHANGED queues /\ mode' = mode
         \/ UNCHANGED vars
  PROVE  FetchInv'
<1>1. CASE \E n \in Nat : NewApp(n)
  BY <1>1, InputsQueued
<1>2. CASE Drain \/ Row
  BY <1>2, DrainKeeps, RowKeeps
<1>3. CASE Found \/ Unwritable \/ NotFound
  <2>1. /\ pc = "search" /\ inputs # <<>> /\ rows = <<>>
        /\ pc' \in {"timer", "backoff"} /\ mode' = mode /\ total' = total
        /\ inputs' = Tail(inputs) /\ rows' = rows
        /\ \/ saved' = Append(saved, Head(inputs)) /\ failed' = failed
           \/ failed' = Append(failed, Head(inputs)) /\ saved' = saved
    BY <1>3, QueueFacts DEF Found, Unwritable, NotFound, Phases
  <2>2. TriedInOrder' /\ \A queue \in {inputs', failed', saved', rows'} : queue \in Seq(Nat)
    BY <2>1, InputTaken
  <2>3. FetchTypeOK'
    BY <2>1, <2>2 DEF FetchInv, FetchTypeOK
  <2>4. Phases'
    BY <2>1 DEF Phases
  <2> QED
    BY <2>2, <2>3, <2>4 DEF FetchInv
<1>4. CASE \/ Search \/ LoopEnds \/ Waited \/ ListEnds \/ ListFails \/ Cancel
           \/ pc' = "error" /\ UNCHANGED queues /\ mode' = mode
           \/ UNCHANGED vars
  <2>1. UNCHANGED queues /\ mode' = mode
    BY <1>4 DEF Search, LoopEnds, Waited, ListEnds, ListFails, Cancel, queues, vars
  <2>2. TriedInOrder' /\ \A queue \in {inputs', failed', saved', rows'} : queue \in Seq(Nat)
    BY <2>1, QueuesStay
  <2>3. \/ pc' = "error"
        \/ success' = success /\ \/ pc' = pc
                                 \/ pc' = "search" /\ inputs # <<>> /\ pc = "loop"
                                 \/ pc' = "drain" /\ pc = "loop"
                                 \/ pc' = "loop" /\ pc \in {"timer", "backoff"}
                                 \/ pc' = "done" /\ pc = "list" /\ failed = <<>>
    BY <1>4 DEF Search, LoopEnds, Waited, ListEnds, ListFails, Cancel, vars
  <2>4. Phases'
    BY <2>1, <2>3, QueueFacts DEF Phases, queues
  <2>5. FetchTypeOK'
    BY <2>1, <2>2, <2>3 DEF FetchInv, FetchTypeOK, queues
  <2> QED
    BY <2>2, <2>4, <2>5 DEF FetchInv
<1> QED
  BY <1>1, <1>2, <1>3, <1>4 DEF Run

-----------------------------------------------------------------------------
(* The directory tree.                                                     *)

\* Less than on the naturals, as a relation for WFMin.
LEMMA LessIsWellFounded ==
  \E R : IsWellFoundedOn(R, Nat) /\ \A x, y \in Nat : y < x => <<y, x>> \in R
<1> DEFINE R == OpToRel(<, Nat)
<1>1. \A x, y \in Nat : y < x => <<y, x>> \in R
  BY Zenon DEF OpToRel
<1>2. IsWellFoundedOn(R, Nat)
  BY NatLessThanWellFounded, Zenon
<1> HIDE DEF R
<1> QED
  BY <1>1, <1>2

\* Induction as it is used below: a set of numbers has a least one.
LEMMA LeastNat ==
  ASSUME NEW T, T \subseteq Nat, T # {}
  PROVE  \E x \in T : \A y \in T : x <= y
<1>1. PICK R : IsWellFoundedOn(R, Nat) /\ \A x, y \in Nat : y < x => <<y, x>> \in R
  BY LessIsWellFounded
<1>2. \E x \in T : \A y \in T : ~(<<y, x>> \in R)
  BY <1>1, WFMin
<1>3. \A x, y \in T : ~(y < x) => x <= y
  OBVIOUS
<1> QED
  BY <1>1, <1>2, <1>3

\* A directory entry lies in the directory that lists it.
LEMMA EntryOf ==
  ASSUME NEW d \in Dirs
  PROVE  /\ \A e \in ToSet(Subdirs[d]) : e \in Dirs \ {Root} /\ Parent(e) = d /\ e \notin Files
         /\ \A f \in ToSet(Tracks[d]) : f \in Files /\ DirOf(f) = d /\ f \notin Dirs
<1>1. Subdirs[d] \in Seq(Dirs) /\ Tracks[d] \in Seq(Files)
  BY ScannerAssumption
<1>2. ToSet(Subdirs[d]) \subseteq Dirs /\ ToSet(Tracks[d]) \subseteq Files
  BY <1>1 DEF ToSet
<1>3. \A e \in ToSet(Subdirs[d]) : Parent(e) = d
  BY ScannerAssumption DEF Parent
<1>4. \A f \in ToSet(Tracks[d]) : DirOf(f) = d
  BY ScannerAssumption DEF DirOf
<1> QED
  BY <1>2, <1>3, <1>4, ScannerAssumption

\* Every directory but the root, and every file, lies in a directory.
LEMMA LiesIn ==
  /\ \A d \in Dirs \ {Root} : Parent(d) \in Dirs /\ d \in ToSet(Subdirs[Parent(d)])
  /\ \A f \in Files : DirOf(f) \in Dirs /\ f \in ToSet(Tracks[DirOf(f)])
<1>1. \A d \in Dirs \ {Root} : Parent(d) \in Dirs /\ d \in ToSet(Subdirs[Parent(d)])
  BY ScannerAssumption DEF Parent
<1>2. \A f \in Files : \E d \in Dirs : f \in ToSet(Tracks[d])
  BY DEF Files
<1> QED
  BY <1>1, <1>2 DEF DirOf

\* Going up the tree ends.
LEMMA Levels ==
  \E N \in Nat : \E level \in [Dirs -> Nat] :
    /\ \A d \in Dirs : level[d] < N
    /\ \A d \in Dirs \ {Root} : level[Parent(d)] < level[d]
<1>1. PICK level \in [Dirs -> 0..Cardinality(Dirs)] :
        \A d \in Dirs : \A e \in ToSet(Subdirs[d]) : level[d] < level[e]
  BY ScannerAssumption
<1>2. Cardinality(Dirs) \in Nat
  BY ScannerAssumption, FS_CardinalityType
<1>3. /\ level \in [Dirs -> Nat] /\ Cardinality(Dirs) + 1 \in Nat
      /\ \A d \in Dirs : level[d] < Cardinality(Dirs) + 1
  BY <1>1, <1>2
<1>4. \A d \in Dirs \ {Root} : level[Parent(d)] < level[d]
  BY <1>1, LiesIn
<1> QED
  BY <1>3, <1>4

\* The recursion of PathTo is well founded, so that its equation holds.
LEMMA PathUnfolds ==
  PathTo = [d \in Dirs |-> IF d = Root THEN <<Root>> ELSE Append(PathTo[Parent(d)], d)]
<1>1. PICK N \in Nat, level \in [Dirs -> Nat] :
        /\ \A d \in Dirs : level[d] < N
        /\ \A d \in Dirs \ {Root} : level[Parent(d)] < level[d]
  BY Levels
<1> DEFINE D(n) == {d \in Dirs : level[d] < n}
           Eq(g, n) == g = [d \in D(n) |-> IF d = Root THEN <<Root>>
                                           ELSE Append(g[Parent(d)], d)]
           Bad == {n \in Nat : ~ \E g : Eq(g, n)}
<1>2. Bad = {}
  <2> SUFFICES ASSUME Bad # {} PROVE FALSE
    OBVIOUS
  <2>1. PICK n \in Bad : \A m \in Bad : n <= m
    <3> HIDE DEF Eq
    <3> QED
      BY LeastNat
  <2>2. n # 0
    <3> DEFINE g == [d \in {} |-> <<Root>>]
    <3>1. D(0) = {}
      BY <1>1
    <3>2. Eq(g, 0)
      BY <3>1
    <3> QED
      BY <2>1, <3>2
  <2>3. n \in Nat /\ n - 1 \in Nat /\ n - 1 \notin Bad
    <3>1. n \in Nat /\ n - 1 \in Nat /\ ~(n <= n - 1)
      BY <2>1, <2>2
    <3> HIDE DEF Bad
    <3> QED
      BY <2>1, <3>1
  <2>4. PICK g : Eq(g, n - 1)
    BY <2>3
  <2> DEFINE h == [d \in D(n) |-> IF d = Root THEN <<Root>> ELSE Append(g[Parent(d)], d)]
  <2>5. \A d \in D(n) \ {Root} : Parent(d) \in D(n - 1) /\ Parent(d) \in D(n)
    BY <1>1, <2>1, <2>3, LiesIn
  <2>6. \A d \in D(n - 1) : d \in D(n)
    BY <1>1, <2>1, <2>3
  <2>7. \A d \in D(n - 1) : h[d] = g[d]
    BY <2>4, <2>6
  <2>8. \A d \in D(n) : h[d] = IF d = Root THEN <<Root>> ELSE Append(h[Parent(d)], d)
    BY <2>5, <2>7
  <2>9. Eq(h, n)
    <3> HIDE DEF D
    <3>1. h = [d \in D(n) |-> h[d]]
      OBVIOUS
    <3> HIDE DEF h
    <3> QED
      BY <2>8, <3>1
  <2> QED
    BY <2>1, <2>9
<1>3. PICK g : Eq(g, N)
  BY <1>1, <1>2
<1>4. D(N) = Dirs
  BY <1>1
<1>5. g = [d \in Dirs |-> IF d = Root THEN <<Root>> ELSE Append(g[Parent(d)], d)]
  BY <1>3, <1>4
<1> QED
  BY <1>5 DEF PathTo

\* A path leads from the root to its directory, and its beginnings are the paths to the
\* directories on it.
LEMMA PathFacts ==
  \A d \in Dirs :
    /\ PathTo[d] \in Seq(Dirs) /\ Len(PathTo[d]) > 0
    /\ PathTo[d][1] = Root /\ PathTo[d][Len(PathTo[d])] = d
    /\ \A i \in 1..Len(PathTo[d]) : PathTo[PathTo[d][i]] = SubSeq(PathTo[d], 1, i)
<1>1. PICK N \in Nat, level \in [Dirs -> Nat] :
        /\ \A d \in Dirs : level[d] < N
        /\ \A d \in Dirs \ {Root} : level[Parent(d)] < level[d]
  BY Levels
<1> DEFINE
  Good(d) ==
    /\ PathTo[d] \in Seq(Dirs) /\ Len(PathTo[d]) > 0
    /\ PathTo[d][1] = Root /\ PathTo[d][Len(PathTo[d])] = d
    /\ \A i \in 1..Len(PathTo[d]) : PathTo[PathTo[d][i]] = SubSeq(PathTo[d], 1, i)
  Bad == {d \in Dirs : ~Good(d)}
<1>2. Bad = {}
  <2> SUFFICES ASSUME Bad # {} PROVE FALSE
    OBVIOUS
  <2> DEFINE T == {level[d] : d \in Bad}
  <2> HIDE DEF Good
  <2>1. T \subseteq Nat /\ T # {}
    BY <1>1
  <2>2. PICK n \in T : \A m \in T : n <= m
    BY <2>1, LeastNat
  <2>3. PICK d \in Bad : level[d] = n
    BY <2>2
  <2>4. \A e \in Dirs : level[e] < level[d] => Good(e)
    <3>1. ASSUME NEW e \in Dirs, level[e] < level[d], ~Good(e) PROVE FALSE
      <4>1. level[e] \in T /\ level[e] \in Nat /\ level[d] \in Nat
        BY <1>1, <3>1
      <4>2. n <= level[e]
        BY <2>2, <4>1
      <4> QED
        BY <2>3, <3>1, <4>1, <4>2
    <3> QED
      BY <3>1
  <2>5. CASE d = Root
    <3>1. PathTo[d] = <<Root>> /\ Root \in Dirs
      BY <2>5, PathUnfolds, ScannerAssumption
    <3> DEFINE p == <<Root>>
    <3>2. p \in Seq(Dirs) /\ Len(p) = 1 /\ p[1] = Root /\ PathTo[Root] = p
      BY <2>5, <3>1
    <3> HIDE DEF p
    <3>3. SubSeq(p, 1, 1) = p
      BY <3>2
    <3>4. \A i \in 1..Len(p) : PathTo[p[i]] = SubSeq(p, 1, i)
      <4>1. \A i \in 1..Len(p) : i = 1
        BY <3>2
      <4> QED
        BY <3>2, <3>3, <4>1
    <3>5. p \in Seq(Dirs) /\ Len(p) > 0 /\ p[1] = Root /\ p[Len(p)] = Root
      BY <3>2
    <3>6. Good(Root)
      BY <3>2, <3>4, <3>5, Zenon DEF Good
    <3> QED
      BY <2>3, <2>5, <3>6
  <2>6. CASE d # Root
    <3> DEFINE p == PathTo[Parent(d)]
    <3>1. Parent(d) \in Dirs /\ Good(Parent(d))
      BY <1>1, <2>4, <2>6, LiesIn
    <3>2. PathTo[d] = Append(p, d) /\ d \in Dirs
      BY <2>6, PathUnfolds
    <3>3. p \in Seq(Dirs) /\ Len(p) \in Nat /\ p[1] = Root /\ 1 \in 1..Len(p)
      BY <3>1 DEF Good
    <3>4. \A i \in 1..Len(p) : PathTo[p[i]] = SubSeq(p, 1, i)
      BY <3>1 DEF Good
    <3> DEFINE q == PathTo[d]
    <3> HIDE DEF p, q
    <3>5. /\ q \in Seq(Dirs) /\ Len(q) = Len(p) + 1 /\ q[Len(p) + 1] = d
          /\ \A i \in 1..Len(p) : q[i] = p[i]
      BY <3>2, <3>3 DEF q
    <3>6. \A i \in 1..Len(p) : SubSeq(q, 1, i) = SubSeq(p, 1, i)
      BY <3>3, <3>5
    <3>7. SubSeq(q, 1, Len(p) + 1) = q
      BY <3>3, <3>5
    <3>8. ASSUME NEW i \in 1..Len(q) PROVE PathTo[q[i]] = SubSeq(q, 1, i)
      <4>1. i \in 1..Len(p) \/ i = Len(p) + 1
        BY <3>3, <3>5
      <4> QED
        BY <4>1, <3>4, <3>5, <3>6, <3>7 DEF q
    <3>9. Good(d)
      BY <3>3, <3>5, <3>8 DEF Good, q
    <3> QED
      BY <3>9
  <2> QED
    BY <2>5, <2>6
<1> QED
  BY <1>2

\* A directory is on its own path, and its depth is its place on any path.
LEMMA OnPathFacts ==
  ASSUME NEW e \in Dirs
  PROVE  /\ OnPath(e, e) /\ Len(PathTo[e]) \in Nat
         /\ \A d : OnPath(d, e) => /\ d \in Dirs /\ Len(PathTo[d]) <= Len(PathTo[e])
                                   /\ Len(PathTo[d]) \in 1..Len(PathTo[e])
                                   /\ PathTo[e][Len(PathTo[d])] = d
<1> DEFINE p == PathTo[e]
<1>1. /\ p \in Seq(Dirs) /\ Len(p) > 0 /\ p[Len(p)] = e /\ Len(p) \in Nat
      /\ \A i \in 1..Len(p) : PathTo[p[i]] = SubSeq(p, 1, i)
  BY PathFacts
<1> HIDE DEF p
<1>2. e \in ToSet(p)
  BY <1>1 DEF ToSet
<1>3. ASSUME NEW d \in ToSet(p)
      PROVE  /\ d \in Dirs /\ Len(PathTo[d]) <= Len(p) /\ Len(PathTo[d]) \in 1..Len(p)
             /\ p[Len(PathTo[d])] = d
  <2>1. PICK i \in 1..Len(p) : d = p[i]
    BY <1>1 DEF ToSet
  <2>2. Len(PathTo[d]) = i
    BY <1>1, <2>1
  <2> QED
    BY <1>1, <2>1, <2>2
<1> QED
  BY <1>1, <1>2, <1>3 DEF OnPath, p

\* The path to a subdirectory is one longer.
LEMMA PathDown ==
  ASSUME NEW d \in Dirs, NEW c \in ToSet(Subdirs[d])
  PROVE  PathTo[c] = Append(PathTo[d], c) /\ Len(PathTo[c]) = Len(PathTo[d]) + 1
<1>1. c \in Dirs /\ c # Root /\ Parent(c) = d
  BY EntryOf
<1>2. PathTo[c] = Append(PathTo[d], c)
  BY <1>1, PathUnfolds
<1>3. PathTo[d] \in Seq(Dirs)
  BY PathFacts
<1> QED
  BY <1>1, <1>2, <1>3

\* What lies below d lies in d or in or below one of its subdirectories.
LEMMA Below ==
  ASSUME NEW d \in Dirs, NEW e \in Dirs
  PROVE  OnPath(d, e) <=> d = e \/ \E c \in ToSet(Subdirs[d]) : OnPath(c, e)
<1> DEFINE p == PathTo[e]
           k == Len(PathTo[d])
<1>1. /\ p \in Seq(Dirs) /\ Len(p) > 0 /\ p[Len(p)] = e /\ Len(p) \in Nat
      /\ \A i \in 1..Len(p) : PathTo[p[i]] = SubSeq(p, 1, i)
  BY PathFacts
<1>2. ASSUME OnPath(d, e), d # e PROVE \E c \in ToSet(Subdirs[d]) : OnPath(c, e)
  <2>1. k \in 1..Len(p) /\ p[k] = d
    BY <1>2, OnPathFacts
  <2> HIDE DEF p, k
  <2>2. k + 1 \in 1..Len(p) /\ k \in Nat
    BY <1>1, <1>2, <2>1
  <2> DEFINE c == p[k + 1]
  <2>3. c \in Dirs /\ Len(PathTo[c]) = k + 1 /\ PathTo[c][k] = d /\ c \in ToSet(p)
    BY <1>1, <2>1, <2>2 DEF ToSet
  <2> HIDE DEF c
  <2>4. c # Root
    <3>1. PathTo[Root] = <<Root>> /\ Len(<<Root>>) = 1
      BY PathUnfolds, ScannerAssumption
    <3> QED
      BY <2>1, <2>3, <3>1
  <2>5. c \in ToSet(Subdirs[Parent(c)]) /\ Parent(c) \in Dirs
    BY <2>3, <2>4, LiesIn
  <2>6. PathTo[c] = Append(PathTo[Parent(c)], c) /\ Len(PathTo[c]) = Len(PathTo[Parent(c)]) + 1
    BY <2>5, PathDown
  <2>7. /\ PathTo[Parent(c)] \in Seq(Dirs) /\ Len(PathTo[Parent(c)]) \in Nat
        /\ PathTo[Parent(c)][Len(PathTo[Parent(c)])] = Parent(c)
    BY <2>5, PathFacts
  <2>8. Len(PathTo[Parent(c)]) = k /\ Parent(c) = d
    BY <2>1, <2>2, <2>3, <2>6, <2>7
  <2> QED
    BY <2>3, <2>5, <2>8 DEF OnPath, p
<1>3. ASSUME NEW c \in ToSet(Subdirs[d]), OnPath(c, e) PROVE OnPath(d, e)
  <2> DEFINE j == Len(PathTo[c])
  <2>1. j \in 1..Len(p) /\ p[j] = c /\ j = k + 1 /\ PathTo[c] = Append(PathTo[d], c)
    BY <1>3, OnPathFacts, PathDown
  <2>2. PathTo[d] \in Seq(Dirs) /\ k \in Nat /\ k > 0 /\ PathTo[d][k] = d
    BY PathFacts
  <2>3. PathTo[c][k] = d
    BY <2>1, <2>2
  <2>4. PathTo[c] = SubSeq(p, 1, j)
    BY <1>1, <2>1
  <2> HIDE DEF p, j, k
  <2>5. p[k] = d /\ k \in 1..Len(p)
    BY <1>1, <2>1, <2>2, <2>3, <2>4
  <2> QED
    BY <1>1, <2>5 DEF OnPath, ToSet, p
<1>4. OnPath(e, e)
  BY OnPathFacts
<1> QED
  BY <1>2, <1>3, <1>4

-----------------------------------------------------------------------------
(* Listings of directories.                                                *)

\* Two lists without repetition and without a common element, joined.
LEMMA Joined ==
  ASSUME NEW A, NEW B, A \cap B = {}, NEW s \in Seq(A), NEW t \in Seq(B),
         IsInjective(s), IsInjective(t)
  PROVE  /\ s \o t \in Seq(A \cup B) /\ IsInjective(s \o t)
         /\ ToSet(s \o t) = ToSet(s) \cup ToSet(t)
         /\ \A i, j \in DOMAIN (s \o t) : (s \o t)[i] \in A /\ (s \o t)[j] \in B => i < j
<1> DEFINE u == s \o t
           m == Len(s)
           n == Len(t)
<1>0. m \in Nat /\ n \in Nat
  OBVIOUS
<1>1. /\ DOMAIN s = 1..m /\ m \in Nat /\ DOMAIN t = 1..n /\ n \in Nat
      /\ \A i \in 1..m : s[i] \in A
      /\ \A i \in 1..n : t[i] \in B
  OBVIOUS
<1>2. s \in Seq(A \cup B) /\ t \in Seq(A \cup B)
  OBVIOUS
<1>3. /\ u \in Seq(A \cup B) /\ Len(u) = m + n /\ DOMAIN u = 1..(m + n)
      /\ \A i \in 1..(m + n) : u[i] = IF i <= m THEN s[i] ELSE t[i - m]
  BY <1>2
<1> HIDE DEF u, m, n
<1>4. \A i \in 1..(m + n) :
        /\ i <= m => i \in 1..m /\ u[i] = s[i] /\ u[i] \in A
        /\ ~(i <= m) => i - m \in 1..n /\ u[i] = t[i - m] /\ u[i] \in B
  BY <1>1, <1>3
<1>5. /\ \A i, j \in 1..m : s[i] = s[j] => i = j
      /\ \A i, j \in 1..n : t[i] = t[j] => i = j
      /\ \A x \in A : x \notin B
  BY <1>1 DEF IsInjective
<1>6. ASSUME NEW i \in 1..(m + n), NEW j \in 1..(m + n), u[i] = u[j] PROVE i = j
  <2>1. i \in Int /\ j \in Int /\ m \in Int
    BY <1>1
  <2>2. CASE i <= m
    <3>1. i \in 1..m /\ u[i] = s[i] /\ u[i] \in A
      BY <1>0, <1>4, <2>2
    <3>2. j <= m
      BY <1>0, <1>4, <1>5, <1>6, <3>1
    <3>3. j \in 1..m /\ u[j] = s[j]
      BY <1>0, <1>4, <3>2
    <3> QED
      BY <1>0, <1>5, <1>6, <3>1, <3>3
  <2>3. CASE ~(i <= m)
    <3>1. i - m \in 1..n /\ u[i] = t[i - m] /\ u[i] \in B
      BY <1>0, <1>4, <2>3
    <3>2. ~(j <= m)
      BY <1>0, <1>4, <1>5, <1>6, <3>1
    <3>3. j - m \in 1..n /\ u[j] = t[j - m]
      BY <1>0, <1>4, <3>2
    <3>4. i - m = j - m
      BY <1>0, <1>5, <1>6, <3>1, <3>3
    <3> QED
      BY <2>1, <3>4
  <2> QED
    BY <2>2, <2>3
<1>8. ASSUME NEW i \in 1..(m + n), NEW j \in 1..(m + n), u[i] \in A, u[j] \in B
      PROVE  i < j
  <2>1. i <= m
    BY <1>0, <1>4, <1>5, <1>8
  <2>2. ~(j <= m)
    BY <1>0, <1>4, <1>5, <1>8
  <2> QED
    BY <1>0, <2>1, <2>2
<1>7. ToSet(u) = ToSet(s) \cup ToSet(t)
  <2>1. \A x \in ToSet(u) : x \in ToSet(s) \cup ToSet(t)
    BY <1>1, <1>3, <1>4 DEF ToSet
  <2>2. \A x \in ToSet(s) : x \in ToSet(u)
    BY <1>1, <1>3 DEF ToSet
  <2>3. ASSUME NEW i \in 1..n PROVE t[i] \in ToSet(u)
    <3>1. i + m \in 1..(m + n) /\ u[i + m] = t[i]
      BY <1>1, <1>3
    <3> QED
      BY <1>3, <3>1 DEF ToSet
  <2> QED
    BY <1>1, <2>1, <2>2, <2>3 DEF ToSet
<1>9. IsInjective(u)
  BY <1>3, <1>6 DEF IsInjective
<1>10. \A i, j \in DOMAIN u : u[i] \in A /\ u[j] \in B => i < j
  BY <1>3, <1>8
<1> QED
  BY <1>3, <1>7, <1>9, <1>10 DEF u

\* ReadDir and the sort: every entry once, the directories together.
LEMMA Listings ==
  ASSUME NEW d \in Dirs
  PROVE  /\ Listing(d) \in Seq(Dirs \cup Files) /\ IsInjective(Listing(d))
         /\ ToSet(Listing(d)) = ToSet(Subdirs[d]) \cup ToSet(Tracks[d])
         /\ \A i, j \in DOMAIN Listing(d) :
              Listing(d)[i] \in Dirs /\ Listing(d)[j] \in Files
                => IF options.bfs THEN j < i ELSE i < j
<1>1. /\ Subdirs[d] \in Seq(Dirs) /\ Tracks[d] \in Seq(Files)
      /\ IsInjective(Subdirs[d]) /\ IsInjective(Tracks[d])
      /\ Dirs \cap Files = {} /\ Files \cap Dirs = {} /\ Files \cup Dirs = Dirs \cup Files
  BY ScannerAssumption
<1> DEFINE s == Subdirs[d]
           t == Tracks[d]
<1>2. /\ s \o t \in Seq(Dirs \cup Files) /\ IsInjective(s \o t)
      /\ ToSet(s \o t) = ToSet(s) \cup ToSet(t)
      /\ \A i, j \in DOMAIN (s \o t) : (s \o t)[i] \in Dirs /\ (s \o t)[j] \in Files => i < j
  BY <1>1, Joined
<1>3. /\ t \o s \in Seq(Files \cup Dirs) /\ IsInjective(t \o s)
      /\ ToSet(t \o s) = ToSet(t) \cup ToSet(s)
      /\ \A i, j \in DOMAIN (t \o s) : (t \o s)[i] \in Files /\ (t \o s)[j] \in Dirs => i < j
  BY <1>1, Joined
<1>4. Listing(d) = IF options.bfs THEN t \o s ELSE s \o t
  BY DEF Listing
<1> DEFINE u == s \o t
           v == t \o s
<1> HIDE DEF u, v
<1>5. (Listing(d) = v /\ options.bfs) \/ (Listing(d) = u /\ ~options.bfs)
  BY <1>4 DEF u, v
<1>6. /\ u \in Seq(Dirs \cup Files) /\ IsInjective(u) /\ ToSet(u) = ToSet(s) \cup ToSet(t)
      /\ \A i, j \in DOMAIN u : u[i] \in Dirs /\ u[j] \in Files => i < j
  BY <1>2 DEF u
<1>7. /\ v \in Seq(Dirs \cup Files) /\ IsInjective(v) /\ ToSet(v) = ToSet(s) \cup ToSet(t)
      /\ \A i, j \in DOMAIN v : v[i] \in Files /\ v[j] \in Dirs => i < j
  BY <1>1, <1>3 DEF v
<1>8. CASE Listing(d) = v /\ options.bfs
  <2>1. \A i, j \in DOMAIN v : v[i] \in Dirs /\ v[j] \in Files => j < i
    BY <1>7
  <2> QED
    BY <1>7, <1>8, <2>1
<1>9. CASE Listing(d) = u /\ ~options.bfs
  BY <1>6, <1>9
<1> QED
  BY <1>5, <1>8, <1>9

\* The listing of a directory leads to the files in it and below it.
LEMMA Covers ==
  ASSUME NEW d \in Dirs, NEW f \in Files
  PROVE  Ahead(Listing(d), f) <=> OnPath(d, DirOf(f))
<1>1. ToSet(Listing(d)) = ToSet(Subdirs[d]) \cup ToSet(Tracks[d])
  BY Listings
<1>2. DirOf(f) \in Dirs /\ f \in ToSet(Tracks[DirOf(f)]) /\ f \notin Dirs
  BY LiesIn, ScannerAssumption
<1>3. f \in ToSet(Listing(d)) <=> d = DirOf(f)
  BY <1>1, <1>2, EntryOf
<1>4. \A e \in ToSet(Listing(d)) : OnPath(e, DirOf(f)) => e \in ToSet(Subdirs[d])
  BY <1>1, <1>2, EntryOf, OnPathFacts
<1>5. OnPath(d, DirOf(f))
        <=> d = DirOf(f) \/ \E c \in ToSet(Subdirs[d]) : OnPath(c, DirOf(f))
  BY <1>2, Below
<1> QED
  BY <1>1, <1>3, <1>4, <1>5 DEF Ahead

\* Taking an entry.
LEMMA HeadAndTail ==
  ASSUME NEW S, NEW s \in Seq(S), s # <<>>
  PROVE  /\ Head(s) = s[1] /\ Head(s) \in S /\ Tail(s) \in Seq(S) /\ Len(s) \in Nat
         /\ Len(s) > 0 /\ Len(Tail(s)) = Len(s) - 1
         /\ \A i \in 1..(Len(s) - 1) : Tail(s)[i] = s[i + 1]
         /\ ToSet(s) = {Head(s)} \cup ToSet(Tail(s))
<1> DEFINE t == Tail(s)
           n == Len(s)
<1>1. /\ Head(s) = s[1] /\ Head(s) \in S /\ t \in Seq(S) /\ n \in Nat
      /\ n > 0 /\ Len(t) = n - 1 /\ DOMAIN t = 1..(n - 1) /\ DOMAIN s = 1..n
      /\ \A i \in 1..(n - 1) : t[i] = s[i + 1]
  OBVIOUS
<1> HIDE DEF t, n
<1>2. \A x \in ToSet(t) : x \in ToSet(s)
  <2> SUFFICES ASSUME NEW i \in 1..(n - 1) PROVE t[i] \in ToSet(s)
    BY <1>1 DEF ToSet
  <2>1. i + 1 \in 1..n /\ t[i] = s[i + 1]
    BY <1>1
  <2> QED
    BY <1>1, <2>1 DEF ToSet
<1>3. \A x \in ToSet(s) : x = s[1] \/ x \in ToSet(t)
  <2> SUFFICES ASSUME NEW i \in 1..n, i # 1 PROVE s[i] \in ToSet(t)
    BY <1>1 DEF ToSet
  <2>1. i - 1 \in 1..(n - 1) /\ t[i - 1] = s[i]
    BY <1>1
  <2> QED
    BY <1>1, <2>1 DEF ToSet
<1>4. s[1] \in ToSet(s)
  BY <1>1 DEF ToSet
<1> QED
  BY <1>1, <1>2, <1>3, <1>4 DEF t, n

LEMMA AheadSplits ==
  ASSUME NEW s \in Seq(Dirs \cup Files), s # <<>>, NEW f
  PROVE  Ahead(s, f) <=> Ahead(Tail(s), f) \/ f = Head(s) \/ OnPath(Head(s), DirOf(f))
<1>1. ToSet(s) = {Head(s)} \cup ToSet(Tail(s))
  BY HeadAndTail
<1> QED
  BY <1>1 DEF Ahead

-----------------------------------------------------------------------------
(* The calls of scanDir.                                                   *)

\* What the kth call has still to do is the end of its listing, none of it on
\* the path down to the innermost call.
LEMMA Calls ==
  ASSUME ScanTypeOK, StackIsPath, NEW k \in 1..Len(stack)
  PROVE  /\ Len(stack) \in Nat /\ stack[k].dir \in Dirs
         /\ stack[k] \in [dir: Dirs, rest: Seq(Dirs \cup Files)]
         /\ stack[k].rest \in Seq(Dirs \cup Files) /\ IsInjective(stack[k].rest)
         /\ ToSet(stack[k].rest) \subseteq ToSet(Listing(stack[k].dir))
         /\ Len(PathTo[stack[k].dir]) = k
         /\ \A i \in 1..k : PathTo[stack[k].dir][i] = stack[i].dir
         /\ Taken(k) \in Nat
         /\ Taken(k) + Len(stack[k].rest) = Len(Listing(stack[k].dir))
         /\ DOMAIN Listing(stack[k].dir) = 1..Len(Listing(stack[k].dir))
         /\ k < Len(stack) => stack[k + 1].dir \notin ToSet(stack[k].rest)
<1> DEFINE F == [dir: Dirs, rest: Seq(Dirs \cup Files)]
           r == stack[k].rest
           d == stack[k].dir
           L == Listing(d)
           a == Taken(k)
<1>1. stack \in Seq(F) /\ Len(stack) \in Nat
  BY DEF ScanTypeOK
<1>2. stack[k] \in F /\ k \in DOMAIN stack
  <2> HIDE DEF F
  <2> QED
    BY <1>1
<1>3. d \in Dirs /\ r \in Seq(Dirs \cup Files)
  BY <1>2
<1>4. L \in Seq(Dirs \cup Files) /\ IsInjective(L)
  BY <1>3, Listings
<1>5. /\ PathTo[d] = [i \in 1..k |-> stack[i].dir] /\ a >= 0
      /\ \A i \in DOMAIN r : r[i] = L[a + i]
      /\ k < Len(stack) => a > 0 /\ L[a] = stack[k + 1].dir
  BY <1>2 DEF StackIsPath
<1>6. a = Len(L) - Len(r)
  BY DEF Taken
<1>7. PathTo[d] \in Seq(Dirs) /\ DOMAIN PathTo[d] = 1..Len(PathTo[d]) /\ Len(PathTo[d]) \in Nat
  BY <1>3, PathFacts
<1>8. Len(PathTo[d]) = k /\ \A i \in 1..k : PathTo[d][i] = stack[i].dir
  <2>1. DOMAIN PathTo[d] = 1..k
    BY <1>5
  <2>2. k \in Nat
    BY <1>1
  <2> QED
    BY <1>5, <1>7, <2>1, <2>2
<1> HIDE DEF r, d, L, a
<1>9. /\ Len(L) \in Nat /\ Len(r) \in Nat /\ a \in Nat /\ a + Len(r) = Len(L)
      /\ DOMAIN r = 1..Len(r) /\ DOMAIN L = 1..Len(L)
  BY <1>3, <1>4, <1>5, <1>6
<1>10. \A i \in 1..Len(r) : a + i \in DOMAIN L /\ r[i] = L[a + i]
  BY <1>5, <1>9
<1>11. IsInjective(r)
  <2> SUFFICES ASSUME NEW i \in 1..Len(r), NEW j \in 1..Len(r), r[i] = r[j] PROVE i = j
    BY <1>9 DEF IsInjective
  <2>1. a + i = a + j
    BY <1>4, <1>10 DEF IsInjective
  <2> QED
    BY <1>9, <2>1
<1>12. ToSet(r) \subseteq ToSet(L)
  BY <1>9, <1>10 DEF ToSet
<1>13. ASSUME k < Len(stack) PROVE stack[k + 1].dir \notin ToSet(r)
  <2> SUFFICES ASSUME NEW i \in 1..Len(r), r[i] = L[a] PROVE FALSE
    BY <1>5, <1>9, <1>13 DEF ToSet
  <2>1. a > 0 /\ a \in DOMAIN L
    BY <1>5, <1>9, <1>13
  <2>2. a = a + i
    BY <1>4, <1>10, <2>1 DEF IsInjective
  <2> QED
    BY <1>9, <2>2
<1> QED
  BY <1>1, <1>2, <1>3, <1>8, <1>9, <1>11, <1>12, <1>13 DEF r, d, L, a

\* The entries still to come of the kth call, and where they lie.
LEMMA EntriesToCome ==
  ASSUME ScanTypeOK, StackIsPath, NEW k \in 1..Len(stack), NEW x \in ToSet(stack[k].rest)
  PROVE  /\ x \in Dirs => x \in ToSet(Subdirs[stack[k].dir]) /\ Len(PathTo[x]) = k + 1
         /\ x \in Files => DirOf(x) = stack[k].dir /\ x \notin Dirs
         /\ x \in Dirs \cup Files
<1>1. /\ stack[k].dir \in Dirs /\ Len(PathTo[stack[k].dir]) = k
      /\ x \in ToSet(Listing(stack[k].dir))
  BY Calls
<1>2. x \in ToSet(Subdirs[stack[k].dir]) \cup ToSet(Tracks[stack[k].dir])
  BY <1>1, Listings
<1> QED
  BY <1>1, <1>2, EntryOf, PathDown

\* The loop of the innermost scanDir takes its next entry.
LEMMA Taking ==
  ASSUME ScanTypeOK, StackIsPath, Walking, Top.rest # <<>>
  PROVE  /\ Len(stack) \in 1..Len(stack) /\ Len(stack) \in Nat
         /\ Entry \in ToSet(stack[Len(stack)].rest) /\ Entry \in Dirs \cup Files
         /\ Entry = Listing(stack[Len(stack)].dir)[Taken(Len(stack)) + 1]
         /\ Entry \notin ToSet(Tail(stack[Len(stack)].rest))
         /\ Advanced \in Seq([dir: Dirs, rest: Seq(Dirs \cup Files)])
         /\ Len(Advanced) = Len(stack) /\ DOMAIN Advanced = 1..Len(stack)
         /\ DOMAIN stack = 1..Len(stack)
         /\ \A k \in 1..Len(stack) :
              /\ Advanced[k].dir = stack[k].dir
              /\ Advanced[k].rest = IF k = Len(stack) THEN Tail(stack[k].rest)
                                    ELSE stack[k].rest
<1> DEFINE E == Dirs \cup Files
           F == [dir: Dirs, rest: Seq(E)]
           n == Len(stack)
           r == stack[n].rest
           top == [stack[n] EXCEPT !.rest = Tail(@)]
<1>1. stack \in Seq(F) /\ n \in Nat /\ n > 0 /\ n \in 1..n
  BY DEF ScanTypeOK, Walking
<1>2. /\ stack[n].dir \in Dirs /\ r \in Seq(E) /\ IsInjective(r)
      /\ stack[n] \in F
      /\ \A i \in DOMAIN r : r[i] = Listing(stack[n].dir)[Taken(n) + i]
  <2>1. n \in DOMAIN stack
    BY <1>1
  <2>2. \A i \in DOMAIN r : r[i] = Listing(stack[n].dir)[Taken(n) + i]
    BY <2>1 DEF StackIsPath
  <2> QED
    BY <1>1, <2>2, Calls
<1>3. r # <<>> /\ Entry = Head(r)
  BY DEF Top, Entry
<1> HIDE DEF E
<1>4. /\ Head(r) = r[1] /\ Head(r) \in E /\ Tail(r) \in Seq(E) /\ Len(r) \in Nat
      /\ Len(r) > 0 /\ Len(Tail(r)) = Len(r) - 1
      /\ \A i \in 1..(Len(r) - 1) : Tail(r)[i] = r[i + 1]
      /\ ToSet(r) = {Head(r)} \cup ToSet(Tail(r))
  <2> HIDE DEF r
  <2> QED
    BY <1>2, <1>3, HeadAndTail
<1>5. r[1] \notin ToSet(Tail(r))
  <2> SUFFICES ASSUME NEW i \in 1..(Len(r) - 1), Tail(r)[i] = r[1] PROVE FALSE
    <3>1. DOMAIN Tail(r) = 1..(Len(r) - 1)
      BY <1>4
    <3> QED
      BY <3>1 DEF ToSet
  <2>1. r[i + 1] = r[1] /\ i + 1 \in DOMAIN r /\ 1 \in DOMAIN r
    BY <1>2, <1>4
  <2>2. i + 1 = 1
    BY <1>2, <2>1 DEF IsInjective
  <2> QED
    BY <1>4, <2>2
<1>6. top \in F /\ top.dir = stack[n].dir /\ top.rest = Tail(r)
  <2> DEFINE x == stack[n]
             y == Tail(r)
  <2>1. x \in F /\ y \in Seq(E)
    BY <1>2, <1>4
  <2> HIDE DEF x, y
  <2>2. /\ [x EXCEPT !.rest = y] \in F
        /\ [x EXCEPT !.rest = y].dir = x.dir /\ [x EXCEPT !.rest = y].rest = y
    BY <2>1
  <2> QED
    BY <2>2 DEF x, y
<1>7. Advanced = [stack EXCEPT ![n] = top]
  BY DEF Advanced
<1> HIDE DEF F, top
<1>9. /\ Advanced \in Seq(F) /\ Len(Advanced) = n /\ DOMAIN Advanced = 1..n
      /\ \A k \in 1..n : Advanced[k] = IF k = n THEN top ELSE stack[k]
  <2> HIDE DEF n
  <2>1. DOMAIN stack = 1..n
    BY <1>1 DEF n
  <2>2. Len([stack EXCEPT ![n] = top]) = n /\ [stack EXCEPT ![n] = top] \in Seq(F)
    BY <1>1, <1>6, <2>1, ExceptSeq DEF n
  <2> QED
    BY <1>1, <1>7, <2>1, <2>2
<1>10. 1 \in DOMAIN r /\ r[1] = Listing(stack[n].dir)[Taken(n) + 1] /\ r[1] \in ToSet(r)
  BY <1>2, <1>4
<1>11. DOMAIN stack = 1..n
  BY <1>1
<1> QED
  BY <1>1, <1>3, <1>4, <1>5, <1>6, <1>9, <1>10, <1>11 DEF E, F

\* The calls that are there before and after an entry is taken.
LEMMA CallsKept ==
  ASSUME ScanTypeOK, StackIsPath, Walking, Top.rest # <<>>, options' = options,
         NEW k \in 1..Len(stack), \A j \in 1..Len(stack) : stack'[j] = Advanced[j]
  PROVE  /\ PathTo[stack'[k].dir] = [i \in 1..k |-> stack'[i].dir]
         /\ Taken(k)' >= 0
         /\ \A i \in DOMAIN stack'[k].rest :
              stack'[k].rest[i] = Listing(stack[k].dir)'[Taken(k)' + i]
         /\ k < Len(stack) => /\ Taken(k)' > 0
                              /\ Listing(stack[k].dir)'[Taken(k)'] = stack'[k + 1].dir
         /\ k = Len(stack) => /\ Taken(k)' > 0
                              /\ Listing(stack[k].dir)'[Taken(k)'] = Entry
<1> DEFINE n == Len(stack)
           d == stack[k].dir
           r == stack[k].rest
           L == Listing(d)
           a == Taken(k)
<1>0. n \in Nat /\ k \in 1..n
  BY Taking
<1>1. /\ \A j \in 1..n : /\ stack'[j].dir = stack[j].dir
                         /\ stack'[j].rest = IF j = n THEN Tail(stack[j].rest)
                                             ELSE stack[j].rest
      /\ Entry = Listing(stack[n].dir)[Taken(n) + 1]
  BY Taking
<1>2. /\ d \in Dirs /\ r \in Seq(Dirs \cup Files) /\ a \in Nat /\ a + Len(r) = Len(L)
      /\ Len(r) \in Nat /\ Len(L) \in Nat /\ DOMAIN r = 1..Len(r)
  <2>1. d \in Dirs /\ r \in Seq(Dirs \cup Files) /\ a \in Nat /\ a + Len(r) = Len(L)
    BY Calls
  <2>2. L \in Seq(Dirs \cup Files)
    BY <2>1, Listings
  <2> HIDE DEF r, L, a
  <2> QED
    BY <2>1, <2>2
<1>3. /\ PathTo[d] = [i \in 1..k |-> stack[i].dir]
      /\ \A i \in DOMAIN r : r[i] = L[a + i]
      /\ k < n => a > 0 /\ L[a] = stack[k + 1].dir
  <2>1. k \in DOMAIN stack
    BY <1>0, Taking
  <2> QED
    BY <2>1 DEF StackIsPath
<1>4. Listing(stack[k].dir)' = L /\ stack'[k].dir = d
  BY <1>0, <1>1 DEF Listing
<1>5. Taken(k)' = Len(L) - Len(stack'[k].rest)
  BY <1>4 DEF Taken
<1>6. PathTo[stack'[k].dir] = [i \in 1..k |-> stack'[i].dir]
  <2> HIDE DEF n
  <2>1. \A i \in 1..k : i \in 1..n
    BY <1>0
  <2>2. \A i \in 1..k : stack'[i].dir = stack[i].dir
    BY <1>1, <2>1
  <2> QED
    BY <1>3, <1>4, <2>2
<1>7. CASE k < n
  <2>0. k \in 1..n /\ k + 1 \in 1..n /\ k # n /\ k \in Int
    BY <1>0, <1>7
  <2>1. stack'[k].rest = r /\ stack'[k + 1].dir = stack[k + 1].dir
    BY <1>1, <2>0
  <2> HIDE DEF r, L, a, d, n
  <2>2. Taken(k)' = a
    BY <1>2, <1>5, <2>1
  <2>3. \A i \in DOMAIN stack'[k].rest :
          stack'[k].rest[i] = Listing(stack[k].dir)'[Taken(k)' + i]
    BY <1>3, <1>4, <2>1, <2>2
  <2> QED
    BY <1>2, <1>3, <1>4, <1>6, <1>7, <2>0, <2>1, <2>2, <2>3 DEF n
<1>8. CASE k = n
  <2>1. r # <<>> /\ stack'[k].rest = Tail(r)
    BY <1>0, <1>1, <1>8 DEF Top
  <2> HIDE DEF r, L, a, d, n
  <2>2. /\ Len(Tail(r)) = Len(r) - 1 /\ Len(r) > 0 /\ DOMAIN Tail(r) = 1..(Len(r) - 1)
        /\ \A i \in 1..(Len(r) - 1) : Tail(r)[i] = r[i + 1]
    BY <1>2, <2>1
  <2>3. Taken(k)' = a + 1
    BY <1>2, <1>5, <2>1, <2>2
  <2>4. ASSUME NEW i \in 1..(Len(r) - 1) PROVE Tail(r)[i] = L[(a + 1) + i]
    <3>1. i + 1 \in DOMAIN r /\ Tail(r)[i] = r[i + 1]
      BY <1>2, <2>2
    <3>2. a + (i + 1) = (a + 1) + i
      BY <1>2
    <3> QED
      BY <1>3, <3>1, <3>2
  <2>5. Entry = L[a + 1]
    BY <1>1, <1>8 DEF L, a, d
  <2>6. \A i \in DOMAIN stack'[k].rest :
          stack'[k].rest[i] = Listing(stack[k].dir)'[Taken(k)' + i]
    BY <1>4, <2>1, <2>2, <2>3, <2>4
  <2> QED
    BY <1>0, <1>2, <1>4, <1>6, <1>8, <2>3, <2>5, <2>6 DEF n
<1>9. k < n \/ k = n
  BY <1>0
<1> QED
  BY <1>7, <1>8, <1>9

\* The loop goes on without descending.
LEMMA StackAdvances ==
  ASSUME ScanTypeOK, StackIsPath, Walking, Top.rest # <<>>, options' = options,
         stack' = Advanced
  PROVE  StackIsPath'
<1>1. /\ Len(stack') = Len(stack) /\ DOMAIN stack' = 1..Len(stack)
      /\ \A k \in 1..Len(stack) : stack'[k] = Advanced[k]
  BY Taking
<1>2. MaxDepth' = MaxDepth /\ Len(stack) - 1 <= MaxDepth
  BY DEF MaxDepth, StackIsPath
<1>3. ASSUME NEW k \in 1..Len(stack)
      PROVE  /\ PathTo[stack'[k].dir] = [i \in 1..k |-> stack'[i].dir]
             /\ Taken(k)' >= 0
             /\ \A i \in DOMAIN stack'[k].rest :
                  stack'[k].rest[i] = Listing(stack[k].dir)'[Taken(k)' + i]
             /\ k < Len(stack) => /\ Taken(k)' > 0
                                  /\ Listing(stack[k].dir)'[Taken(k)'] = stack'[k + 1].dir
  BY <1>1, CallsKept
<1> QED
  BY <1>1, <1>2, <1>3 DEF StackIsPath

\* scanDir calls itself.
LEMMA StackDescends ==
  ASSUME ScanTypeOK, StackIsPath, Walking, Top.rest # <<>>, options' = options,
         Entry \in Dirs, Descends, stack' = Append(Advanced, Frame(Entry))
  PROVE  /\ StackIsPath' /\ Len(stack') = Len(stack) + 1
         /\ DOMAIN stack' = 1..(Len(stack) + 1)
         /\ \A k \in 1..Len(stack) : stack'[k] = Advanced[k]
         /\ stack'[Len(stack) + 1].rest = Listing(Entry)
<1>0. PICK n : n = Len(stack)
  OBVIOUS
<1> DEFINE A == Advanced
           f == Frame(Entry)
           F == [dir: Dirs, rest: Seq(Dirs \cup Files)]
           L == Listing(Entry)
<1>1. n \in Nat /\ n \in 1..n /\ A \in Seq(F) /\ Len(A) = n /\ Entry \in ToSet(stack[n].rest)
  BY <1>0, Taking
<1>2. L \in Seq(Dirs \cup Files) /\ f \in F /\ f.dir = Entry /\ f.rest = L
  BY Listings DEF Frame
<1>3. /\ Len(stack') = n + 1 /\ DOMAIN stack' = 1..(n + 1) /\ stack'[n + 1] = f
      /\ \A k \in 1..n : stack'[k] = A[k]
  <2> HIDE DEF A, f, F
  <2>1. stack' = Append(A, f)
    BY DEF A, f
  <2> QED
    BY <1>1, <1>2, <2>1
<1>4. n <= MaxDepth /\ MaxDepth' = MaxDepth
  <2>1. MaxDepth \in Int /\ n - 1 < MaxDepth
    BY <1>0 DEF MaxDepth, ScanTypeOK, Descends
  <2> QED
    BY <1>1, <2>1 DEF MaxDepth
<1>5. Listing(stack[n + 1].dir)' = L
  <2>1. stack'[n + 1].dir = Entry
    BY <1>2, <1>3
  <2> QED
    BY <2>1 DEF Listing
<1>6. /\ stack[n].dir \in Dirs /\ Entry \in ToSet(Subdirs[stack[n].dir])
      /\ Len(PathTo[Entry]) = n + 1 /\ PathTo[Entry] = Append(PathTo[stack[n].dir], Entry)
      /\ Len(PathTo[stack[n].dir]) = n
      /\ \A i \in 1..n : PathTo[stack[n].dir][i] = stack[i].dir
  BY <1>0, <1>1, Calls, EntriesToCome, PathDown
<1>7. PathTo[Entry] = [i \in 1..(n + 1) |-> stack'[i].dir]
  <2> DEFINE p == PathTo[Entry]
             q == PathTo[stack[n].dir]
  <2>1. p \in Seq(Dirs) /\ q \in Seq(Dirs) /\ p = Append(q, Entry) /\ Len(q) = n /\ Len(p) = n + 1
    BY <1>6, PathFacts
  <2>2. \A i \in 1..n : q[i] = stack'[i].dir
    BY <1>0, <1>3, <1>6, Taking
  <2>3. stack'[n + 1].dir = Entry
    BY <1>2, <1>3
  <2> HIDE DEF p, q
  <2>4. DOMAIN p = 1..(n + 1) /\ p[n + 1] = Entry /\ \A i \in 1..n : p[i] = q[i]
    BY <1>1, <2>1
  <2>5. \A i \in 1..(n + 1) : p[i] = stack'[i].dir
    BY <1>1, <2>2, <2>3, <2>4
  <2>6. p = [i \in 1..(n + 1) |-> p[i]]
    <3>1. Len(p) \in Nat /\ p \in [1..Len(p) -> Dirs]
      BY <2>1, LenProperties
    <3> QED
      BY <2>4, <3>1
  <2> QED
    BY <2>5, <2>6 DEF p
<1>8. Taken(n + 1)' = 0
  <2>1. Taken(n + 1)' = Len(L) - Len(L)
    BY <1>2, <1>3, <1>5 DEF Taken
  <2>2. Len(L) \in Nat
    BY <1>2
  <2> QED
    BY <2>1, <2>2
<1>9. \A i \in DOMAIN L : 0 + i \in Int /\ 0 + i = i
  BY <1>2
<1>10. ASSUME NEW k \in 1..n
       PROVE  /\ PathTo[stack'[k].dir] = [i \in 1..k |-> stack'[i].dir]
              /\ Taken(k)' >= 0
              /\ \A i \in DOMAIN stack'[k].rest :
                   stack'[k].rest[i] = Listing(stack[k].dir)'[Taken(k)' + i]
              /\ Taken(k)' > 0
              /\ Listing(stack[k].dir)'[Taken(k)'] = stack'[k + 1].dir
  <2>1. k < n \/ k = n
    BY <1>1
  <2> QED
    BY <1>0, <1>2, <1>3, <2>1, CallsKept
<1>11. /\ PathTo[stack'[n + 1].dir] = [i \in 1..(n + 1) |-> stack'[i].dir]
       /\ Taken(n + 1)' >= 0
       /\ \A i \in DOMAIN stack'[n + 1].rest :
                   stack'[n + 1].rest[i] = Listing(stack[n + 1].dir)'[Taken(n + 1)' + i]
  <2>1. stack'[n + 1].dir = Entry /\ stack'[n + 1].rest = L
    BY <1>2, <1>3
  <2>2. \A i \in DOMAIN L : L[i] = L[Taken(n + 1)' + i]
    BY <1>8, <1>9
  <2> HIDE DEF L
  <2>3. \A i \in DOMAIN stack'[n + 1].rest :
          stack'[n + 1].rest[i] = Listing(stack[n + 1].dir)'[Taken(n + 1)' + i]
    BY <1>5, <2>1, <2>2
  <2>4. PathTo[stack'[n + 1].dir] = [i \in 1..(n + 1) |-> stack'[i].dir]
    BY <1>7, <2>1
  <2>5. Taken(n + 1)' >= 0
    BY <1>8
  <2> QED
    BY <2>3, <2>4, <2>5
<1>12. Len(stack') - 1 <= MaxDepth'
  BY <1>1, <1>3, <1>4
<1>13. StackIsPath'
  <2> SUFFICES ASSUME NEW k \in 1..(n + 1)
               PROVE  /\ PathTo[stack'[k].dir] = [i \in 1..k |-> stack'[i].dir]
                      /\ Taken(k)' >= 0
                      /\ \A i \in DOMAIN stack'[k].rest :
                           stack'[k].rest[i] = Listing(stack[k].dir)'[Taken(k)' + i]
                      /\ k < n + 1 => /\ Taken(k)' > 0
                                      /\ Listing(stack[k].dir)'[Taken(k)'] = stack'[k + 1].dir
    BY <1>3, <1>12 DEF StackIsPath
  <2>1. k \in 1..n \/ (k = n + 1 /\ ~(k < n + 1))
    BY <1>1
  <2>2. CASE k \in 1..n
    BY <1>10, <2>2
  <2>3. CASE k = n + 1 /\ ~(k < n + 1)
    BY <1>11, <2>3
  <2> QED
    BY <2>1, <2>2, <2>3
<1> QED
  BY <1>0, <1>2, <1>3, <1>13

\* scanDir returns.
LEMMA StackReturns ==
  ASSUME ScanTypeOK, StackIsPath, Len(stack) > 1, options' = options, stack' = Front(stack)
  PROVE  /\ StackIsPath' /\ Len(stack') = Len(stack) - 1
         /\ DOMAIN stack' = 1..(Len(stack) - 1) /\ DOMAIN stack = 1..Len(stack)
         /\ \A k \in 1..(Len(stack) - 1) : stack'[k] = stack[k]
<1> DEFINE n == Len(stack)
           F == [dir: Dirs, rest: Seq(Dirs \cup Files)]
<1>1. stack \in Seq(F) /\ n \in Nat /\ stack' = SubSeq(stack, 1, n - 1)
  BY DEF ScanTypeOK, Front
<1>2. /\ Len(stack') = n - 1 /\ DOMAIN stack' = 1..(n - 1) /\ DOMAIN stack = 1..n
      /\ \A k \in 1..(n - 1) : stack'[k] = stack[k]
  <2> HIDE DEF F
  <2> QED
    BY <1>1
<1>3. MaxDepth' = MaxDepth /\ MaxDepth \in Int /\ n - 1 <= MaxDepth
  BY DEF MaxDepth, StackIsPath, ScanTypeOK
<1>4. ASSUME NEW k \in 1..(n - 1)
      PROVE  /\ PathTo[stack'[k].dir] = [i \in 1..k |-> stack'[i].dir]
             /\ Taken(k)' >= 0
             /\ \A i \in DOMAIN stack'[k].rest :
                  stack'[k].rest[i] = Listing(stack[k].dir)'[Taken(k)' + i]
             /\ k < n - 1 => /\ Taken(k)' > 0
                             /\ Listing(stack[k].dir)'[Taken(k)'] = stack'[k + 1].dir
  <2>1. k \in DOMAIN stack /\ k < n
    BY <1>1, <1>2
  <2>2. /\ PathTo[stack[k].dir] = [i \in 1..k |-> stack[i].dir]
        /\ Taken(k) >= 0
        /\ \A i \in DOMAIN stack[k].rest :
             stack[k].rest[i] = Listing(stack[k].dir)[Taken(k) + i]
        /\ Taken(k) > 0 /\ Listing(stack[k].dir)[Taken(k)] = stack[k + 1].dir
    BY <2>1 DEF StackIsPath
  <2>3. stack'[k] = stack[k] /\ Listing(stack[k].dir)' = Listing(stack[k].dir)
    BY <1>2 DEF Listing
  <2>4. Taken(k)' = Taken(k)
    BY <2>3 DEF Taken
  <2>5. \A i \in 1..k : stack'[i] = stack[i]
    BY <1>1, <1>2
  <2>6. k < n - 1 => stack'[k + 1] = stack[k + 1]
    BY <1>1, <1>2
  <2> QED
    BY <2>2, <2>3, <2>4, <2>5, <2>6
<1>5. Len(stack') - 1 <= MaxDepth'
  BY <1>1, <1>2, <1>3
<1> QED
  BY <1>2, <1>4, <1>5 DEF StackIsPath

-----------------------------------------------------------------------------
(* Whose turn is to come.                                                  *)

\* Taking an entry: its turn, and that of all below it, is over.
LEMMA TurnTaken ==
  ASSUME ScanTypeOK, StackIsPath, Walking, Top.rest # <<>>, NEW f
  PROVE  Waiting(f) <=> \/ \E k \in 1..Len(stack) : Ahead(Advanced[k].rest, f)
                        \/ f = Entry \/ OnPath(Entry, DirOf(f))
<1>0. PICK n : n = Len(stack)
  OBVIOUS
<1>1. n \in 1..n /\ n \in Nat
  BY <1>0, Taking
<1>2. Waiting(f) <=> \E k \in 1..n : Ahead(stack[k].rest, f)
  BY <1>0, Taking DEF Waiting
<1>3. \A k \in 1..n : Advanced[k].rest = IF k = n THEN Tail(stack[k].rest) ELSE stack[k].rest
  BY <1>0, Taking
<1>4. stack[n].rest \in Seq(Dirs \cup Files) /\ stack[n].rest # <<>> /\ Entry = Head(stack[n].rest)
  BY <1>0, <1>1, Calls DEF Top, Entry
<1>5. Ahead(stack[n].rest, f)
        <=> Ahead(Tail(stack[n].rest), f) \/ f = Entry \/ OnPath(Entry, DirOf(f))
  BY <1>4, AheadSplits
<1> QED
  BY <1>0, <1>1, <1>2, <1>3, <1>5

\* Calling scanDir for a directory changes nothing for the files below it.
LEMMA TurnDescends ==
  ASSUME ScanTypeOK, StackIsPath, Walking, Top.rest # <<>>, options' = options,
         Entry \in Dirs, Descends, stack' = Append(Advanced, Frame(Entry)), NEW f \in Files
  PROVE  Waiting(f)' <=> Waiting(f)
<1>0. PICK n : n = Len(stack)
  OBVIOUS
<1>1. n \in 1..n /\ n \in Nat
  BY <1>0, Taking
<1>2. /\ DOMAIN stack' = 1..(n + 1) /\ stack'[n + 1].rest = Listing(Entry)
      /\ \A k \in 1..n : stack'[k] = Advanced[k]
  BY <1>0, StackDescends
<1>3. Waiting(f)' <=> \E k \in 1..(n + 1) : Ahead(stack'[k].rest, f)
  BY <1>2 DEF Waiting, Ahead
<1>4. (\E k \in 1..(n + 1) : Ahead(stack'[k].rest, f))
        <=> (\E k \in 1..n : Ahead(Advanced[k].rest, f)) \/ Ahead(Listing(Entry), f)
  <2>1. \A k \in 1..(n + 1) : k \in 1..n \/ k = n + 1
    BY <1>1
  <2>2. \A k \in 1..n : k \in 1..(n + 1)
    BY <1>1
  <2>3. n + 1 \in 1..(n + 1)
    BY <1>1
  <2> QED
    BY <1>2, <2>1, <2>2, <2>3
<1>5. Ahead(Listing(Entry), f) <=> OnPath(Entry, DirOf(f))
  BY Covers
<1>6. f # Entry
  BY ScannerAssumption
<1>7. Waiting(f) <=> \/ \E k \in 1..n : Ahead(Advanced[k].rest, f)
                     \/ f = Entry \/ OnPath(Entry, DirOf(f))
  BY <1>0, TurnTaken
<1> QED
  BY <1>3, <1>4, <1>5, <1>6, <1>7

\* Nor does returning from a directory without entries left.
LEMMA TurnReturns ==
  ASSUME ScanTypeOK, StackIsPath, Leave, NEW f
  PROVE  Waiting(f)' <=> Waiting(f)
<1>0. PICK n : n = Len(stack)
  OBVIOUS
<1>1. /\ DOMAIN stack' = 1..(n - 1) /\ DOMAIN stack = 1..n
      /\ \A k \in 1..(n - 1) : stack'[k] = stack[k]
  BY <1>0, StackReturns DEF Leave
<1>2. Waiting(f)' <=> \E k \in 1..(n - 1) : Ahead(stack[k].rest, f)
  BY <1>1 DEF Waiting, Ahead
<1>3. Waiting(f) <=> \E k \in 1..n : Ahead(stack[k].rest, f)
  BY <1>1 DEF Waiting
<1>4. n \in Nat /\ n > 1
  BY <1>0 DEF Leave, ScanTypeOK
<1>5. ~Ahead(stack[n].rest, f)
  BY <1>0 DEF Leave, Top, Ahead, ToSet
<1>6. \A k \in 1..n : k \in 1..(n - 1) \/ k = n
  BY <1>4
<1>7. \A k \in 1..(n - 1) : k \in 1..n
  BY <1>4
<1> QED
  BY <1>2, <1>3, <1>5, <1>6, <1>7

\* A file has one turn: no call comes to it again, be it in the listing or
\* through a directory it lies in.
LEMMA NotAgain ==
  ASSUME ScanTypeOK, StackIsPath, Walking, Top.rest # <<>>, Entry \in Files
  PROVE  ~ \E k \in 1..Len(stack) : Ahead(Advanced[k].rest, Entry)
<1>0. PICK n : n = Len(stack)
  OBVIOUS
<1> SUFFICES ASSUME NEW k \in 1..n, Ahead(Advanced[k].rest, Entry) PROVE FALSE
  BY <1>0
<1>1. n \in 1..n /\ n \in Nat /\ k \in Nat /\ k <= n
  BY <1>0, Taking
<1>2. /\ Entry \in ToSet(stack[n].rest) /\ Entry \notin ToSet(Tail(stack[n].rest))
      /\ Advanced[k].rest = IF k = n THEN Tail(stack[k].rest) ELSE stack[k].rest
  BY <1>0, Taking
<1>3. /\ stack[n].dir \in Dirs /\ Len(PathTo[stack[n].dir]) = n
      /\ stack[k].dir \in Dirs /\ Len(PathTo[stack[k].dir]) = k
      /\ \A i \in 1..n : PathTo[stack[n].dir][i] = stack[i].dir
  BY <1>0, <1>1, Calls
<1>4. DirOf(Entry) = stack[n].dir
  BY <1>0, <1>1, <1>2, EntriesToCome
<1>5. ToSet(Advanced[k].rest) \subseteq ToSet(stack[k].rest)
  <2>1. CASE k = n
    <3>1. stack[n].rest \in Seq(Dirs \cup Files) /\ stack[n].rest # <<>>
      BY <1>0, <1>1, Calls DEF Top
    <3>2. ToSet(stack[n].rest) = {Head(stack[n].rest)} \cup ToSet(Tail(stack[n].rest))
      BY <3>1, HeadAndTail
    <3> QED
      BY <1>2, <2>1, <3>2
  <2>2. CASE k # n
    BY <1>2, <2>2
  <2> QED
    BY <2>1, <2>2
<1>6. CASE Entry \in ToSet(Advanced[k].rest)
  <2>1. DirOf(Entry) = stack[k].dir
    BY <1>0, <1>5, <1>6, EntriesToCome
  <2>2. k = n
    BY <1>3, <1>4, <2>1
  <2> QED
    BY <1>2, <1>6, <2>2
<1>7. CASE \E e \in ToSet(Advanced[k].rest) : OnPath(e, DirOf(Entry))
  <2>1. PICK e \in ToSet(stack[k].rest) : OnPath(e, stack[n].dir)
    BY <1>4, <1>5, <1>7
  <2>2. e \in Dirs /\ Len(PathTo[e]) \in 1..n /\ PathTo[stack[n].dir][Len(PathTo[e])] = e
    BY <1>3, <2>1, OnPathFacts
  <2>3. Len(PathTo[e]) = k + 1
    BY <1>0, <2>1, <2>2, EntriesToCome
  <2>4. k < n /\ e = stack[k + 1].dir
    BY <1>1, <1>3, <2>2, <2>3
  <2> QED
    BY <1>0, <2>1, <2>4, Calls
<1> QED
  BY <1>6, <1>7 DEF Ahead

\* A directory that is not entered for its depth holds nothing in reach.
LEMMA OutOfReach ==
  ASSUME ScanTypeOK, StackIsPath, Walking, Top.rest # <<>>, Entry \in Dirs, ~Descends,
         NEW f \in InReach
  PROVE  ~OnPath(Entry, DirOf(f))
<1> SUFFICES ASSUME OnPath(Entry, DirOf(f)) PROVE FALSE
  OBVIOUS
<1>0. PICK n : n = Len(stack)
  OBVIOUS
<1>1. n \in 1..n /\ n \in Nat /\ Entry \in ToSet(stack[n].rest)
  BY <1>0, Taking
<1>2. Len(PathTo[Entry]) = n + 1
  BY <1>0, <1>1, EntriesToCome
<1>3. DirOf(f) \in Dirs
  BY LiesIn DEF InReach
<1>4. Len(PathTo[DirOf(f)]) \in Nat /\ n + 1 <= Len(PathTo[DirOf(f)])
  BY <1>2, <1>3, OnPathFacts
<1>5. Len(PathTo[DirOf(f)]) - 1 <= MaxDepth
  BY DEF InReach
<1>6. MaxDepth \in Int /\ ~(n - 1 < MaxDepth)
  BY <1>0 DEF MaxDepth, ScanTypeOK, Descends
<1> QED
  BY <1>1, <1>4, <1>5, <1>6

\* What a call has not taken is still to come.
LEMMA LaterEntry ==
  ASSUME ScanTypeOK, StackIsPath, NEW k \in 1..Len(stack),
         NEW i \in DOMAIN Listing(stack[k].dir), Taken(k) < i
  PROVE  Listing(stack[k].dir)[i] \in ToSet(stack[k].rest)
<1> DEFINE L == Listing(stack[k].dir)
           r == stack[k].rest
           a == Taken(k)
<1>1. /\ r \in Seq(Dirs \cup Files) /\ a \in Nat /\ a + Len(r) = Len(L)
      /\ DOMAIN L = 1..Len(L) /\ stack[k].dir \in Dirs
  BY Calls
<1>2. k \in DOMAIN stack
  BY DEF ScanTypeOK
<1>3. \A j \in DOMAIN r : r[j] = L[a + j]
  BY <1>2 DEF StackIsPath
<1>4. L \in Seq(Dirs \cup Files)
  BY <1>1, Listings
<1> HIDE DEF L, r, a
<1>5. Len(r) \in Nat /\ Len(L) \in Nat /\ DOMAIN r = 1..Len(r)
  BY <1>1, <1>4
<1>6. i \in 1..Len(L) /\ a < i
  BY <1>1 DEF L, a
<1>7. i - a \in 1..Len(r) /\ a + (i - a) = i
  BY <1>1, <1>5, <1>6
<1>8. L[i] = r[i - a]
  BY <1>3, <1>5, <1>7
<1> QED
  BY <1>5, <1>7, <1>8 DEF ToSet, L, r

\* With --bfs no file below the one whose turn it is has been found, else none
\* above it.
LEMMA FoundInOrder ==
  ASSUME ScanTypeOK, StackIsPath, Walking, Top.rest # <<>>, Entry \in Files,
         NEW g \in Files, ~Waiting(g)
  PROVE  IF options.bfs THEN ~Above(DirOf(Entry), DirOf(g))
         ELSE ~Above(DirOf(g), DirOf(Entry))
<1>0. PICK n : n = Len(stack)
  OBVIOUS
<1>1. /\ n \in 1..n /\ n \in Nat /\ DOMAIN stack = 1..n
      /\ Entry \in ToSet(stack[n].rest) /\ Entry = Listing(stack[n].dir)[Taken(n) + 1]
  BY <1>0, Taking
<1>2. /\ stack[n].dir \in Dirs /\ Len(PathTo[stack[n].dir]) = n /\ Taken(n) \in Nat
      /\ Taken(n) + Len(stack[n].rest) = Len(Listing(stack[n].dir))
      /\ stack[n].rest \in Seq(Dirs \cup Files)
      /\ DOMAIN Listing(stack[n].dir) = 1..Len(Listing(stack[n].dir))
      /\ \A i \in 1..n : PathTo[stack[n].dir][i] = stack[i].dir
  BY <1>0, <1>1, Calls
<1>3. DirOf(Entry) = stack[n].dir
  BY <1>0, <1>1, EntriesToCome
<1>4. DirOf(g) \in Dirs /\ g \in ToSet(Tracks[DirOf(g)]) /\ g \notin Dirs
  BY LiesIn, ScannerAssumption
<1>5. \A k \in 1..n : ~Ahead(stack[k].rest, g)
  BY <1>1 DEF Waiting
<1>6. ASSUME options.bfs, Above(stack[n].dir, DirOf(g)) PROVE FALSE
  <2> DEFINE L == Listing(stack[n].dir)
  <2>1. PICK c \in ToSet(Subdirs[stack[n].dir]) : OnPath(c, DirOf(g))
    BY <1>2, <1>4, <1>6, Below DEF Above
  <2>2. c \in Dirs /\ c \in ToSet(L)
    BY <1>2, EntryOf, Listings
  <2>3. PICK i \in DOMAIN L : L[i] = c
    BY <2>2 DEF ToSet
  <2>4. Taken(n) + 1 \in DOMAIN L
    <3>1. stack[n].rest # <<>>
      BY <1>0 DEF Top
    <3>2. Len(stack[n].rest) \in Nat /\ Len(stack[n].rest) > 0
      BY <1>2, <3>1
    <3>3. DOMAIN L = 1..Len(L) /\ Taken(n) \in Nat
      BY <1>2
    <3>4. Taken(n) + Len(stack[n].rest) = Len(L)
      BY <1>2
    <3>5. Taken(n) + 1 \in 1..(Taken(n) + Len(stack[n].rest))
      BY <3>2, <3>3
    <3> QED
      BY <3>3, <3>4, <3>5
  <2>5. Taken(n) + 1 < i
    BY <1>1, <1>2, <1>6, <2>2, <2>3, <2>4, Listings
  <2>6. Taken(n) < i
    BY <1>2, <2>3, <2>5
  <2>7. c \in ToSet(stack[n].rest)
    BY <1>0, <1>1, <2>3, <2>6, LaterEntry
  <2> QED
    BY <1>1, <1>5, <2>1, <2>7 DEF Ahead
<1>7. ASSUME ~options.bfs, Above(DirOf(g), stack[n].dir) PROVE FALSE
  <2>0. PICK k : k = Len(PathTo[DirOf(g)])
    OBVIOUS
  <2>1. k \in 1..n /\ stack[k].dir = DirOf(g)
    BY <1>2, <1>7, <2>0, OnPathFacts DEF Above
  <2>2. k < n /\ k + 1 \in 1..n
    BY <1>1, <1>7, <2>1 DEF Above
  <2> DEFINE L == Listing(DirOf(g))
  <2>3. Taken(k) > 0 /\ L[Taken(k)] = stack[k + 1].dir
    BY <1>0, <1>1, <2>1, <2>2 DEF StackIsPath
  <2>4. Taken(k) \in Nat /\ Taken(k) + Len(stack[k].rest) = Len(L) /\ DOMAIN L = 1..Len(L)
        /\ stack[k].rest \in Seq(Dirs \cup Files) /\ stack[k + 1].dir \in Dirs
    BY <1>0, <2>1, <2>2, Calls
  <2>5. Taken(k) \in DOMAIN L
    <3>1. Len(stack[k].rest) \in Nat
      BY <2>4
    <3> QED
      BY <2>3, <2>4, <3>1
  <2>6. PICK i \in DOMAIN L : L[i] = g
    <3>1. g \in ToSet(L)
      BY <1>4, Listings
    <3> QED
      BY <3>1 DEF ToSet
  <2>7. Taken(k) < i
    BY <1>4, <1>7, <2>3, <2>4, <2>5, <2>6, Listings
  <2>8. g \in ToSet(stack[k].rest)
    BY <1>0, <2>1, <2>6, <2>7, LaterEntry
  <2> QED
    BY <1>5, <2>1, <2>8 DEF Ahead
<1> QED
  BY <1>3, <1>6, <1>7

-----------------------------------------------------------------------------
(* The walk.                                                               *)

\* What a step that adds nothing leaves: the promises that speak of the files
\* found, the files in reach and what lay beside them.
LEMMA NothingFound ==
  ASSUME FoundOnce, NoneMissed, WalkOrdered, UNCHANGED <<options, results, seen>>,
         \A f \in ToSet(results) : f \in Files /\ (Waiting(f)' => Waiting(f)),
         \A f \in InReach : Waiting(f) => Waiting(f)'
  PROVE  FoundOnce' /\ NoneMissed' /\ WalkOrdered'
<1>1. InReach' = InReach
  BY DEF InReach, MaxDepth
<1>2. \A f : (Always(f)' <=> Always(f)) /\ (Sometime(f)' <=> Sometime(f))
  BY DEF Always, Sometime, Wanted
<1>3. FoundOnce'
  BY <1>1, <1>2 DEF FoundOnce
<1>4. NoneMissed'
  BY <1>1, <1>2 DEF NoneMissed
<1>5. WalkOrdered'
  BY DEF WalkOrdered, Earlier
<1> QED
  BY <1>3, <1>4, <1>5

\* The walk begins at the root with everything ahead.
LEMMA WalkBegins ==
  ASSUME options.depth \in Int, options.update \in BOOLEAN, options.upgrade \in BOOLEAN,
         options.bfs \in BOOLEAN, lyrics \in [Stems -> Sidecars], ScanBegins
  PROVE  WalkInv
<1> DEFINE L == Listing(Root)
           F == [dir: Dirs, rest: Seq(Dirs \cup Files)]
<1>1. Root \in Dirs /\ L \in Seq(Dirs \cup Files) /\ Frame(Root) = [dir |-> Root, rest |-> L]
  BY ScannerAssumption, Listings DEF Frame
<1>2. Frame(Root) \in F /\ Frame(Root).dir = Root /\ Frame(Root).rest = L
  BY <1>1
<1>3. /\ stack = <<Frame(Root)>> /\ results = <<>> /\ lrcExists = "unknown"
      /\ seen = [s \in Stems |-> {lyrics[s]}]
  BY DEF ScanBegins
<1>4. stack \in Seq(F) /\ Len(stack) = 1 /\ stack[1] = Frame(Root) /\ DOMAIN stack = {1}
  <2> DEFINE r == Frame(Root)
  <2>1. r \in F /\ stack = <<r>>
    BY <1>2, <1>3
  <2> HIDE DEF r, F
  <2> QED
    BY <2>1 DEF r
<1>5. results \in Seq(Files) /\ DOMAIN results = {} /\ ToSet(results) = {}
  BY <1>3 DEF ToSet
<1>6. ScanTypeOK
  BY <1>3, <1>4, <1>5 DEF ScanTypeOK
<1>7. StackIsPath
  <2>1. PathTo[Root] = <<Root>>
    BY PathUnfolds, ScannerAssumption
  <2>2. PathTo[stack[1].dir] = [i \in 1..1 |-> stack[i].dir]
    BY <1>2, <1>4, <2>1
  <2>3. Len(L) \in Nat /\ DOMAIN L = 1..Len(L)
    BY <1>1
  <2> HIDE DEF L
  <2>4. Taken(1) = 0
    BY <1>2, <1>4, <2>3 DEF Taken, L
  <2>5. \A i \in DOMAIN stack[1].rest : stack[1].rest[i] = Listing(stack[1].dir)[Taken(1) + i]
    BY <1>2, <1>4, <2>3, <2>4 DEF L
  <2>6. Len(stack) - 1 <= MaxDepth
    BY <1>4 DEF MaxDepth
  <2> QED
    BY <1>4, <2>2, <2>4, <2>5, <2>6 DEF StackIsPath
<1>8. StatWasTrue
  <2>1. \A s \in Stems : {lyrics[s]} \in SUBSET Sidecars
    OBVIOUS
  <2>2. seen \in [Stems -> SUBSET Sidecars] /\ \A s \in Stems : lyrics[s] \in seen[s]
    BY <1>3, <2>1
  <2> QED
    BY <1>3, <2>2 DEF StatWasTrue
<1>9. ASSUME NEW f \in InReach PROVE Waiting(f)
  <2>1. f \in Files /\ DirOf(f) \in Dirs
    BY LiesIn DEF InReach
  <2>2. /\ PathTo[DirOf(f)] \in Seq(Dirs) /\ Len(PathTo[DirOf(f)]) > 0
        /\ PathTo[DirOf(f)][1] = Root
    BY <2>1, PathFacts
  <2>3. 1 \in DOMAIN PathTo[DirOf(f)]
    BY <2>2
  <2>4. OnPath(Root, DirOf(f))
    BY <2>2, <2>3 DEF OnPath, ToSet
  <2>5. Ahead(L, f)
    BY <1>1, <2>1, <2>4, Covers
  <2> QED
    BY <1>2, <1>4, <2>5 DEF Waiting
<1>10. FoundOnce /\ NoneMissed /\ WalkOrdered
  BY <1>5, <1>9 DEF FoundOnce, NoneMissed, WalkOrdered, IsInjective
<1>11. Walking
  BY <1>3 DEF Walking
<1> QED
  BY <1>6, <1>7, <1>8, <1>10, <1>11 DEF WalkInv

\* What a step that leaves the calls alone leaves.
LEMMA StackKept ==
  ASSUME StackIsPath, UNCHANGED <<options, stack>>
  PROVE  StackIsPath'
<1>1. MaxDepth' = MaxDepth
  BY DEF MaxDepth
<1>2. \A k \in DOMAIN stack : Listing(stack[k].dir)' = Listing(stack[k].dir)
  BY DEF Listing
<1>3. \A k \in DOMAIN stack : Taken(k)' = Taken(k)
  BY <1>2 DEF Taken
<1> QED
  BY <1>1, <1>2, <1>3 DEF StackIsPath

\* scanDir takes a directory.
LEMMA VisitDirKeeps ==
  ASSUME WalkInv, VisitDir
  PROVE  WalkInv'
<1>1. /\ Walking /\ Top.rest # <<>> /\ Entry \in Dirs /\ options' = options
      /\ stack' = IF Descends THEN Append(Advanced, Frame(Entry)) ELSE Advanced
      /\ UNCHANGED <<options, results, lrcExists, lyrics, seen>>
  BY DEF VisitDir
<1>2. ScanTypeOK /\ StackIsPath /\ StatWasTrue /\ FoundOnce /\ NoneMissed /\ WalkOrdered
  BY <1>1 DEF WalkInv
<1>0. PICK n : n = Len(stack)
  OBVIOUS
<1> DEFINE F == [dir: Dirs, rest: Seq(Dirs \cup Files)]
<1>3. /\ Advanced \in Seq(F) /\ n \in Nat /\ n > 0 /\ Len(Advanced) = n
      /\ DOMAIN Advanced = 1..n
  BY <1>0, <1>1, <1>2, Taking
<1>4. Frame(Entry) \in F
  BY <1>1, Listings DEF Frame
<1>5. stack' \in Seq(F) /\ stack' # <<>>
  <2> DEFINE A == Advanced
             x == Frame(Entry)
  <2>1. A \in Seq(F) /\ Len(A) = n /\ n > 0 /\ n \in Nat /\ x \in F
    BY <1>3, <1>4
  <2>2. stack' = Append(A, x) \/ stack' = A
    BY <1>1
  <2> HIDE DEF A, x, F
  <2>3. Append(A, x) \in Seq(F) /\ Append(A, x) # <<>> /\ A # <<>>
    BY <2>1
  <2> QED
    BY <2>1, <2>2, <2>3
<1>6. ScanTypeOK'
  BY <1>1, <1>2, <1>5 DEF ScanTypeOK
<1>7. lrcExists' = "unknown"
  BY <1>1, <1>2, ScannerAssumption DEF StatWasTrue
<1>8. StatWasTrue'
  BY <1>1, <1>2, <1>7 DEF StatWasTrue
<1>9. \A f \in ToSet(results) : f \in Files
  <2>1. results \in Seq(Files)
    BY <1>2 DEF ScanTypeOK
  <2> QED
    BY <2>1 DEF ToSet
<1>10. CASE Descends
  <2>1. StackIsPath'
    BY <1>1, <1>2, <1>10, StackDescends
  <2>2. \A f \in Files : Waiting(f)' <=> Waiting(f)
    BY <1>1, <1>2, <1>10, TurnDescends
  <2>3. \A f \in InReach : f \in Files
    BY DEF InReach
  <2>4. FoundOnce' /\ NoneMissed' /\ WalkOrdered'
    BY <1>1, <1>2, <1>9, <2>2, <2>3, NothingFound
  <2> QED
    BY <1>5, <1>6, <1>8, <2>1, <2>4 DEF WalkInv, Walking
<1>11. CASE ~Descends
  <2>1. StackIsPath'
    BY <1>1, <1>2, <1>11, StackAdvances
  <2>2. ASSUME NEW f \in Files
        PROVE  Waiting(f) <=> Waiting(f)' \/ OnPath(Entry, DirOf(f))
    <3>1. Waiting(f)' <=> \E k \in 1..n : Ahead(Advanced[k].rest, f)
      BY <1>1, <1>3, <1>11 DEF Waiting, Ahead
    <3>2. f # Entry
      BY <1>1, ScannerAssumption
    <3>3. Waiting(f) <=> \/ \E k \in 1..n : Ahead(Advanced[k].rest, f)
                         \/ f = Entry \/ OnPath(Entry, DirOf(f))
      BY <1>0, <1>1, <1>2, TurnTaken
    <3> QED
      BY <3>1, <3>2, <3>3
  <2>3. \A f \in InReach : f \in Files /\ ~OnPath(Entry, DirOf(f))
    BY <1>1, <1>2, <1>11, OutOfReach DEF InReach
  <2>4. FoundOnce' /\ NoneMissed' /\ WalkOrdered'
    BY <1>1, <1>2, <1>9, <2>2, <2>3, NothingFound
  <2> QED
    BY <1>5, <1>6, <1>8, <2>1, <2>4 DEF WalkInv, Walking
<1> QED
  BY <1>10, <1>11

\* The first of the two calls of os.Stat.
LEMMA StatLrcKeeps ==
  ASSUME WalkInv, StatLrc
  PROVE  WalkInv'
<1>1. /\ Walking /\ Top.rest # <<>> /\ Entry \notin Dirs
      /\ lrcExists' = IF "lrc" \in lyrics[StemOf[Entry]] THEN "yes" ELSE "no"
      /\ UNCHANGED <<options, stack, results, lyrics, seen>>
  BY DEF StatLrc
<1>2. ScanTypeOK /\ StackIsPath /\ StatWasTrue /\ FoundOnce /\ NoneMissed /\ WalkOrdered
  BY <1>1 DEF WalkInv
<1>3. Entry \in Files /\ StemOf[Entry] \in Stems
  BY <1>1, <1>2, Taking DEF Stems
<1>4. ScanTypeOK'
  BY <1>1, <1>2 DEF ScanTypeOK
<1>5. StackIsPath'
  BY <1>1, <1>2, StackKept
<1>6. StatWasTrue'
  <2>1. Top' = Top /\ Entry' = Entry
    BY <1>1 DEF Top, Entry
  <2>2. lyrics[StemOf[Entry]] \in seen[StemOf[Entry]]
    BY <1>2, <1>3 DEF StatWasTrue
  <2>3. (lrcExists' = "yes") <=> "lrc" \in lyrics[StemOf[Entry]]
    BY <1>1
  <2> QED
    BY <1>1, <1>2, <1>3, <2>1, <2>2, <2>3 DEF StatWasTrue
<1>7. \A f : Waiting(f)' <=> Waiting(f)
  BY <1>1 DEF Waiting, Ahead
<1>8. \A f \in ToSet(results) : f \in Files
  <2>1. results \in Seq(Files)
    BY <1>2 DEF ScanTypeOK
  <2> QED
    BY <2>1 DEF ToSet
<1>9. FoundOnce' /\ NoneMissed' /\ WalkOrdered'
  BY <1>1, <1>2, <1>7, <1>8, NothingFound
<1> QED
  BY <1>1, <1>4, <1>5, <1>6, <1>9 DEF WalkInv, Walking

\* scanDir returns to its caller.
LEMMA LeaveKeeps ==
  ASSUME WalkInv, Leave
  PROVE  WalkInv'
<1>0. PICK n : n = Len(stack)
  OBVIOUS
<1> DEFINE F == [dir: Dirs, rest: Seq(Dirs \cup Files)]
<1>1. /\ n > 1 /\ Top.rest = <<>> /\ stack' = Front(stack)
      /\ UNCHANGED <<options, results, lrcExists, lyrics, seen>>
  BY <1>0 DEF Leave
<1>2. stack \in Seq(F) /\ n \in Nat /\ ScanTypeOK
  BY <1>0 DEF WalkInv, ScanTypeOK
<1>3. Walking
  <2> HIDE DEF F
  <2> QED
    BY <1>0, <1>1, <1>2 DEF Walking
<1>4. StackIsPath /\ StatWasTrue /\ FoundOnce /\ NoneMissed /\ WalkOrdered
  BY <1>3 DEF WalkInv
<1>5. StackIsPath' /\ Len(stack') = n - 1
  BY <1>0, <1>1, <1>2, <1>4, StackReturns
<1>6. stack' \in Seq(F) /\ stack' # <<>>
  <2> HIDE DEF F
  <2>1. stack' = SubSeq(stack, 1, n - 1)
    BY <1>0, <1>1 DEF Front
  <2>2. SubSeq(stack, 1, n - 1) \in Seq(F) /\ Len(SubSeq(stack, 1, n - 1)) = n - 1
    BY <1>0, <1>1, <1>2
  <2>3. n - 1 # 0
    BY <1>1, <1>2
  <2> QED
    BY <2>1, <2>2, <2>3
<1>7. ScanTypeOK'
  BY <1>1, <1>2, <1>6 DEF ScanTypeOK
<1>8. StatWasTrue'
  BY <1>1, <1>4 DEF StatWasTrue
<1>9. \A f : Waiting(f)' <=> Waiting(f)
  BY <1>2, <1>4, TurnReturns
<1>10. \A f \in ToSet(results) : f \in Files
  <2>1. results \in Seq(Files)
    BY <1>2 DEF ScanTypeOK
  <2> QED
    BY <2>1 DEF ToSet
<1>11. FoundOnce' /\ NoneMissed' /\ WalkOrdered'
  BY <1>1, <1>4, <1>9, <1>10, NothingFound
<1> QED
  BY <1>5, <1>6, <1>7, <1>8, <1>11 DEF WalkInv, Walking

\* A file is added to the results.
LEMMA FileFound ==
  ASSUME NEW x \in Files, results \in Seq(Files), results' = Append(results, x)
  PROVE  /\ results' \in Seq(Files) /\ ToSet(results') = ToSet(results) \cup {x}
         /\ \A f, g : Earlier(f, g) => Earlier(f, g)'
         /\ \A f \in ToSet(results) : Earlier(f, x)'
         /\ IsInjective(results) /\ x \notin ToSet(results) => IsInjective(results')
<1>0. PICK n : n = Len(results)
  OBVIOUS
<1>1. /\ n \in Nat /\ DOMAIN results = 1..n /\ DOMAIN results' = 1..(n + 1)
      /\ results' \in Seq(Files)
  BY <1>0
<1>2. results'[n + 1] = x /\ \A i \in 1..n : results'[i] = results[i]
  BY <1>0
<1>3. \A i \in 1..(n + 1) : i \in 1..n \/ i = n + 1
  BY <1>1
<1>4. \A i \in 1..n : i \in 1..(n + 1) /\ i < n + 1
  BY <1>1
<1>5. n + 1 \in 1..(n + 1)
  BY <1>1
<1>6. ToSet(results') = ToSet(results) \cup {x}
  <2>1. \A y \in ToSet(results') : y \in ToSet(results) \cup {x}
    BY <1>1, <1>2, <1>3 DEF ToSet
  <2>2. \A y \in ToSet(results) \cup {x} : y \in ToSet(results')
    BY <1>1, <1>2, <1>4, <1>5 DEF ToSet
  <2> QED
    BY <2>1, <2>2
<1>7. \A f, g : Earlier(f, g) => Earlier(f, g)'
  BY <1>1, <1>2, <1>4 DEF Earlier
<1>8. ASSUME NEW f \in ToSet(results) PROVE Earlier(f, x)'
  <2>1. PICK i \in 1..n : results[i] = f
    BY <1>1 DEF ToSet
  <2> QED
    BY <1>1, <1>2, <1>4, <1>5, <2>1 DEF Earlier
<1>9. ASSUME IsInjective(results), x \notin ToSet(results) PROVE IsInjective(results')
  <2>1. \A i \in 1..n : results'[i] # x
    BY <1>1, <1>2, <1>9 DEF ToSet
  <2>2. \A i, j \in 1..n : results'[i] = results'[j] => i = j
    BY <1>1, <1>2, <1>9 DEF IsInjective
  <2> QED
    BY <1>1, <1>2, <1>3, <2>1, <2>2 DEF IsInjective
<1> QED
  BY <1>1, <1>6, <1>7, <1>8, <1>9

\* What the two calls of os.Stat said, taken together, looked wanted at two
\* moments of the walk; and a file wanted all the time is eligible.
LEMMA EligibleIsWanted ==
  ASSUME NEW f, NEW t \in seen[StemOf[f]], NEW u \in seen[StemOf[f]]
  PROVE  /\ Eligible(f, "lrc" \in t, "txt" \in u) => Sometime(f)
         /\ Always(f) => Eligible(f, "lrc" \in t, "txt" \in u)
<1>1. ASSUME Eligible(f, "lrc" \in t, "txt" \in u) PROVE Sometime(f)
  <2>1. Wanted(f, "lrc" \in t, "txt" \in u)
    BY <1>1 DEF Eligible, Wanted
  <2> QED
    BY <2>1 DEF Sometime
<1>2. ASSUME Always(f) PROVE Eligible(f, "lrc" \in t, "txt" \in u)
  <2>1. Wanted(f, "lrc" \in t, "txt" \in t) /\ Wanted(f, "lrc" \in u, "txt" \in u)
    BY <1>2 DEF Always
  <2> QED
    BY <2>1 DEF Eligible, Wanted
<1> QED
  BY <1>1, <1>2

\* The second call of os.Stat, the decision and the result.
LEMMA VisitFileKeeps ==
  ASSUME WalkInv, VisitFile
  PROVE  WalkInv'
<1>0. PICK n, x : n = Len(stack) /\ x = Entry
  OBVIOUS
<1> DEFINE lrc == lrcExists = "yes"
           txt == "txt" \in lyrics[StemOf[x]]
           F == [dir: Dirs, rest: Seq(Dirs \cup Files)]
<1>1. /\ Walking /\ Top.rest # <<>> /\ lrcExists # "unknown"
      /\ stack' = Advanced /\ lrcExists' = "unknown"
      /\ results' = IF Eligible(x, lrc, txt) THEN Append(results, x) ELSE results
      /\ UNCHANGED <<options, lyrics, seen>>
  BY <1>0 DEF VisitFile
<1>2. ScanTypeOK /\ StackIsPath /\ StatWasTrue /\ FoundOnce /\ NoneMissed /\ WalkOrdered
  BY <1>1 DEF WalkInv
<1>3. x \in Files /\ x \notin Dirs /\ StemOf[x] \in Stems /\ results \in Seq(Files)
  BY <1>0, <1>1, <1>2, ScannerAssumption DEF StatWasTrue, Stems, ScanTypeOK
<1>4. /\ Advanced \in Seq(F) /\ n \in Nat /\ n > 0 /\ Len(Advanced) = n /\ n \in 1..n
      /\ DOMAIN Advanced = 1..n /\ x \in ToSet(stack[n].rest)
  BY <1>0, <1>1, <1>2, Taking
<1>5. stack' \in Seq(F) /\ stack' # <<>>
  <2> HIDE DEF F
  <2> QED
    BY <1>1, <1>4
<1>6. PICK t \in seen[StemOf[x]] : lrc <=> "lrc" \in t
  BY <1>0, <1>1, <1>2 DEF StatWasTrue
<1>7. lyrics[StemOf[x]] \in seen[StemOf[x]]
  BY <1>2, <1>3 DEF StatWasTrue
<1>8. /\ Eligible(x, lrc, txt) => Sometime(x)
      /\ Always(x) => Eligible(x, lrc, txt)
  <2>1. /\ Eligible(x, "lrc" \in t, txt) => Sometime(x)
        /\ Always(x) => Eligible(x, "lrc" \in t, txt)
    BY <1>6, <1>7, EligibleIsWanted
  <2>2. Eligible(x, lrc, txt) <=> Eligible(x, "lrc" \in t, txt)
    BY <1>6 DEF Eligible
  <2> QED
    BY <2>1, <2>2
<1>9. StackIsPath' /\ StatWasTrue'
  BY <1>1, <1>2, StackAdvances DEF StatWasTrue
<1>10. ASSUME NEW f \in Files PROVE Waiting(f) <=> Waiting(f)' \/ f = x
  <2>1. Waiting(f)' <=> \E k \in 1..n : Ahead(Advanced[k].rest, f)
    BY <1>1, <1>4 DEF Waiting, Ahead
  <2>2. Waiting(f) <=> \/ \E k \in 1..n : Ahead(Advanced[k].rest, f)
                       \/ f = x \/ OnPath(x, DirOf(f))
    BY <1>0, <1>1, <1>2, TurnTaken
  <2>3. ~OnPath(x, DirOf(f))
    BY <1>3, LiesIn, OnPathFacts
  <2> QED
    BY <2>1, <2>2, <2>3
<1>11. ~Waiting(x)'
  <2>1. ~ \E k \in 1..n : Ahead(Advanced[k].rest, x)
    BY <1>0, <1>1, <1>2, <1>3, NotAgain
  <2>2. Waiting(x)' <=> \E k \in 1..n : Ahead(Advanced[k].rest, x)
    BY <1>1, <1>4 DEF Waiting, Ahead
  <2> QED
    BY <2>1, <2>2
<1>12. /\ InReach' = InReach
       /\ \A f : (Always(f)' <=> Always(f)) /\ (Sometime(f)' <=> Sometime(f))
  BY <1>1 DEF InReach, MaxDepth, Always, Sometime, Wanted
<1>13. \A f \in ToSet(results) : f \in Files /\ ~Waiting(f)
  <2>1. \A f \in ToSet(results) : f \in Files
    BY <1>3 DEF ToSet
  <2> QED
    BY <1>2, <2>1 DEF FoundOnce
<1>14. x \notin ToSet(results)
  BY <1>3, <1>10, <1>13
<1>15. x \in InReach
  <2>1. DirOf(x) = stack[n].dir /\ Len(PathTo[stack[n].dir]) = n
    BY <1>0, <1>2, <1>3, <1>4, Calls, EntriesToCome
  <2>2. n - 1 <= MaxDepth
    BY <1>0, <1>2 DEF StackIsPath
  <2> QED
    BY <1>3, <2>1, <2>2 DEF InReach
<1>16. CASE ~Eligible(x, lrc, txt)
  <2>1. results' = results
    BY <1>1, <1>16
  <2>2. FoundOnce'
    BY <1>2, <1>10, <1>12, <1>13, <2>1 DEF FoundOnce
  <2>3. NoneMissed'
    <3>1. \A f \in InReach : f \in Files
      BY DEF InReach
    <3> QED
      BY <1>2, <1>8, <1>10, <1>12, <1>16, <2>1, <3>1 DEF NoneMissed
  <2>4. WalkOrdered'
    BY <1>1, <1>2, <2>1 DEF WalkOrdered, Earlier
  <2>5. ScanTypeOK'
    BY <1>1, <1>2, <1>5, <2>1 DEF ScanTypeOK
  <2> QED
    BY <1>5, <1>9, <2>2, <2>3, <2>4, <2>5 DEF WalkInv, Walking
<1>17. CASE Eligible(x, lrc, txt)
  <2>0. results' = Append(results, x)
    BY <1>1, <1>17
  <2>1. /\ results' \in Seq(Files) /\ ToSet(results') = ToSet(results) \cup {x}
        /\ \A f, g : Earlier(f, g) => Earlier(f, g)'
        /\ \A f \in ToSet(results) : Earlier(f, x)'
        /\ IsInjective(results) /\ x \notin ToSet(results) => IsInjective(results')
    BY <1>3, <2>0, FileFound
  <2>2. FoundOnce'
    <3>1. IsInjective(results')
      BY <1>2, <1>14, <2>1 DEF FoundOnce
    <3>2. \A f \in ToSet(results') : f \in InReach /\ Sometime(f) /\ ~Waiting(f)'
      BY <1>2, <1>8, <1>10, <1>11, <1>13, <1>15, <1>17, <2>1 DEF FoundOnce
    <3> QED
      BY <1>12, <3>1, <3>2 DEF FoundOnce
  <2>3. NoneMissed'
    <3>1. \A f \in InReach : f \in Files
      BY DEF InReach
    <3> QED
      BY <1>2, <1>10, <1>12, <2>1, <3>1 DEF NoneMissed
  <2>4. WalkOrdered'
    <3> SUFFICES ASSUME NEW f \in ToSet(results'), NEW g \in ToSet(results'),
                        Above(DirOf(f), DirOf(g))
                 PROVE  IF options.bfs THEN Earlier(f, g)' ELSE Earlier(g, f)'
      BY <1>1 DEF WalkOrdered, Above, OnPath
    <3>1. CASE f \in ToSet(results) /\ g \in ToSet(results)
      BY <1>2, <2>1, <3>1 DEF WalkOrdered
    <3>2. CASE f = x /\ g = x
      BY <3>2 DEF Above
    <3>3. CASE f \in ToSet(results) /\ g = x
      <4>1. IF options.bfs THEN ~Above(DirOf(x), DirOf(f)) ELSE ~Above(DirOf(f), DirOf(x))
        BY <1>0, <1>1, <1>2, <1>3, <1>13, <3>3, FoundInOrder
      <4> QED
        BY <2>1, <3>3, <4>1
    <3>4. CASE f = x /\ g \in ToSet(results)
      <4>1. IF options.bfs THEN ~Above(DirOf(x), DirOf(g)) ELSE ~Above(DirOf(g), DirOf(x))
        BY <1>0, <1>1, <1>2, <1>3, <1>13, <3>4, FoundInOrder
      <4> QED
        BY <2>1, <3>4, <4>1
    <3> QED
      BY <2>1, <3>1, <3>2, <3>3, <3>4
  <2>5. ScanTypeOK'
    BY <1>1, <1>2, <1>5, <2>1 DEF ScanTypeOK
  <2> QED
    BY <1>5, <1>9, <2>2, <2>3, <2>4, <2>5 DEF WalkInv, Walking
<1> QED
  BY <1>16, <1>17

\* Lyrics files come and go.
LEMMA LyricsChangeKeeps ==
  ASSUME WalkInv, LyricsChange
  PROVE  WalkInv'
<1>1. Walking /\ UNCHANGED <<options, stack, results, lrcExists>>
  BY DEF LyricsChange
<1>2. ScanTypeOK /\ StackIsPath /\ StatWasTrue /\ FoundOnce /\ NoneMissed /\ WalkOrdered
  BY <1>1 DEF WalkInv
<1>3. PICK s \in Stems, there \in Sidecars :
        /\ lyrics' = [lyrics EXCEPT ![s] = there]
        /\ seen' = [seen EXCEPT ![s] = @ \cup {there}]
  BY DEF LyricsChange
<1>4. lyrics \in [Stems -> Sidecars] /\ seen \in [Stems -> SUBSET Sidecars]
  BY <1>2 DEF StatWasTrue
<1>5. /\ lyrics' \in [Stems -> Sidecars] /\ seen' \in [Stems -> SUBSET Sidecars]
      /\ \A r \in Stems : seen[r] \subseteq seen'[r]
      /\ \A r \in Stems : lyrics'[r] = IF r = s THEN there ELSE lyrics[r]
      /\ \A r \in Stems : seen'[r] = IF r = s THEN seen[r] \cup {there} ELSE seen[r]
  BY <1>3, <1>4
<1>6. \A r \in Stems : lyrics'[r] \in seen'[r]
  BY <1>2, <1>5 DEF StatWasTrue
<1>7. StatWasTrue'
  <2>1. Top' = Top /\ Entry' = Entry
    BY <1>1 DEF Top, Entry
  <2>2. Entry \in Files => StemOf[Entry] \in Stems
    BY DEF Stems
  <2> QED
    BY <1>1, <1>2, <1>5, <1>6, <2>1, <2>2 DEF StatWasTrue
<1>8. ScanTypeOK' /\ StackIsPath'
  BY <1>1, <1>2, StackKept DEF ScanTypeOK
<1>9. \A f : Waiting(f)' <=> Waiting(f)
  BY <1>1 DEF Waiting, Ahead
<1>10. InReach' = InReach
  BY <1>1 DEF InReach, MaxDepth
<1>11. ASSUME NEW f \in Files
       PROVE  (Always(f)' => Always(f)) /\ (Sometime(f) => Sometime(f)')
  <2>1. StemOf[f] \in Stems
    BY DEF Stems
  <2>2. seen[StemOf[f]] \subseteq seen'[StemOf[f]]
    BY <1>5, <2>1
  <2>3. \A l, t : Wanted(f, l, t)' <=> Wanted(f, l, t)
    BY <1>1 DEF Wanted
  <2> QED
    BY <2>2, <2>3 DEF Always, Sometime
<1>12. \A f \in InReach : f \in Files
  BY DEF InReach
<1>13. FoundOnce'
  BY <1>1, <1>2, <1>9, <1>10, <1>11, <1>12 DEF FoundOnce
<1>14. NoneMissed'
  BY <1>1, <1>2, <1>9, <1>10, <1>11, <1>12 DEF NoneMissed
<1>15. WalkOrdered'
  BY <1>1, <1>2 DEF WalkOrdered, Earlier
<1> QED
  BY <1>1, <1>7, <1>8, <1>13, <1>14, <1>15 DEF WalkInv, Walking

\* A step of the walk.
LEMMA WalkKeeps ==
  ASSUME WalkInv, Walk
  PROVE  WalkInv'
BY VisitDirKeeps, StatLrcKeeps, VisitFileKeeps, LeaveKeeps DEF Walk

\* A step of the rest of the command.
LEMMA WalkStays ==
  ASSUME WalkInv, UNCHANGED scanVars
  PROVE  WalkInv'
<1>1. UNCHANGED <<options, stack, results, lrcExists, lyrics, seen>>
  BY DEF scanVars
<1>2. ScanTypeOK'
  BY <1>1 DEF WalkInv, ScanTypeOK
<1>3. CASE ~Walking
  BY <1>1, <1>2, <1>3 DEF WalkInv, Walking
<1>4. CASE Walking
  <2>1. StackIsPath /\ StatWasTrue /\ FoundOnce /\ NoneMissed /\ WalkOrdered /\ ScanTypeOK
    BY <1>4 DEF WalkInv
  <2>2. StackIsPath'
    BY <1>1, <2>1, StackKept
  <2>3. StatWasTrue'
    BY <1>1, <2>1 DEF StatWasTrue, Top, Entry
  <2>4. \A f : Waiting(f)' <=> Waiting(f)
    BY <1>1 DEF Waiting, Ahead
  <2>5. \A f \in ToSet(results) : f \in Files
    BY <2>1 DEF ScanTypeOK, ToSet
  <2>6. FoundOnce' /\ NoneMissed' /\ WalkOrdered'
    BY <1>1, <2>1, <2>4, <2>5, NothingFound
  <2> QED
    BY <1>1, <1>2, <1>4, <2>2, <2>3, <2>6 DEF WalkInv, Walking
<1> QED
  BY <1>3, <1>4

\* The invariant says what the walk should return.
LEMMA WalkReturns == WalkInv => WalkComplete /\ WalkOrdered
<1> SUFFICES ASSUME WalkInv PROVE WalkComplete /\ WalkOrdered
  OBVIOUS
<1>1. WalkOrdered
  BY DEF WalkInv, WalkOrdered, ToSet
<1>2. ASSUME ScanOver PROVE WalkComplete
  <2>1. Len(stack) = 1 /\ Top.rest = <<>> /\ stack \in Seq([dir: Dirs, rest: Seq(Dirs \cup Files)])
    BY <1>2 DEF ScanOver, WalkInv, ScanTypeOK
  <2>2. stack # <<>> /\ DOMAIN stack = {1} /\ stack[1].rest = <<>>
    <3>1. Len(stack) = 1 /\ DOMAIN stack = 1..Len(stack) /\ stack[1].rest = <<>>
      BY <2>1 DEF Top
    <3>2. 1..1 = {1}
      OBVIOUS
    <3>3. stack # <<>>
      BY <3>1
    <3> QED
      BY <3>1, <3>2, <3>3
  <2>3. \A f : ~Waiting(f)
    BY <2>2 DEF Waiting, Ahead, ToSet
  <2> QED
    BY <2>2, <2>3 DEF WalkInv, Walking, FoundOnce, NoneMissed, WalkComplete
<1> QED
  BY <1>1, <1>2 DEF WalkComplete

-----------------------------------------------------------------------------
(* The command.                                                            *)

\* GetSongMulti counts a natural number of songs.
LEMMA SongsCounted ==
  ASSUME NEW n \in Nat, NEW lines
  PROVE  Cardinality({i \in 1..n : IsSong(lines[i])}) \in Nat
<1> DEFINE songs == {i \in 1..n : IsSong(lines[i])}
<1>1. IsFiniteSet(1..n)
  BY FS_Interval
<1>2. songs \in SUBSET (1..n)
  OBVIOUS
<1> HIDE DEF songs
<1>3. IsFiniteSet(songs)
  BY <1>1, <1>2, FS_Subset
<1>4. Cardinality(songs) \in Nat
  BY <1>3, FS_CardinalityType
<1> QED
  BY <1>4 DEF songs

\* The options of a scanner that does not walk, and its other variables.
LEMMA UnusedOptions ==
  Unused.options \in [update: BOOLEAN, upgrade: BOOLEAN, depth: Int, bfs: BOOLEAN]
<1>1. Unused.options = [update |-> FALSE, upgrade |-> FALSE, depth |-> 0, bfs |-> FALSE]
  BY DEF Unused
<1>2. [update |-> FALSE, upgrade |-> FALSE, depth |-> 0, bfs |-> FALSE]
        \in [update: BOOLEAN, upgrade: BOOLEAN, depth: Int, bfs: BOOLEAN]
  OBVIOUS
<1> QED
  BY <1>1, <1>2

LEMMA NoWalk ==
  ASSUME options = Unused.options, stack = <<>>, results = <<>>, lrcExists = "unknown"
  PROVE  WalkInv
<1>1. /\ options.depth \in Int /\ options.update \in BOOLEAN
      /\ options.upgrade \in BOOLEAN /\ options.bfs \in BOOLEAN
  BY UnusedOptions
<1> DEFINE F == [dir: Dirs, rest: Seq(Dirs \cup Files)]
<1>2. stack \in Seq(F) /\ results \in Seq(Files)
  <2> HIDE DEF F
  <2> QED
    OBVIOUS
<1>3. ScanTypeOK
  BY <1>1, <1>2 DEF ScanTypeOK
<1>4. ~Walking
  BY DEF Walking
<1> QED
  BY <1>3, <1>4 DEF WalkInv

\* The command begins with nothing parsed and, in dir mode, at the root.
LEMMA CommandBegins == CommandInit => CommandInv
<1> SUFFICES ASSUME CommandInit PROVE CommandInv
  OBVIOUS
<1>1. /\ pc = "parse" /\ mode \in Modes /\ total = 0 /\ inputs = <<>> /\ failed = <<>>
      /\ saved = <<>> /\ rows = <<>>
  BY DEF CommandInit, FetchInit
<1>2. FetchTypeOK
  BY <1>1, FetchAppAssumption DEF FetchTypeOK
<1>3. TriedInOrder
  <2>1. /\ Tried = 0 /\ Len(inputs) = 0 /\ 1..0 = {}
        /\ DOMAIN inputs = {} /\ DOMAIN rows = {} /\ DOMAIN failed = {}
    BY <1>1 DEF Tried
  <2>2. ToSet(saved) = {} /\ ToSet(rows) = {} /\ ToSet(failed) = {}
    BY <1>1 DEF ToSet
  <2> QED
    BY <1>1, <2>1, <2>2 DEF TriedInOrder, Ascending
<1>4. Phases
  BY <1>1 DEF Phases
<1>5. WalkInv
  <2>1. CASE mode = "dir"
    <3>1. options \in Options /\ lyrics \in [Stems -> Sidecars] /\ ScanBegins
      BY <2>1 DEF CommandInit
    <3>2. /\ options.depth \in Int /\ options.update \in BOOLEAN
          /\ options.upgrade \in BOOLEAN /\ options.bfs \in BOOLEAN
      BY <3>1, ScannerAssumption DEF Options
    <3> QED
      BY <3>1, <3>2, WalkBegins
  <2>2. CASE mode # "dir"
    BY <2>2, NoWalk DEF CommandInit
  <2> QED
    BY <2>1, <2>2
<1> QED
  BY <1>2, <1>3, <1>4, <1>5 DEF CommandInv, FetchInv

\* Every step of the command keeps its invariant.
LEMMA CommandStep == CommandInv /\ [CommandNext]_allVars => CommandInv'
<1> SUFFICES ASSUME CommandInv, [CommandNext]_allVars PROVE CommandInv'
  OBVIOUS
<1>1. FetchInv /\ WalkInv
  BY DEF CommandInv
<1>2. CASE ScanStep
  <2>1. UNCHANGED vars
    BY <1>2 DEF ScanStep
  <2> QED
    BY <1>1, <1>2, <2>1, WalkKeeps, FetchStep DEF CommandInv, ScanStep
<1>3. CASE DirParsed
  <2>1. Len(results) \in Nat
    BY <1>1 DEF WalkInv, ScanTypeOK
  <2>2. FetchInv'
    BY <1>1, <1>3, <2>1, FetchStep DEF DirParsed
  <2>3. /\ options' = Unused.options /\ stack' = <<>> /\ results' = <<>>
        /\ lrcExists' = "unknown"
    BY <1>3 DEF DirParsed
  <2>4. WalkInv'
    <3>1. /\ options'.depth \in Int /\ options'.update \in BOOLEAN
          /\ options'.upgrade \in BOOLEAN /\ options'.bfs \in BOOLEAN
      BY <2>3, UnusedOptions
    <3> DEFINE F == [dir: Dirs, rest: Seq(Dirs \cup Files)]
    <3>2. stack' \in Seq(F) /\ results' \in Seq(Files)
      <4> HIDE DEF F
      <4> QED
        BY <2>3
    <3>3. ScanTypeOK'
      BY <2>3, <3>1, <3>2 DEF ScanTypeOK
    <3>4. ~Walking'
      BY <2>3 DEF Walking
    <3> QED
      BY <2>3, <3>3, <3>4 DEF WalkInv
  <2> QED
    BY <2>2, <2>4 DEF CommandInv
<1>4. CASE SongsParsed
  <2>1. \A k \in 0..MaxInputs : k \in Nat
    BY FetchAppAssumption
  <2>2. PICK n \in 0..MaxInputs : \E lines \in [1..n -> {"artist,title", "other"}] :
          NewApp(Cardinality({i \in 1..n : IsSong(lines[i])}))
    BY <1>4 DEF SongsParsed
  <2>3. PICK lines \in [1..n -> {"artist,title", "other"}] :
          NewApp(Cardinality({i \in 1..n : IsSong(lines[i])}))
    BY <2>2
  <2>4. n \in Nat
    BY <2>1
  <2> DEFINE songs == Cardinality({i \in 1..n : IsSong(lines[i])})
  <2>5. songs \in Nat
    BY <2>4, SongsCounted
  <2>6. NewApp(songs)
    BY <2>3
  <2> HIDE DEF songs
  <2>7. FetchInv'
    BY <1>1, <2>5, <2>6, FetchStep
  <2>8. WalkInv'
    BY <1>1, <1>4, WalkStays DEF SongsParsed
  <2> QED
    BY <2>7, <2>8 DEF CommandInv
<1>5. CASE ParseFails
  <2>1. pc' = "error" /\ UNCHANGED queues /\ mode' = mode
    BY <1>5 DEF ParseFails, queues
  <2>2. WalkInv'
    <3>1. UNCHANGED scanVars
      BY <1>5 DEF ParseFails
    <3> QED
      BY <1>1, <3>1, WalkStays
  <2> QED
    BY <1>1, <2>1, <2>2, FetchStep DEF CommandInv
<1>6. CASE (Run \/ Cancel) /\ UNCHANGED scanVars
  <2>1. WalkInv'
    BY <1>1, <1>6, WalkStays
  <2> QED
    BY <1>1, <1>6, <2>1, FetchStep DEF CommandInv
<1>7. CASE LyricsChange /\ UNCHANGED vars
  <2>1. WalkInv'
    BY <1>1, <1>7, LyricsChangeKeeps
  <2> QED
    BY <1>1, <1>7, <2>1, FetchStep DEF CommandInv
<1>8. CASE UNCHANGED allVars
  <2>1. UNCHANGED vars /\ UNCHANGED scanVars
    BY <1>8 DEF allVars
  <2>2. WalkInv'
    BY <1>1, <2>1, WalkStays
  <2> QED
    BY <1>1, <2>1, <2>2, FetchStep DEF CommandInv
<1> QED
  BY <1>2, <1>3, <1>4, <1>5, <1>6, <1>7, <1>8 DEF CommandNext, Proceed

\* No input is in two queues, so the four of them together are the list.
LEMMA AllCounted == FetchInv => NothingLost
<1> SUFFICES ASSUME FetchInv PROVE NothingLost
  OBVIOUS
<1>1. /\ inputs \in Seq(Nat) /\ failed \in Seq(Nat) /\ saved \in Seq(Nat) /\ rows \in Seq(Nat)
      /\ Len(inputs) \in Nat /\ Len(failed) \in Nat /\ Len(saved) \in Nat /\ Len(rows) \in Nat
      /\ Tried \in Nat /\ total \in Nat
      /\ Tried + Len(inputs) = total
      /\ \A i \in DOMAIN inputs : inputs[i] = Tried + i
      /\ ToSet(saved) \cup ToSet(rows) \cup ToSet(failed) = 1..Tried
  BY QueueFacts DEF TriedInOrder
<1>2. ToSet(inputs) = (Tried + 1)..total
  BY <1>1, QueuedSet
<1>3. /\ saved \o rows \in Seq(Nat) /\ Len(saved \o rows) = Len(saved) + Len(rows)
      /\ ToSet(saved \o rows) = ToSet(saved) \cup ToSet(rows)
  BY <1>1, Drained
<1> DEFINE a == saved \o rows
           b == a \o failed
           c == b \o inputs
<1>4. /\ a \in Seq(Nat) /\ Len(a) = Len(saved) + Len(rows)
      /\ ToSet(a) = ToSet(saved) \cup ToSet(rows)
  BY <1>3
<1> HIDE DEF a
<1>5. /\ b \in Seq(Nat) /\ Len(b) = Len(a) + Len(failed)
      /\ ToSet(b) = ToSet(a) \cup ToSet(failed)
  BY <1>1, <1>4, Drained
<1> HIDE DEF b
<1>6. Len(c) = Len(b) + Len(inputs) /\ ToSet(c) = ToSet(b) \cup ToSet(inputs)
  BY <1>1, <1>5, Drained
<1> HIDE DEF c
<1>7. Len(c) = total
  BY <1>1, <1>4, <1>5, <1>6 DEF Tried
<1>8. ToSet(c) = 1..total
  <2>1. 1..total = (1..Tried) \cup ((Tried + 1)..total)
    BY <1>1
  <2> QED
    BY <1>1, <1>2, <1>4, <1>5, <1>6, <2>1
<1> QED
  BY <1>7, <1>8 DEF NothingLost, a, b, c

\* What is left over when handleFailed has listed all failed inputs.
LEMMA EndHonest == FetchInv => HonestEnd
<1> SUFFICES ASSUME FetchInv, pc = "done" PROVE
      /\ success = Len(saved)
      /\ mode # "dir" => ToSet(rows) = (1..total) \ ToSet(saved) /\ Ascending(rows)
  BY DEF HonestEnd
<1>1. /\ success = Len(saved) /\ inputs = <<>> /\ (mode # "dir" => failed = <<>>)
      /\ Ascending(rows) /\ total \in Nat /\ Tried \in Nat
      /\ Tried + Len(inputs) = total
      /\ ToSet(saved) \cup ToSet(rows) \cup ToSet(failed) = 1..Tried
      /\ ToSet(saved) \cap (ToSet(rows) \cup ToSet(failed)) = {}
  BY QueueFacts DEF TriedInOrder, Phases
<1>2. Tried = total
  <2>1. Len(inputs) = 0
    BY <1>1
  <2> QED
    BY <1>1, <2>1
<1>3. failed = <<>> => ToSet(failed) = {}
  BY DEF ToSet
<1> QED
  BY <1>1, <1>2, <1>3

\* Whatever the tree, the arguments and the outcomes, and wherever Ctrl+C
\* hits: the inputs before some position were tried and went to exactly one of
\* the saved and the failed, the others wait in their order.
THEOREM CommandInvariant == CommandSpec => []CommandInv
BY CommandBegins, CommandStep, PTL DEF CommandSpec

\* App.Run loses no input and reports none twice, for any number of them.
THEOREM NoInputLost == CommandSpec => []NothingLost
<1>1. CommandInv => NothingLost
  BY AllCounted DEF CommandInv
<1> QED
  BY <1>1, CommandInvariant, PTL

\* When the command ends well, the count that handleFailed logs and the
\* failed-items file account for every input, for any number of them.
THEOREM EndsHonestly == CommandSpec => []HonestEnd
<1>1. CommandInv => HonestEnd
  BY EndHonest DEF CommandInv
<1> QED
  BY <1>1, CommandInvariant, PTL

\* ScanLibrary's walk finds every file in reach of --depth that was wanted all
\* the time, only files in reach that looked wanted to its two calls of Stat,
\* and none twice: for any tree, any options, and lyrics files that come and go.
THEOREM WalkFindsAll == CommandSpec => []WalkComplete
<1>1. CommandInv => WalkComplete
  BY WalkReturns DEF CommandInv
<1> QED
  BY <1>1, CommandInvariant, PTL

\* The sort of scanDir orders the files found across directories: with --bfs
\* those of a directory before those below it, else after them, for any tree.
THEOREM WalkInOrder == CommandSpec => []WalkOrdered
<1>1. CommandInv => WalkOrdered
  BY WalkReturns DEF CommandInv
<1> QED
  BY <1>1, CommandInvariant, PTL

\* What Run has left to do is a number.
LEMMA WorkIsNat ==
  ASSUME FetchInv
  PROVE  Work \in Nat /\ Rounds \in Nat
BY QueueFacts DEF Work, Rounds

\* Each step of Run leaves less to do.
LEMMA RunStepShrinks ==
  ASSUME FetchInv, Run
  PROVE  Work' < Work
<1> DEFINE n == Len(inputs)
           f == Len(failed)
<1>1. /\ inputs \in Seq(Nat) /\ failed \in Seq(Nat) /\ n \in Nat /\ f \in Nat
      /\ pc = "search" => inputs # <<>>
  BY QueueFacts DEF Phases
<1>2. /\ inputs # <<>> => /\ Len(Tail(inputs)) = n - 1 /\ n > 0
                         /\ Len(Append(failed, Head(inputs))) = f + 1
      /\ failed # <<>> => Len(Tail(failed)) = f - 1 /\ f > 0
      /\ Len(failed \o inputs) = f + n /\ Len(<<>>) = 0
  <2>1. inputs # <<>> => Head(inputs) \in Nat /\ Len(Tail(inputs)) = n - 1 /\ n > 0
    BY <1>1, Popped
  <2>2. inputs # <<>> => Len(Append(failed, Head(inputs))) = f + 1
    BY <1>1, <2>1, Pushed
  <2>3. failed # <<>> => Len(Tail(failed)) = f - 1 /\ f > 0
    BY <1>1, Popped
  <2>4. Len(failed \o inputs) = f + n
    BY <1>1, Drained
  <2> QED
    BY <2>1, <2>2, <2>3, <2>4
<1>3. CASE Search
  BY <1>1, <1>3 DEF Search, Work, Rounds
<1>4. CASE LoopEnds
  BY <1>1, <1>4 DEF LoopEnds, Work, Rounds
<1>5. CASE Found
  <2>1. Len(inputs') = n - 1 /\ Len(failed') = f /\ Rounds = 3 /\ Rounds' = 5
    BY <1>1, <1>2, <1>5 DEF Found, Rounds
  <2> QED
    BY <1>1, <2>1 DEF Work
<1>6. CASE Unwritable
  <2>1. Len(inputs') = n - 1 /\ Len(failed') = f + 1 /\ Rounds = 3 /\ Rounds' = 5
    BY <1>1, <1>2, <1>6 DEF Unwritable, Rounds
  <2> QED
    BY <1>1, <2>1 DEF Work
<1>7. CASE NotFound
  <2>1. Len(inputs') = n - 1 /\ Len(failed') = f + 1 /\ Rounds = 3 /\ Rounds' = 5
    BY <1>1, <1>2, <1>7 DEF NotFound, Rounds
  <2> QED
    BY <1>1, <2>1 DEF Work
<1>8. CASE Waited
  BY <1>1, <1>8 DEF Waited, Work, Rounds
<1>9. CASE Drain
  <2>1. Len(inputs') = 0 /\ Len(failed') = f + n /\ Rounds = 2 /\ Rounds' \in {0, 1}
    BY <1>2, <1>9 DEF Drain, Rounds
  <2> QED
    BY <1>1, <2>1 DEF Work
<1>10. CASE Row
  <2>1. Len(inputs') = n /\ Len(failed') = f - 1 /\ Rounds' = Rounds /\ Rounds = 1
    BY <1>2, <1>10 DEF Row, Rounds
  <2> QED
    BY <1>1, <2>1 DEF Work
<1>11. CASE ListEnds
  BY <1>1, <1>11 DEF ListEnds, Work, Rounds
<1>12. CASE ListFails
  BY <1>1, <1>12 DEF ListFails, Work, Rounds
<1> QED
  BY <1>3, <1>4, <1>5, <1>6, <1>7, <1>8, <1>9, <1>10, <1>11, <1>12 DEF Run

\* App.Run goes round at most once per input, whatever fails and whenever it is
\* canceled: what is left to do is a natural number that each of its steps
\* makes smaller, so that Run can take only finitely many.
THEOREM RunIsFinite == CommandSpec => [](Work \in Nat) /\ [][WorkShrinks]_allVars
<1>1. CommandInv => Work \in Nat
  BY WorkIsNat DEF CommandInv
<1>2. ASSUME CommandInv, [CommandNext]_allVars PROVE [WorkShrinks]_allVars
  <2>1. Cancel => Work' = Work
    BY DEF Cancel, Work, Rounds
  <2> QED
    BY <1>2, <2>1, RunStepShrinks DEF CommandInv, WorkShrinks
<1> QED
  BY <1>1, <1>2, CommandInvariant, PTL DEF CommandSpec

=============================================================================
