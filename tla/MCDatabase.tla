----------------------------- MODULE MCDatabase -----------------------------
(* A small instance of Database for TLC: one file in each of two           *)
(* libraries, whose songs collapse into one work row.                      *)
EXTENDS Database

MCFiles == {"f1", "f2"}
MCLibOf == [f1 |-> "l1", f2 |-> "l2"]
MCPathOf == [f1 |-> "p1", f2 |-> "p2"]
MCPaths == {"p1", "p2", "hook"}

\* Two steps of backoff, longer than one tick.
MCDelay == [n \in 1..AttemptCap |-> n + 1]

=============================================================================
