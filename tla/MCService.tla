----------------------------- MODULE MCService -----------------------------
(* Small instances of Service for TLC.                                     *)
EXTENDS Service

\* One file of one library.
OneFile == {"f1"}
OneLibOf == [f1 |-> "l1"]
OnePathOf == [f1 |-> "p1"]
OneKeyOf == [f1 |-> "k1"]
OnePaths == {"p1", "hook"}

\* Two files of one library, of two songs or of one.
TwoFiles == {"f1", "f2"}
TwoLibOf == [f1 |-> "l1", f2 |-> "l1"]
TwoPathOf == [f1 |-> "p1", f2 |-> "p2"]
TwoKeyOf == [f1 |-> "k1", f2 |-> "k2"]
SameKeyOf == [f1 |-> "k1", f2 |-> "k1"]
TwoPaths == {"p1", "p2", "hook"}

MCDelay == [n \in 1..AttemptCap |-> n]

=============================================================================
