---------------------------- MODULE MCWgcCapture ----------------------------
(* Instances of WgcBusCapture, which includes the private-ring mode.       *)
EXTENDS WgcBusCapture, TLC

Region1(x) == [mode |-> "absolute_region", x |-> x, width |-> 1]

\* A planar bus with inferred moves, and a direct one with cursor shapes.
Moves == [only |-> TRUE, planar |-> TRUE, width |-> 2, native |-> TRUE,
          moves |-> TRUE, cursor |-> FALSE]
Cursor == [only |-> TRUE, planar |-> FALSE, width |-> 2, native |-> FALSE,
           moves |-> FALSE, cursor |-> TRUE]

TwoBoxes == {FullFrame, Region1(1)}
TwoBuses == {Moves, Cursor}

\* Consumers are interchangeable.
ConsumerSymmetry == Permutations(Consumers)
=============================================================================
