---------------------------- MODULE MCJointGroup ----------------------------
(***************************************************************************)
(* JointGroup on three sessions: three upsampled joints of which two may   *)
(* replan slowly in a cycle, two direct joints, and one legacy joint.      *)
(***************************************************************************)
EXTENDS JointGroup, Sequences

Upsampled == [kind |-> "frame", mode |-> "upsample", n |-> 2, timeout |-> <<1, 2>>,
              extrapolation |-> <<2, 0>>, ramp |-> 3, quintic |-> TRUE]
Direct == [kind |-> "frame", mode |-> "direct", n |-> 2, timeout |-> <<1, 2>>,
           extrapolation |-> <<2, 1>>, ramp |-> 1, quintic |-> FALSE]
Legacy == [kind |-> "legacy", mode |-> "upsample", n |-> 1, timeout |-> <<1, 1>>,
           extrapolation |-> <<2, 2>>, ramp |-> 1, quintic |-> TRUE]

Sessions == {Upsampled, Direct, Legacy}
PastAndFuture == {-1, 0, 1}
=============================================================================
