---------------------------- MODULE MCAxisGroup -----------------------------
(***************************************************************************)
(* Two members for the instances of AxisGroup.                             *)
(***************************************************************************)
EXTENDS AxisGroup

CONSTANTS m1, m2

TwoMembers == {m1, m2}
=============================================================================
