------------------------ MODULE MCAxisFunctionBlocks ------------------------
(***************************************************************************)
(* Programs for the instances of AxisFunctionBlocks.                       *)
(***************************************************************************)
EXTENDS AxisFunctionBlocks

Motion(kind, mode) == [kind |-> kind, mode |-> mode, inside |-> TRUE,
                       lock |-> kind = "stop", homing |-> FALSE, timed |-> FALSE]

FB(class, kind, mode, update) ==
    [class |-> class, command |-> Motion(kind, mode), update |-> update]

Move == FB("move", "move_absolute", "aborting", FALSE)
Buffer == FB("move", "move_absolute", "buffered", TRUE)
Stop == FB("stop", "stop", "aborting", FALSE)
Continuous == FB("continuous", "move_continuous_absolute", "aborting", FALSE)
Offset == FB("superimposed", "move_absolute", "aborting", FALSE)

MixedPrograms == {<<Move, Buffer>>, <<Buffer, Stop>>,
                  <<Continuous, Offset>>, <<Offset, Move>>}
=============================================================================
