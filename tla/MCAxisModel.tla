---------------------------- MODULE MCAxisModel ----------------------------
(***************************************************************************)
(* Sets of commands and calls for the instances of AxisModel.              *)
(***************************************************************************)
EXTENDS AxisModel

Move(kind, mode) == [kind |-> kind, mode |-> mode, inside |-> TRUE, lock |-> FALSE,
                     homing |-> FALSE, timed |-> FALSE]

Outside(kind, mode) == [Move(kind, mode) EXCEPT !.inside = FALSE]
Locking(mode) == [Move("stop", mode) EXCEPT !.lock = TRUE]

Positioning == {Move("move_absolute", mode) : mode \in {"aborting", "buffered", "blending"}}
Continuous == {Move("move_velocity", "aborting"),
               Move("move_continuous_absolute", "buffered")}

\* All that a queue may hold.
QueueCommands == Positioning \cup Continuous \cup
                    {Locking("aborting"), Move("halt", "aborting"),
                     [Move("move_velocity", "buffered") EXCEPT !.timed = TRUE]}

\* One command of every kind that start() tells apart.
MixedCommands == {Move("move_absolute", "aborting"), Move("move_absolute", "buffered"),
                  Move("move_continuous_absolute", "aborting"),
                  Move("torque", "aborting"), Locking("aborting"),
                  Outside("move_relative", "buffered"),
                  [Move("move_velocity", "aborting") EXCEPT !.homing = TRUE]}

=============================================================================
