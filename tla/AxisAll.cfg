CONSTANTS
    MaxId = 3
    QueueCapacity = 1
    MaxTicks = 2
    Feasible = {TRUE, FALSE}
    Commands <- MixedCommands
    Calls = {"power_feedback", "trigger_error", "set_override", "update_target", "acceleration_profile", "gear_in", "cam_in", "combine_in", "sync_out", "stream", "superimposed", "homing"}
SPECIFICATION Spec
INVARIANTS NoMotionWithoutPower SingleWriter
