----------------------------- MODULE AxisModel -----------------------------
(***************************************************************************)
(* core/axis/state.h: one PLCopen axis.  AxisModel is the single writer of *)
(* the axis set point; function blocks and groups call it between cycles,  *)
(* and cycle() advances it by one period.                                  *)
(*                                                                         *)
(* The state is one record, ax, and every member function that changes     *)
(* state is an operator on it, so that functions call each other as they   *)
(* do in the code.  Kept: the PLCopen state, the active command, the queue *)
(* of buffered commands, the MC_Stop lock, power and error, synchronized,  *)
(* streamed and superimposed motion, override braking, command ids and     *)
(* their results.  Abstracted: positions and velocities are reduced to     *)
(* "the set point moves" (moving); a planned profile is the number of      *)
(* cycles it still takes; whether a target is inside the software limits   *)
(* is an attribute of the command, whether a plan is feasible an input of  *)
(* the step.  The axis is not a member of a group.                         *)
(***************************************************************************)
EXTENDS Naturals, Sequences

CONSTANTS MaxId,         \* bound on next_command_id_: ids handed out
          QueueCapacity, \* AxisModel::QueueCapacity
          MaxTicks,      \* bound on the cycles a profile takes
          Commands,      \* motion commands that callers submit
          Calls,         \* the other calls that callers make
          Feasible       \* what planning a profile may come to

CommandKinds == {"move_absolute", "move_relative", "move_velocity",
                 "move_continuous_absolute", "halt", "stop", "torque",
                 "acceleration_profile"}

\* AxisCommand before an id is given to it.  inside: the target lies within
\* the software limits; timed: min_duration_cycles > 0 on a velocity command.
CommandInput == [kind : CommandKinds \ {"acceleration_profile"},
                 mode : {"aborting", "buffered", "blending"},
                 inside : BOOLEAN, lock : BOOLEAN, homing : BOOLEAN,
                 timed : BOOLEAN]

CallNames == {"power_feedback", "trigger_error", "set_override",
              "update_target", "acceleration_profile", "gear_in", "cam_in",
              "combine_in", "sync_out", "stream", "superimposed", "homing"}

\* A profile takes at least one cycle; a queue has room for one command.
ASSUME AxisAssumption ==
    /\ MaxId \in Nat
    /\ QueueCapacity \in Nat \ {0}
    /\ MaxTicks \in Nat \ {0}
    /\ Commands \subseteq CommandInput
    /\ Calls \subseteq CallNames
    /\ Feasible \subseteq BOOLEAN

VARIABLE ax

Id == 1 .. MaxId
Ticks == 1 .. MaxTicks

AxisStatus == {"disabled", "standstill", "homing", "discrete_motion",
               "continuous_motion", "synchronized_motion", "stopping",
               "errorstop"}

Command == [kind : CommandKinds, mode : {"aborting", "buffered", "blending"},
            inside : BOOLEAN, lock : BOOLEAN, homing : BOOLEAN, timed : BOOLEAN,
            id : 0 .. MaxId]

\* AxisCommand{} (with the default kind and mode)
NoCommand == [kind |-> "move_absolute", mode |-> "aborting", inside |-> TRUE,
              lock |-> FALSE, homing |-> FALSE, timed |-> FALSE, id |-> 0]

AxisInit ==
    [status |-> "disabled", powered |-> FALSE, error |-> FALSE,
     feedback |-> TRUE,          \* power_feedback_
     override |-> TRUE,          \* override_ > 0
     active |-> FALSE, cmd |-> NoCommand, activeId |-> 0,
     left |-> 0,                 \* cycles until active_profile_ ends
     holding |-> FALSE,          \* continuous_holding_
     braking |-> FALSE,          \* override_braking_
     paused |-> FALSE,           \* override_paused_
     profiled |-> FALSE,         \* halt_profiled_
     moving |-> FALSE,           \* command velocity, or acceleration, not 0
     queue |-> <<>>,
     stopLock |-> 0, stopRelease |-> FALSE,
     sync |-> "none", phase |-> "idle", entry |-> "idle", syncId |-> 0,
     streamId |-> 0,             \* 0: no stream session
     supId |-> 0,                \* 0: no superimposed offset
     supLeft |-> 0, supHalting |-> FALSE, supDone |-> 0,
     lastDone |-> 0,             \* last_completed_command_id
     errors |-> {},              \* ids in the command error ledger
     nextId |-> 1,
     result |-> [i \in Id |-> "unused"]] \* history: what became of each id

-----------------------------------------------------------------------------
(* The history of command ids.  An id is live from the call that was given  *)
(* it until the command completes, fails, or is taken over.                 *)

Results == {"unused", "rejected", "live", "done", "aborted", "error"}

\* Ids in S that are still live get the result r.
Ended(a, S, r) ==
    [i \in Id |-> IF i \in S /\ a.result[i] = "live" THEN r ELSE a.result[i]]

QueueIds(a) == {a.queue[k].id : k \in DOMAIN a.queue}

\* The ids that some part of the axis still works on or will work on.
OwnedIds(a) ==
    ((IF a.active THEN {a.activeId} ELSE {}) \cup QueueIds(a)
        \cup {a.syncId, a.streamId, a.supId}) \ {0}

\* next_command_id_++ for a command that was accepted, or not.
NewId(a, r) == [a EXCEPT !.nextId = @ + 1, !.result[a.nextId] = r]

-----------------------------------------------------------------------------
(* Private member functions.                                                *)

\* Where an axis with no motion is.
RestStatus(a) == IF a.powered THEN "standstill" ELSE "disabled"

record_command_error(a, S) ==
    [a EXCEPT !.errors = @ \cup (S \ {0}), !.result = Ended(a, S, "error")]

\* Mutant: the queue survives an abort.
abort_motionKeepsQueue(a) ==
    [a EXCEPT !.active = FALSE, !.cmd = NoCommand, !.activeId = 0, !.left = 0,
              !.holding = FALSE, !.braking = FALSE, !.paused = FALSE,
              !.moving = FALSE, !.stopLock = 0, !.stopRelease = FALSE,
              !.result = Ended(a, OwnedIds(a), "aborted")]

abort_motion(a) ==
    [a EXCEPT !.active = FALSE, !.cmd = NoCommand, !.activeId = 0, !.left = 0,
              !.holding = FALSE, !.braking = FALSE, !.paused = FALSE,
              !.moving = FALSE, !.queue = <<>>,
              !.stopLock = 0, !.stopRelease = FALSE,
              !.sync = "none", !.phase = "idle", !.entry = "idle", !.syncId = 0,
              !.streamId = 0,
              !.supId = 0, !.supLeft = 0, !.supHalting = FALSE, !.supDone = 0,
              !.status = IF @ = "synchronized_motion" THEN RestStatus(a) ELSE @,
              !.result = Ended(a, OwnedIds(a), "aborted")]

\* AxisModel::start.  n: cycles of the new profile; ok: it is feasible.  A
\* zero override makes every position profile infeasible (velocity limit 0).
\* A start that fails has already made c the active command id.
Startable(a, c, ok) ==
    c.kind \in {"move_velocity", "halt", "stop"} \/ (c.inside /\ ok /\ a.override)

normalize(c) ==
    [c EXCEPT !.kind = IF @ = "move_relative" THEN "move_absolute" ELSE @]

start(a, command, n, ok) ==
    LET c == normalize(command)
        b == [a EXCEPT !.cmd = c, !.activeId = c.id, !.holding = FALSE, !.left = n]
        homingOr(s) == IF c.homing THEN "homing" ELSE s
    IN  CASE c.kind = "move_velocity" ->
               [b EXCEPT !.active = TRUE, !.left = IF c.timed THEN n ELSE 0,
                         !.status = homingOr("continuous_motion")]
          [] c.kind \in {"halt", "stop"} ->
               [b EXCEPT !.active = TRUE, !.profiled = a.moving /\ ok,
                         !.left = IF a.moving /\ ok THEN n ELSE 0,
                         !.stopLock = IF c.kind = "stop" /\ c.lock THEN c.id ELSE @,
                         !.stopRelease = IF c.kind = "stop" /\ c.lock THEN FALSE ELSE @,
                         !.status = homingOr("stopping")]
          [] OTHER ->
               IF ~Startable(a, c, ok)
               THEN [b EXCEPT !.cmd = IF a.active THEN c ELSE NoCommand,
                              !.left = IF a.active THEN n ELSE 0]
               ELSE [b EXCEPT !.active = TRUE,
                              !.status = homingOr(
                                  IF c.kind = "move_continuous_absolute"
                                  THEN "continuous_motion" ELSE "discrete_motion")]

\* Mutant: the command that came last is served first.
start_next_queuedLast(a, n, ok) ==
    IF a.queue = <<>> THEN a
    ELSE start([a EXCEPT !.queue = SubSeq(@, 1, Len(@) - 1)], a.queue[Len(a.queue)], n, ok)

\* start_next_queued: the error of start is discarded.
start_next_queued(a, n, ok) ==
    IF a.queue = <<>> THEN a
    ELSE start([a EXCEPT !.queue = Tail(@)], Head(a.queue), n, ok)

\* Mutant: the axis keeps the state of the command that finished.
finish_activeKeepsStatus(a, n, ok) ==
    start_next_queued(
        [a EXCEPT !.active = FALSE, !.cmd = NoCommand, !.activeId = 0, !.left = 0,
                  !.holding = FALSE, !.moving = FALSE, !.lastDone = a.activeId,
                  !.result = Ended(a, {a.activeId}, "done")], n, ok)

finish_active(a, n, ok) ==
    LET lockingStop == a.cmd.kind = "stop" /\ a.cmd.lock
        locked == lockingStop /\ a.stopLock = a.activeId /\ ~a.stopRelease
        b == [a EXCEPT !.active = FALSE, !.cmd = NoCommand, !.activeId = 0,
                       !.left = 0, !.holding = FALSE, !.moving = FALSE,
                       !.lastDone = a.activeId,
                       !.result = Ended(a, {a.activeId}, "done"),
                       !.status = IF locked THEN "stopping"
                                  ELSE IF a.cmd.homing THEN "homing" ELSE RestStatus(a),
                       !.stopLock = IF lockingStop /\ ~locked THEN 0 ELSE @,
                       !.stopRelease = IF lockingStop /\ ~locked THEN FALSE ELSE @]
    IN  IF locked THEN b ELSE start_next_queued(b, n, ok)

blend_into_next(a, n, ok) ==
    start_next_queued([a EXCEPT !.lastDone = a.activeId,
                                !.result = Ended(a, {a.activeId}, "done")], n, ok)

\* Mutant: the error state is set, the motion goes on.
trigger_errorNoAbort(a) ==
    [record_command_error(a, OwnedIds(a)) EXCEPT !.error = TRUE, !.status = "errorstop"]

trigger_error(a) ==
    LET b == record_command_error(a, OwnedIds(a) \cup ({a.activeId} \ {0}))
    IN  [abort_motion(b) EXCEPT !.error = TRUE, !.status = "errorstop"]

fail_sync_command(a) ==
    LET b == record_command_error(a, {a.syncId})
    IN  [b EXCEPT !.sync = "none", !.phase = "idle", !.entry = "idle", !.syncId = 0,
                  !.activeId = 0, !.moving = FALSE, !.status = RestStatus(a)]

-----------------------------------------------------------------------------
(* cycle().  m, m2: the set point moves after this cycle; blend: the speed   *)
(* fell below the successor's threshold; n, ok: the profile a successor gets *)

\* A queued successor that blends may take over from a positioning command.
\* At zero override the threshold is zero: it is met when the brake ends.
BlendEligible(a) ==
    /\ a.cmd.kind = "move_absolute"
    /\ a.queue # <<>>
    /\ Head(a.queue).mode = "blending"
    /\ a.override \/ a.left <= 1

\* Mutants: the counter runs below zero; the last cycle is never reached.
TickUnguarded(a) == [a EXCEPT !.left = @ - 1]
TickStuck(a) == [a EXCEPT !.left = IF @ > 1 THEN @ - 1 ELSE @]

Tick(a) == [a EXCEPT !.left = IF @ > 1 THEN @ - 1 ELSE 0]

cycle_base_motion(a, m, blend, n, ok) ==
    IF ~a.active \/ a.paused THEN a
    ELSE IF a.cmd.kind = "acceleration_profile" THEN [a EXCEPT !.moving = m]
    ELSE IF a.cmd.kind = "torque" /\ ~a.braking THEN [a EXCEPT !.moving = FALSE]
    ELSE IF ~a.braking /\ (a.cmd.kind = "move_velocity" \/ a.holding)
    THEN LET b == Tick([a EXCEPT !.moving = IF a.holding THEN m ELSE a.override])
         IN  IF ~a.holding /\ a.cmd.timed /\ b.left = 0
             THEN finish_active(b, n, ok) ELSE b
    ELSE LET b == Tick([a EXCEPT !.moving = m])
         IN  IF a.cmd.kind \in {"halt", "stop"} /\ ~a.profiled
             THEN finish_active(a, n, ok)
             ELSE IF BlendEligible(a) /\ blend THEN blend_into_next(b, n, ok)
             ELSE IF b.left > 0 THEN b
             ELSE IF a.braking
             THEN [b EXCEPT !.braking = FALSE, !.paused = TRUE, !.moving = FALSE]
             ELSE IF a.cmd.kind = "move_continuous_absolute"
             THEN [b EXCEPT !.holding = TRUE, !.status = "continuous_motion"]
             ELSE finish_active(b, n, ok)

cycle_superimposed(a, m) ==
    IF a.supId = 0 THEN a
    ELSE IF a.supLeft > 1
    THEN [a EXCEPT !.supLeft = @ - 1, !.moving = m,
                   !.status = IF ~a.active /\ @ = "standstill"
                              THEN "discrete_motion" ELSE @]
    ELSE [a EXCEPT !.supLeft = 0, !.supId = 0, !.supHalting = FALSE,
                   !.supDone = IF a.supHalting THEN 0 ELSE a.supId,
                   !.result = Ended(a, {a.supId},
                                    IF a.supHalting THEN "aborted" ELSE "done"),
                   !.moving = a.active /\ ~a.paused /\ @, \* base_velocity_
                   !.status = IF ~a.active /\ @ = "discrete_motion"
                              THEN "standstill" ELSE @]

\* What one cycle of a synchronization that is in phase p can come to.
SyncOutcomes(kind, p) ==
    (CASE p = "waiting_window" -> {"wait", "approach", "engage"}
       [] p = "approaching" -> {"approach", "engage"}
       [] OTHER -> {"engage"})
    \cup (IF kind = "cam" THEN {"error"} ELSE {})
    \cup (IF kind = "gear" /\ p # "engaged" THEN {"fail"} ELSE {})

SyncPhaseNow(a) == IF a.phase = "queued" THEN a.entry ELSE a.phase

\* sync_cycle returns true: synchronization owns the cycle.
SyncOwnsCycle(a) == a.sync # "none" /\ ~(a.phase = "queued" /\ a.active)

sync_cycle(a, outcome, m) ==
    LET engaged(p) == [a EXCEPT !.phase = p, !.activeId = a.syncId, !.moving = m,
                                !.status = "synchronized_motion"]
    IN  CASE outcome = "wait" -> [a EXCEPT !.phase = SyncPhaseNow(a)]
          [] outcome = "approach" -> engaged("approaching")
          [] outcome = "engage" -> engaged("engaged")
          [] outcome = "fail" -> fail_sync_command(a)
          [] OTHER -> trigger_error(a)

\* The inputs of a cycle: see above.
CycleInput(a) ==
    [m : BOOLEAN, m2 : BOOLEAN, blend : BOOLEAN, ok : Feasible, n : Ticks,
     outcome : IF SyncOwnsCycle(a) THEN SyncOutcomes(a.sync, SyncPhaseNow(a)) ELSE {"wait"}]

cycle(a, in) ==
    CASE a.status = "errorstop" -> a
      [] a.status # "errorstop" /\ a.streamId # 0 -> [a EXCEPT !.moving = in.m]
      [] a.status # "errorstop" /\ a.streamId = 0 /\ SyncOwnsCycle(a) ->
           sync_cycle(a, in.outcome, in.m)
      [] OTHER -> cycle_superimposed(
                      cycle_base_motion(a, in.m, in.blend, in.n, in.ok), in.m2)

-----------------------------------------------------------------------------
(* Public member functions.                                                 *)

set_power(a, enabled) ==
    [abort_motion(a) EXCEPT !.powered = enabled,
                            !.status = IF enabled THEN "standstill" ELSE "disabled"]

\* A feed enable was withdrawn in the direction the axis is going.
disable_direction(a) == [abort_motion(a) EXCEPT !.status = "standstill"]

set_power_feedback(a, available) ==
    LET b == [a EXCEPT !.feedback = available]
    IN  IF available \/ ~a.powered THEN b
        ELSE trigger_error([b EXCEPT !.powered = FALSE])

reset_error(a) == [a EXCEPT !.error = FALSE, !.status = RestStatus(a)]

\* Mutant: the lock of MC_Stop is not tested.
submit_admissibilityNoLock(a, c) ==
    /\ a.powered /\ a.status # "errorstop"
    /\ c.kind = "torque" => c.mode = "aborting"
    /\ a.sync # "none" \/ a.streamId # 0 => c.mode = "aborting"

\* submit_admissibility: the rejections that change nothing.  (A rejection
\* because of a disabled direction changes nothing either.)
submit_admissibility(a, c) ==
    /\ a.powered
    /\ a.status # "errorstop"
    /\ c.kind = "torque" => c.mode = "aborting"
    /\ a.stopLock # 0 => c.kind = "stop"
    /\ a.sync # "none" \/ a.streamId # 0 => c.mode = "aborting"

\* submit_impl for an admissible command: [ax |-> new state, ok |-> accepted].
submit_impl(a, in, n, ok) ==
    LET id == a.nextId
        c == [kind |-> in.kind, mode |-> in.mode, inside |-> in.inside,
              lock |-> in.lock, homing |-> in.homing, timed |-> in.timed, id |-> id]
        live == NewId(a, "live")
        dead == NewId(a, "rejected")
        \* The state a command plans from: an aborting one takes over, and
        \* keeps the velocity that abort_motion zeroed.
        from(b) == IF c.mode = "aborting"
                   THEN [abort_motion(b) EXCEPT !.moving = b.moving] ELSE b
        \* Relative targets are resolved here only for an aborting command.
        target == IF c.mode = "aborting" THEN normalize(c) ELSE c
    IN  IF c.kind = "torque"
        THEN [ax |-> [abort_motion(live) EXCEPT
                         !.active = TRUE, !.cmd = c, !.activeId = id,
                         !.status = "continuous_motion"],
              ok |-> TRUE]
        ELSE IF /\ a.active /\ a.cmd.kind = "acceleration_profile"
                /\ c.mode # "aborting"
        THEN [ax |-> dead, ok |-> FALSE]
        ELSE IF target.kind \in {"move_absolute", "move_continuous_absolute"} /\ ~c.inside
        THEN [ax |-> from(dead), ok |-> FALSE]
        ELSE IF c.mode = "aborting" \/ ~a.active
        THEN IF Startable(a, c, ok)
             THEN [ax |-> start(from(live), c, n, ok), ok |-> TRUE]
             ELSE [ax |-> start(from(dead), c, n, ok), ok |-> FALSE]
        ELSE IF Len(a.queue) = QueueCapacity
        THEN [ax |-> dead, ok |-> FALSE]
        ELSE [ax |-> [live EXCEPT !.queue = Append(@, target)], ok |-> TRUE]

\* submit_acceleration_profile: the segments are stored in the queue.
submit_acceleration_profile(a) ==
    LET segment == [NoCommand EXCEPT !.kind = "acceleration_profile"]
    IN  [abort_motion(NewId(a, "live")) EXCEPT
            !.queue = <<segment>>, !.active = TRUE, !.activeId = a.nextId,
            !.cmd = [segment EXCEPT !.id = a.nextId], !.status = "continuous_motion"]

release_stop(a) ==
    IF a.active /\ a.activeId = a.stopLock THEN [a EXCEPT !.stopRelease = TRUE]
    ELSE [a EXCEPT !.stopLock = 0, !.stopRelease = FALSE,
                   !.status = IF @ = "stopping" THEN RestStatus(a) ELSE @]

fail_command(a, n, ok) ==
    LET b == start_next_queued(
                 [record_command_error(a, {a.activeId}) EXCEPT
                     !.active = FALSE, !.cmd = NoCommand, !.activeId = 0, !.left = 0,
                     !.holding = FALSE, !.braking = FALSE, !.paused = FALSE,
                     !.status = IF a.cmd.homing THEN "homing" ELSE RestStatus(a)], n, ok)
    IN  [b EXCEPT !.moving = b.active /\ @]

\* update_active_target, and what the function block does when it fails.
\* inside: the new target lies within the limits.
update_active_target(a, inside, n, ok) ==
    IF inside /\ ok /\ a.override THEN [a EXCEPT !.left = n, !.holding = FALSE]
    ELSE fail_command(a, n, ok)

\* set_override to a factor of zero, and back to a positive one.
override_zero(a, n) ==
    LET b == [a EXCEPT !.override = FALSE]
    IN  IF a.active /\ a.cmd.kind \notin {"halt", "stop"}
        THEN [b EXCEPT !.braking = TRUE, !.paused = FALSE, !.left = n] ELSE b

override_positive(a, n) ==
    LET b == [a EXCEPT !.override = TRUE]
        replanned == [b EXCEPT !.left = n]
    IN  CASE a.paused ->
               [(IF a.cmd.kind = "move_velocity" \/ a.holding THEN b ELSE replanned)
                    EXCEPT !.paused = FALSE]
          [] /\ ~a.paused /\ a.active /\ ~a.holding
             /\ a.cmd.kind \notin {"move_velocity", "halt", "stop"} -> replanned
          [] OTHER -> b

\* Mutant: a superimposed offset goes on under the synchronization.
begin_syncKeepsOffset(a, kind, mode, entry) ==
    LET b == IF mode = "aborting" THEN abort_motion(a) ELSE a
    IN  [NewId(b, "live") EXCEPT !.sync = kind, !.syncId = b.nextId, !.entry = entry,
                                 !.phase = IF b.active THEN "queued" ELSE entry]

\* begin_sync and the entry phase that gear_in, cam_in or combine_in choose.
begin_sync(a, kind, mode, entry) ==
    LET b == IF mode = "aborting" THEN abort_motion(a) ELSE a
        c == NewId(b, "live")
    IN  [c EXCEPT !.supId = 0, !.supLeft = 0, !.supHalting = FALSE, !.supDone = 0,
                  !.result = Ended(c, {a.supId}, "aborted"),
                  !.sync = kind, !.syncId = b.nextId, !.entry = entry,
                  !.phase = IF b.active THEN "queued" ELSE entry]

\* sync_out: an axis that moves goes on at its velocity under a new id.
sync_out(a, n) ==
    LET b == [a EXCEPT !.sync = "none", !.phase = "idle", !.entry = "idle",
                       !.syncId = 0, !.activeId = 0,
                       !.result = Ended(a, {a.syncId}, "aborted")]
        hold == [NoCommand EXCEPT !.kind = "move_velocity", !.id = a.nextId]
    IN  IF a.moving /\ a.powered THEN start(NewId(b, "live"), hold, n, TRUE)
        ELSE [b EXCEPT !.status = RestStatus(a), !.moving = FALSE]

stream_engage(a, ok) ==
    LET b == abort_motion(a)
    IN  IF ok THEN [NewId(b, "live") EXCEPT !.moving = a.moving, !.streamId = a.nextId,
                                            !.status = "synchronized_motion"]
        ELSE b

stream_disengage(a) ==
    [a EXCEPT !.streamId = 0, !.status = RestStatus(a),
              !.result = Ended(a, {a.streamId}, "done")]

submit_superimposed(a, n) ==
    LET b == NewId(a, "live")
    IN  [b EXCEPT !.supId = a.nextId, !.supLeft = n, !.supHalting = FALSE, !.supDone = 0,
                  !.result = Ended(b, {a.supId}, "aborted")]

\* halt_superimposed: an offset that rests ends at once, one that moves brakes.
halt_superimposed(a, rest, n) ==
    IF rest THEN [a EXCEPT !.supId = 0, !.supLeft = 0, !.supHalting = FALSE, !.supDone = 0,
                           !.result = Ended(a, {a.supId}, "aborted")]
    ELSE [a EXCEPT !.supLeft = n, !.supHalting = TRUE, !.supDone = 0]

\* abort_superimposed, after update_superimposed_target failed.
abort_superimposed(a) ==
    [a EXCEPT !.supId = 0, !.supLeft = 0, !.supHalting = FALSE, !.supDone = 0,
              !.result = Ended(a, {a.supId}, "error")]

has_standalone_motion(a) ==
    a.active \/ a.queue # <<>> \/ a.sync # "none" \/ a.supId # 0 \/ a.streamId # 0

homing_step_precondition(a) == a.status # "errorstop" /\ ~a.error

\* finish_homing_now; home_direct differs in the coordinate it sets.
finish_homing_now(a) == [abort_motion(a) EXCEPT !.status = RestStatus(a)]

-----------------------------------------------------------------------------
(* The calls.  A call that is refused changes nothing and is left out,      *)
(* except a submit that uses up an id.                                      *)

Init == ax = AxisInit

SetPower(enabled) ==
    /\ enabled # ax.powered
    /\ enabled => ax.status # "errorstop" /\ ax.feedback
    /\ ax' = set_power(ax, enabled)

DisableDirection ==
    /\ ax.powered /\ ax.status # "errorstop"
    /\ ax.active \/ ax.sync # "none" \/ ax.streamId # 0
    /\ ax.active \/ ax.moving
    /\ ax' = disable_direction(ax)

SetPowerFeedback(available) ==
    /\ "power_feedback" \in Calls
    /\ available # ax.feedback
    /\ ax' = set_power_feedback(ax, available)

TriggerError ==
    /\ "trigger_error" \in Calls
    /\ ax' = trigger_error(ax)

ResetError ==
    /\ ax.status = "errorstop"
    /\ ax' = reset_error(ax)

Submit(in, n, ok) ==
    /\ ax.nextId <= MaxId
    /\ submit_admissibility(ax, in)
    /\ ax' = submit_impl(ax, in, n, ok).ax

SubmitAccelerationProfile ==
    /\ "acceleration_profile" \in Calls
    /\ ax.nextId <= MaxId
    /\ ax.powered /\ ax.status # "errorstop"
    /\ ax' = submit_acceleration_profile(ax)

ReleaseStop ==
    /\ ax.stopLock # 0
    /\ ax' = release_stop(ax)

\* ContinuousUpdate of a positioning function block.
UpdateTarget(inside, n, ok) ==
    /\ "update_target" \in Calls
    /\ ax.active /\ ax.activeId # 0
    /\ ax.cmd.kind \in {"move_absolute", "move_continuous_absolute"}
    /\ ax' = update_active_target(ax, inside, n, ok)

SetOverride(n) ==
    /\ "set_override" \in Calls
    /\ ax' = IF ax.override THEN override_zero(ax, n) ELSE override_positive(ax, n)

Synchronize(kind, mode, entry) ==
    /\ ax.nextId <= MaxId
    /\ ax.powered /\ ax.status # "errorstop" /\ ax.streamId = 0
    /\ mode # "aborting" => ax.sync = "none"
    /\ ax' = begin_sync(ax, kind, mode, entry)

GearIn(mode) ==
    /\ "gear_in" \in Calls
    /\ \E entry \in {"waiting_window", "approaching"} : Synchronize("gear", mode, entry)

CamIn(mode) ==
    /\ "cam_in" \in Calls
    /\ \E entry \in {"waiting_window", "engaged"} : Synchronize("cam", mode, entry)

CombineIn(mode) == "combine_in" \in Calls /\ Synchronize("combine", mode, "engaged")

SyncOut(n) ==
    /\ "sync_out" \in Calls
    /\ ax.nextId <= MaxId
    /\ ax.sync # "none"
    /\ ax' = sync_out(ax, n)

StreamEngage(ok) ==
    /\ "stream" \in Calls
    /\ ax.nextId <= MaxId
    /\ ax.powered /\ ax.status # "errorstop" /\ ax.sync = "none" /\ ax.streamId = 0
    /\ ax' = stream_engage(ax, ok)

StreamDisengage ==
    /\ ax.streamId # 0 /\ ~ax.moving
    /\ ax' = stream_disengage(ax)

SubmitSuperimposed(n) ==
    /\ "superimposed" \in Calls
    /\ ax.nextId <= MaxId
    /\ ax.powered /\ ax.status # "errorstop" /\ ax.sync = "none" /\ ax.streamId = 0
    /\ ax.override \* the offset is planned with the scaled limits
    /\ ax' = submit_superimposed(ax, n)

HaltSuperimposed(rest, n) ==
    /\ ax.supId # 0
    /\ ax' = halt_superimposed(ax, rest, n)

\* ContinuousUpdate of MC_MoveSuperimposed: a new profile, or it is aborted.
UpdateSuperimposed(n, ok) ==
    /\ ax.supId # 0 /\ ~ax.supHalting
    /\ ax' = IF ok /\ ax.override THEN [ax EXCEPT !.supLeft = n]
             ELSE abort_superimposed(ax)

FinishHoming ==
    /\ "homing" \in Calls
    /\ ~has_standalone_motion(ax) /\ ax.status = "homing"
    /\ ax' = [ax EXCEPT !.status = RestStatus(ax)]

FinishHomingNow ==
    /\ "homing" \in Calls
    /\ homing_step_precondition(ax)
    /\ ax' = finish_homing_now(ax)

Cycle == \E in \in CycleInput(ax) : ax' = cycle(ax, in)

Modes == {"aborting", "buffered"}

Next ==
    \/ \E enabled \in BOOLEAN : SetPower(enabled) \/ SetPowerFeedback(enabled)
    \/ DisableDirection
    \/ TriggerError
    \/ ResetError
    \/ \E in \in Commands, n \in Ticks, ok \in Feasible : Submit(in, n, ok)
    \/ SubmitAccelerationProfile
    \/ ReleaseStop
    \/ \E inside \in BOOLEAN, n \in Ticks, ok \in Feasible : UpdateTarget(inside, n, ok)
    \/ \E n \in Ticks, ok \in Feasible : UpdateSuperimposed(n, ok)
    \/ \E n \in Ticks : SetOverride(n) \/ SyncOut(n) \/ SubmitSuperimposed(n)
    \/ \E mode \in Modes : GearIn(mode) \/ CamIn(mode) \/ CombineIn(mode)
    \/ \E ok \in Feasible : StreamEngage(ok)
    \/ StreamDisengage
    \/ \E rest \in BOOLEAN, n \in Ticks : HaltSuperimposed(rest, n)
    \/ FinishHoming
    \/ FinishHomingNow
    \/ Cycle

Spec == Init /\ [][Next]_ax

\* The real-time task calls cycle() every period; callers may stop calling.
FairSpec == Spec /\ WF_ax(Cycle)

-----------------------------------------------------------------------------
(* Properties.                                                              *)

\* The members of the record.
AxisFields == {"status", "powered", "error", "feedback", "override", "active", "cmd",
               "activeId", "left", "holding", "braking", "paused", "profiled", "moving",
               "queue", "stopLock", "stopRelease", "sync", "phase", "entry", "syncId",
               "streamId", "supId", "supLeft", "supHalting", "supDone", "lastDone",
               "errors", "nextId", "result"}

Shape(a) == DOMAIN a = AxisFields

MemberTypes(a) ==
    /\ a.status \in AxisStatus
    /\ a.powered \in BOOLEAN /\ a.error \in BOOLEAN /\ a.feedback \in BOOLEAN
    /\ a.override \in BOOLEAN /\ a.active \in BOOLEAN /\ a.holding \in BOOLEAN
    /\ a.braking \in BOOLEAN /\ a.paused \in BOOLEAN /\ a.profiled \in BOOLEAN
    /\ a.moving \in BOOLEAN /\ a.stopRelease \in BOOLEAN /\ a.supHalting \in BOOLEAN
    /\ a.cmd \in Command /\ a.queue \in Seq(Command)
    /\ a.activeId \in 0 .. MaxId /\ a.stopLock \in 0 .. MaxId
    /\ a.syncId \in 0 .. MaxId /\ a.streamId \in 0 .. MaxId
    /\ a.supId \in 0 .. MaxId /\ a.supDone \in 0 .. MaxId /\ a.lastDone \in 0 .. MaxId
    /\ a.left \in 0 .. MaxTicks /\ a.supLeft \in 0 .. MaxTicks
    /\ a.sync \in {"none", "gear", "cam", "combine"}
    /\ a.phase \in {"idle", "queued", "waiting_window", "approaching", "engaged"}
    /\ a.entry \in {"idle", "waiting_window", "approaching", "engaged"}
    /\ a.errors \subseteq Id
    /\ a.nextId \in 1 .. MaxId + 1
    /\ a.result \in [Id -> Results]

\* Every member has its type.
TypeOK == Shape(ax) /\ MemberTypes(ax)

\* An axis without power, or in ErrorStop, has no motion of any kind and its
\* set point stands still, however it got there.
NoMotionWithoutPower ==
    ~ax.powered \/ ax.status = "errorstop" => ~has_standalone_motion(ax) /\ ~ax.moving

\* One writer of the set point: while a stream session or a synchronization
\* drives the axis, no command, no queue and no superimposed offset does; and
\* a synchronization that waits in line is behind a command that runs.
SingleWriter ==
    /\ ax.streamId # 0 => /\ ~ax.active /\ ax.queue = <<>>
                          /\ ax.sync = "none" /\ ax.supId = 0
    /\ ax.sync # "none" => /\ ax.supId = 0
                           /\ ax.phase # "queued" => ~ax.active

\* An id the axis gave out is either at work in exactly one place or has its
\* final result: no accepted command is forgotten, and none works after its end.
EveryCommandAccounted ==
    \A i \in Id : ax.result[i] = "live" <=> i \in OwnedIds(ax)

\* Commands run in the order in which they were accepted.  (The segments of an
\* acceleration profile lie in the queue without an id.)
QueueInOrder ==
    /\ \A j, k \in DOMAIN ax.queue : j < k => ax.queue[j].id < ax.queue[k].id
    /\ \A k \in DOMAIN ax.queue :
          ax.active /\ ax.queue[k].id # 0 => ax.activeId < ax.queue[k].id

\* A state that means motion has something that moves the axis.
MotionHasOwner ==
    /\ ax.status \in {"discrete_motion", "continuous_motion", "synchronized_motion"}
          => has_standalone_motion(ax)
    /\ ax.status = "stopping" => ax.active \/ ax.stopLock # 0 \/ ax.sync # "none"
    /\ ax.moving => has_standalone_motion(ax)

\* MC_Stop holds the axis from its start until it is released: the axis is in
\* Stopping, and nothing but the stop command acts on it.
StopHoldsAxis ==
    ax.stopLock # 0 =>
        /\ ax.status = "stopping"
        /\ ax.active => ax.activeId = ax.stopLock
        /\ ax.sync = "none" /\ ax.streamId = 0 /\ ax.supId = 0

\* A velocity is held until another command takes over.
Held(a) ==
    a.active /\ (a.holding \/ (a.cmd.kind = "move_velocity" /\ ~a.cmd.timed))

\* An accepted command ends, unless a velocity is held, by itself or by the
\* command it is queued behind.
CommandsEnd == \A i \in Id : ax.result[i] = "live" ~> (ax.result[i] # "live" \/ Held(ax))
=============================================================================
