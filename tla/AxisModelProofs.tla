-------------------------- MODULE AxisModelProofs --------------------------
(***************************************************************************)
(* TLAPS proofs about the axis, for every set of commands and calls, every *)
(* queue capacity and every outcome of planning: power and the one writer  *)
(* of the set point, the types of the members, and what becomes of         *)
(* commands - of every id that was given out, the order in which commands  *)
(* run, who owns the motion, and the lock of MC_Stop.                      *)
(***************************************************************************)
EXTENDS AxisModel, TLAPS

(* The two invariants as predicates on the axis record, so that they can be *)
(* followed through the member functions.                                   *)

PowerSafe(a) ==
    ~a.powered \/ a.status = "errorstop" => ~has_standalone_motion(a) /\ ~a.moving

OneWriter(a) ==
    /\ a.streamId # 0 => ~a.active /\ a.queue = <<>> /\ a.sync = "none" /\ a.supId = 0
    /\ a.sync # "none" => a.supId = 0 /\ (a.phase # "queued" => ~a.active)

Safe(a) == Shape(a) /\ PowerSafe(a) /\ OneWriter(a)

AxisInv == Safe(ax)

\* Calls that start motion are refused in any other state.
Enabled(a) == a.powered /\ a.status # "errorstop"

-----------------------------------------------------------------------------
(* Private member functions.                                                *)

\* Giving out an id changes the counter and the history only.
LEMMA NewIdShape ==
  ASSUME NEW a, Shape(a), NEW r
  PROVE  /\ Shape(NewId(a, r))
         /\ \A f \in AxisFields \ {"nextId", "result"} : NewId(a, r)[f] = a[f]
  BY DEF Shape, NewId, AxisFields

\* abort_motion leaves nothing that moves the axis, and power as it is.
LEMMA AbortShape ==
  ASSUME NEW a, Shape(a)
  PROVE  /\ Shape(abort_motion(a))
         /\ ~has_standalone_motion(abort_motion(a)) /\ ~abort_motion(a).moving
         /\ abort_motion(a).powered = a.powered
         /\ abort_motion(a).override = a.override
         /\ Enabled(a) => abort_motion(a).status # "errorstop"
  BY DEF Shape, abort_motion, has_standalone_motion, AxisFields, Enabled, RestStatus

\* start makes c the active command or leaves active as it was; it touches no
\* other source of motion, and an enabled axis stays enabled.
LEMMA StartShape ==
  ASSUME NEW a, Shape(a), NEW c, NEW n, NEW ok
  PROVE  LET b == start(a, c, n, ok) IN
         /\ Shape(b)
         /\ b.powered = a.powered /\ b.moving = a.moving
         /\ b.queue = a.queue /\ b.sync = a.sync /\ b.phase = a.phase
         /\ b.supId = a.supId /\ b.streamId = a.streamId
         /\ a.status # "errorstop" => b.status # "errorstop"
  BY DEF Shape, start, AxisFields

\* The same for the next command of the queue.
LEMMA NextShape ==
  ASSUME NEW a, Shape(a), NEW n, NEW ok
  PROVE  LET b == start_next_queued(a, n, ok) IN
         /\ Shape(b)
         /\ b.powered = a.powered /\ b.moving = a.moving
         /\ b.sync = a.sync /\ b.phase = a.phase
         /\ b.supId = a.supId /\ b.streamId = a.streamId
         /\ a.queue = <<>> => b.queue = <<>> /\ b.active = a.active
         /\ a.status # "errorstop" => b.status # "errorstop"
  BY DEF Shape, start_next_queued, start, AxisFields

\* What a function that only works on the active command and the queue keeps.
SameOthers(a, b) ==
    /\ Shape(b)
    /\ b.powered = a.powered
    /\ b.sync = a.sync /\ b.phase = a.phase
    /\ b.supId = a.supId /\ b.streamId = a.streamId
    /\ b.status # "errorstop"

\* A function of that sort, called while a command runs, keeps the axis safe.
LEMMA ActiveSafe ==
  ASSUME NEW a, Safe(a), a.active, NEW b, SameOthers(a, b)
  PROVE  Safe(b) /\ Enabled(a) /\ Enabled(b)
  BY DEF Safe, PowerSafe, OneWriter, SameOthers, has_standalone_motion, Enabled

\* The end of a command, and what follows it.
LEMMA FinishShape ==
  ASSUME NEW a, Shape(a), NEW n, NEW ok
  PROVE  SameOthers(a, finish_active(a, n, ok))
<1> DEFINE lockingStop == a.cmd.kind = "stop" /\ a.cmd.lock
           locked == lockingStop /\ a.stopLock = a.activeId /\ ~a.stopRelease
           b == [a EXCEPT !.active = FALSE, !.cmd = NoCommand, !.activeId = 0,
                       !.left = 0, !.holding = FALSE, !.moving = FALSE,
                       !.lastDone = a.activeId,
                       !.result = Ended(a, {a.activeId}, "done"),
                       !.status = IF locked THEN "stopping"
                                  ELSE IF a.cmd.homing THEN "homing" ELSE RestStatus(a),
                       !.stopLock = IF lockingStop /\ ~locked THEN 0 ELSE @,
                       !.stopRelease = IF lockingStop /\ ~locked THEN FALSE ELSE @]
<1>1. SameOthers(a, b)
  BY DEF Shape, SameOthers, AxisFields, RestStatus
<1>2. finish_active(a, n, ok) = IF locked THEN b ELSE start_next_queued(b, n, ok)
  BY DEF finish_active
<1> HIDE DEF b, locked
<1>3. SameOthers(a, start_next_queued(b, n, ok))
  BY <1>1, NextShape DEF SameOthers
<1> QED
  BY <1>1, <1>2, <1>3

\* A successor that blends takes over in the same way.
LEMMA BlendShape ==
  ASSUME NEW a, Shape(a), a.status # "errorstop", NEW n, NEW ok
  PROVE  SameOthers(a, blend_into_next(a, n, ok))
<1> DEFINE b == [a EXCEPT !.lastDone = a.activeId, !.result = Ended(a, {a.activeId}, "done")]
<1>1. SameOthers(a, b)
  BY DEF Shape, SameOthers, AxisFields
<1>2. blend_into_next(a, n, ok) = start_next_queued(b, n, ok)
  BY DEF blend_into_next
<1> HIDE DEF b
<1> QED
  BY <1>1, <1>2, NextShape DEF SameOthers

\* The failure of the active command.
LEMMA FailShape ==
  ASSUME NEW a, Shape(a), NEW n, NEW ok
  PROVE  SameOthers(a, fail_command(a, n, ok))
<1> DEFINE b == [record_command_error(a, {a.activeId}) EXCEPT
                     !.active = FALSE, !.cmd = NoCommand, !.activeId = 0, !.left = 0,
                     !.holding = FALSE, !.braking = FALSE, !.paused = FALSE,
                     !.status = IF a.cmd.homing THEN "homing" ELSE RestStatus(a)]
           c == start_next_queued(b, n, ok)
<1>1. SameOthers(a, b)
  BY DEF Shape, SameOthers, AxisFields, RestStatus, record_command_error
<1>2. fail_command(a, n, ok) = [c EXCEPT !.moving = c.active /\ @]
  BY DEF fail_command
<1> HIDE DEF b
<1>3. SameOthers(a, c)
  BY <1>1, NextShape DEF SameOthers
<1> HIDE DEF c
<1> QED
  BY <1>2, <1>3 DEF SameOthers, Shape, AxisFields

\* trigger_error leaves the axis in ErrorStop with no motion.
LEMMA ErrorSafe ==
  ASSUME NEW a, Shape(a)
  PROVE  Safe(trigger_error(a))
<1> DEFINE b == record_command_error(a, OwnedIds(a) \cup ({a.activeId} \ {0}))
           c == abort_motion(b)
<1>1. Shape(b)
  BY DEF record_command_error, Shape, AxisFields
<1>2. trigger_error(a) = [c EXCEPT !.error = TRUE, !.status = "errorstop"]
  BY DEF trigger_error
<1> HIDE DEF b
<1>3. Shape(c) /\ ~has_standalone_motion(c) /\ ~c.moving
  BY <1>1, AbortShape
<1> HIDE DEF c
<1> QED
  BY <1>2, <1>3 DEF Safe, PowerSafe, OneWriter, Shape, AxisFields, has_standalone_motion

-----------------------------------------------------------------------------
(* cycle()                                                                  *)

\* The base motion works on the active command only.
LEMMA BaseSafe ==
  ASSUME NEW a, Safe(a), a.status # "errorstop", NEW m, NEW blend, NEW n, NEW ok
  PROVE  LET b == cycle_base_motion(a, m, blend, n, ok) IN
         Safe(b) /\ (b = a \/ SameOthers(a, b))
<1> DEFINE B == cycle_base_motion(a, m, blend, n, ok)
<1>0. Shape(a)
  BY DEF Safe
<1>1. CASE ~a.active \/ a.paused
  BY <1>1 DEF cycle_base_motion
<1>2. CASE a.active /\ ~a.paused
  <2> DEFINE T(x) == Tick([a EXCEPT !.moving = x])
  <2>1. \A x : SameOthers(a, T(x))
    BY <1>0 DEF Tick, SameOthers, Shape, AxisFields
  <2>2. \A x : SameOthers(a, [a EXCEPT !.moving = x])
    BY <1>0 DEF SameOthers, Shape, AxisFields
  <2>3. SameOthers(a, finish_active(a, n, ok))
    BY <1>0, FinishShape
  <2>4. \A x : /\ SameOthers(a, finish_active(T(x), n, ok))
               /\ SameOthers(a, blend_into_next(T(x), n, ok))
    <3> TAKE x
    <3> HIDE DEF T
    <3>1. Shape(T(x)) /\ T(x).status # "errorstop"
      BY <2>1 DEF SameOthers
    <3>2. SameOthers(T(x), finish_active(T(x), n, ok))
      BY <3>1, FinishShape
    <3>3. SameOthers(T(x), blend_into_next(T(x), n, ok))
      BY <3>1, BlendShape
    <3> QED
      BY <2>1, <3>2, <3>3 DEF SameOthers
  <2>5. \A x : /\ SameOthers(a, [T(x) EXCEPT !.braking = FALSE, !.paused = TRUE, !.moving = FALSE])
               /\ SameOthers(a, [T(x) EXCEPT !.holding = TRUE, !.status = "continuous_motion"])
    BY <1>0 DEF Tick, SameOthers, Shape, AxisFields
  <2>6. SameOthers(a, B)
    <3> HIDE DEF T
    <3>0. \A x : Tick([a EXCEPT !.moving = x]) = T(x)
      BY DEF T
    <3>1. CASE a.cmd.kind = "acceleration_profile"
      BY <1>2, <2>2, <3>1 DEF cycle_base_motion
    <3>2. CASE a.cmd.kind = "torque" /\ ~a.braking
      BY <1>2, <2>2, <3>2 DEF cycle_base_motion
    <3>3. CASE ~a.braking /\ (a.cmd.kind = "move_velocity" \/ a.holding)
      <4>1. CASE a.cmd.kind \in {"acceleration_profile", "torque"}
        BY <3>1, <3>2, <3>3, <4>1
      <4>2. CASE a.cmd.kind \notin {"acceleration_profile", "torque"}
        <5> DEFINE x == IF a.holding THEN m ELSE a.override
        <5>1. B = IF ~a.holding /\ a.cmd.timed /\ T(x).left = 0
                  THEN finish_active(T(x), n, ok) ELSE T(x)
          BY <1>2, <3>0, <3>3, <4>2 DEF cycle_base_motion
        <5> QED
          BY <2>1, <2>4, <5>1
      <4> QED
        BY <4>1, <4>2
    <3>4. CASE /\ a.cmd.kind # "acceleration_profile"
               /\ ~(a.cmd.kind = "torque" /\ ~a.braking)
               /\ ~(~a.braking /\ (a.cmd.kind = "move_velocity" \/ a.holding))
      <4>1. B = IF a.cmd.kind \in {"halt", "stop"} /\ ~a.profiled
               THEN finish_active(a, n, ok)
               ELSE IF BlendEligible(a) /\ blend THEN blend_into_next(T(m), n, ok)
               ELSE IF T(m).left > 0 THEN T(m)
               ELSE IF a.braking
               THEN [T(m) EXCEPT !.braking = FALSE, !.paused = TRUE, !.moving = FALSE]
               ELSE IF a.cmd.kind = "move_continuous_absolute"
               THEN [T(m) EXCEPT !.holding = TRUE, !.status = "continuous_motion"]
               ELSE finish_active(T(m), n, ok)
        BY <1>2, <3>4 DEF cycle_base_motion, T
      <4> QED
        BY <2>1, <2>3, <2>4, <2>5, <4>1
    <3> QED
      BY <3>1, <3>2, <3>3, <3>4
  <2> HIDE DEF B
  <2> QED
    BY <1>2, <2>6, ActiveSafe DEF B
<1> QED
  BY <1>1, <1>2

\* A superimposed offset moves the set point of an enabled axis only.
LEMMA OffsetSafe ==
  ASSUME NEW a, Safe(a), NEW m
  PROVE  Safe(cycle_superimposed(a, m))
<1>1. CASE a.supId = 0
  BY <1>1 DEF cycle_superimposed
<1>2. CASE a.supId # 0
  BY <1>2 DEF cycle_superimposed, Safe, PowerSafe, OneWriter, Shape, AxisFields,
              has_standalone_motion
<1> QED
  BY <1>1, <1>2

\* A cycle that synchronization owns: no command runs, and the axis is enabled.
LEMMA SyncSafe ==
  ASSUME NEW a, Safe(a), SyncOwnsCycle(a), NEW outcome, NEW m
  PROVE  Safe(sync_cycle(a, outcome, m))
<1>1. /\ Shape(a) /\ a.sync # "none" /\ ~a.active /\ a.supId = 0 /\ a.streamId = 0
      /\ a.powered /\ a.status # "errorstop"
  BY DEF Safe, SyncOwnsCycle, PowerSafe, OneWriter, has_standalone_motion
<1>2. CASE outcome = "wait"
  <2> DEFINE b == [a EXCEPT !.phase = SyncPhaseNow(a)]
  <2>1. Safe(b)
    BY <1>1 DEF Safe, PowerSafe, OneWriter, Shape, AxisFields, has_standalone_motion
  <2> HIDE DEF b
  <2> QED
    BY <1>2, <2>1 DEF sync_cycle, b
<1>3. CASE outcome \in {"approach", "engage"}
  <2> DEFINE b(p) == [a EXCEPT !.phase = p, !.activeId = a.syncId, !.moving = m,
                               !.status = "synchronized_motion"]
  <2>1. \A p : Safe(b(p))
    BY <1>1 DEF Safe, PowerSafe, OneWriter, Shape, AxisFields, has_standalone_motion
  <2>2. sync_cycle(a, outcome, m) \in {b("approaching"), b("engaged")}
    BY <1>3 DEF sync_cycle
  <2> HIDE DEF b
  <2> QED
    BY <2>1, <2>2
<1>4. CASE outcome = "fail"
  <2>1. Safe(fail_sync_command(a))
    BY <1>1 DEF fail_sync_command, record_command_error, Safe, PowerSafe, OneWriter, Shape,
                AxisFields, has_standalone_motion, RestStatus
  <2> QED
    BY <1>4, <2>1 DEF sync_cycle
<1>5. CASE outcome \notin {"wait", "approach", "engage", "fail"}
  BY <1>1, <1>5, ErrorSafe DEF sync_cycle
<1> QED
  BY <1>2, <1>3, <1>4, <1>5

\* Whatever the inputs of the period, cycle() keeps the axis safe.
LEMMA CycleSafe ==
  ASSUME NEW a, Safe(a), NEW in
  PROVE  Safe(cycle(a, in))
<1>1. CASE a.status = "errorstop"
  BY <1>1 DEF cycle
<1>2. CASE a.status # "errorstop" /\ a.streamId # 0
  <2> DEFINE b == [a EXCEPT !.moving = in.m]
  <2>1. Safe(b)
    BY <1>2 DEF Safe, PowerSafe, OneWriter, Shape, AxisFields, has_standalone_motion
  <2> HIDE DEF b
  <2> QED
    BY <1>2, <2>1 DEF cycle, b
<1>3. CASE a.status # "errorstop" /\ a.streamId = 0 /\ SyncOwnsCycle(a)
  BY <1>3, SyncSafe DEF cycle
<1>4. CASE a.status # "errorstop" /\ a.streamId = 0 /\ ~SyncOwnsCycle(a)
  <2> DEFINE b == cycle_base_motion(a, in.m, in.blend, in.n, in.ok)
  <2>1. Safe(b)
    BY <1>4, BaseSafe
  <2>2. cycle(a, in) = cycle_superimposed(b, in.m2)
    BY <1>4 DEF cycle
  <2> HIDE DEF b
  <2> QED
    BY <2>1, <2>2, OffsetSafe
<1> QED
  BY <1>1, <1>2, <1>3, <1>4

-----------------------------------------------------------------------------
(* The calls.                                                               *)

\* An axis that abort_motion has cleared is safe whatever its state is called.
LEMMA AbortedSafe ==
  ASSUME NEW a, Shape(a), NEW power, NEW status
  PROVE  /\ Safe([abort_motion(a) EXCEPT !.status = status])
         /\ Safe([abort_motion(a) EXCEPT !.powered = power, !.status = status])
<1> DEFINE b == abort_motion(a)
<1>1. Shape(b) /\ ~has_standalone_motion(b) /\ ~b.moving
  BY AbortShape
<1> HIDE DEF b
<1>2. /\ Safe([b EXCEPT !.status = status])
      /\ Safe([b EXCEPT !.powered = power, !.status = status])
  BY <1>1 DEF Safe, PowerSafe, OneWriter, Shape, AxisFields, has_standalone_motion
<1> QED
  BY <1>2 DEF b

\* Power, its feedback, errors and the end of homing.
LEMMA PowerCallsSafe ==
  ASSUME Safe(ax),
         \/ \E enabled \in BOOLEAN : SetPower(enabled) \/ SetPowerFeedback(enabled)
         \/ DisableDirection \/ TriggerError \/ ResetError \/ FinishHoming \/ FinishHomingNow
  PROVE  Safe(ax')
<1>0. Shape(ax)
  BY DEF Safe
<1>1. ASSUME NEW enabled \in BOOLEAN, SetPower(enabled) PROVE Safe(ax')
  BY <1>0, <1>1, AbortedSafe DEF SetPower, set_power
<1>2. ASSUME NEW available \in BOOLEAN, SetPowerFeedback(available) PROVE Safe(ax')
  <2> DEFINE b == [ax EXCEPT !.feedback = available]
             c == [b EXCEPT !.powered = FALSE]
  <2>1. Safe(b)
    BY DEF Safe, PowerSafe, OneWriter, Shape, AxisFields, has_standalone_motion
  <2>2. Shape(c)
    BY <1>0 DEF Shape
  <2>3. ax' \in {b, trigger_error(c)}
    BY <1>2 DEF SetPowerFeedback, set_power_feedback
  <2> HIDE DEF b, c
  <2> QED
    BY <2>1, <2>2, <2>3, ErrorSafe
<1>3. CASE DisableDirection
  BY <1>0, <1>3, AbortedSafe DEF DisableDirection, disable_direction
<1>4. CASE TriggerError
  BY <1>0, <1>4, ErrorSafe DEF TriggerError
<1>5. CASE ResetError
  BY <1>5 DEF ResetError, reset_error, RestStatus, Safe, PowerSafe, OneWriter, Shape, AxisFields,
              has_standalone_motion
<1>6. CASE FinishHoming
  BY <1>6 DEF FinishHoming, RestStatus, Safe, PowerSafe, OneWriter, Shape, AxisFields,
              has_standalone_motion
<1>7. CASE FinishHomingNow
  BY <1>0, <1>7, AbortedSafe DEF FinishHomingNow, finish_homing_now
<1> QED
  BY <1>1, <1>2, <1>3, <1>4, <1>5, <1>6, <1>7

\* Calls on the active command: release of MC_Stop, override, ContinuousUpdate.
LEMMA ActiveCallsSafe ==
  ASSUME Safe(ax),
         \/ ReleaseStop
         \/ \E n \in Ticks : SetOverride(n)
         \/ \E inside \in BOOLEAN, n \in Ticks, ok \in Feasible : UpdateTarget(inside, n, ok)
  PROVE  Safe(ax')
<1>1. CASE ReleaseStop
  BY <1>1 DEF ReleaseStop, release_stop, RestStatus, Safe, PowerSafe, OneWriter, Shape,
              AxisFields, has_standalone_motion
<1>2. ASSUME NEW n \in Ticks, SetOverride(n) PROVE Safe(ax')
  BY <1>2 DEF SetOverride, override_zero, override_positive, Safe, PowerSafe, OneWriter, Shape,
              AxisFields, has_standalone_motion
<1>3. ASSUME NEW inside \in BOOLEAN, NEW n \in Ticks, NEW ok \in Feasible,
             UpdateTarget(inside, n, ok)
      PROVE  Safe(ax')
  <2>1. Shape(ax) /\ ax.active
    BY <1>3 DEF UpdateTarget, Safe
  <2>2. SameOthers(ax, fail_command(ax, n, ok))
    BY <2>1, FailShape
  <2>3. SameOthers(ax, [ax EXCEPT !.left = n, !.holding = FALSE])
    BY <2>1 DEF Safe, PowerSafe, has_standalone_motion, SameOthers, Shape, AxisFields
  <2>4. SameOthers(ax, ax')
    BY <1>3, <2>2, <2>3 DEF UpdateTarget, update_active_target
  <2> QED
    BY <2>1, <2>4, ActiveSafe
<1> QED
  BY <1>1, <1>2, <1>3

\* Nothing but commands may drive the axis.
CommandsOnly(a) == Shape(a) /\ Enabled(a) /\ a.sync = "none" /\ a.streamId = 0

\* An enabled axis that only commands drive is safe.
LEMMA CommandsSafe ==
  ASSUME NEW a, CommandsOnly(a)
  PROVE  Safe(a)
  BY DEF CommandsOnly, Safe, PowerSafe, OneWriter, Enabled

\* submit_impl: a command that does not abort is only let in when no stream and
\* no synchronization is there, and one that aborts ends them.
LEMMA SubmitSafe ==
  ASSUME Safe(ax), NEW in \in Commands, NEW n \in Ticks, NEW ok \in Feasible, Submit(in, n, ok)
  PROVE  Safe(ax')
<1> DEFINE id == ax.nextId
           c == [kind |-> in.kind, mode |-> in.mode, inside |-> in.inside,
                 lock |-> in.lock, homing |-> in.homing, timed |-> in.timed, id |-> id]
           live == NewId(ax, "live")
           dead == NewId(ax, "rejected")
           from(b) == IF c.mode = "aborting"
                      THEN [abort_motion(b) EXCEPT !.moving = b.moving] ELSE b
           target == IF c.mode = "aborting" THEN normalize(c) ELSE c
           torque == [abort_motion(live) EXCEPT
                         !.active = TRUE, !.cmd = c, !.activeId = id,
                         !.status = "continuous_motion"]
           queued == [live EXCEPT !.queue = Append(@, target)]
<1>1. Enabled(ax) /\ Shape(ax) /\ (in.mode # "aborting" => ax.sync = "none" /\ ax.streamId = 0)
  BY DEF Submit, submit_admissibility, Enabled, Safe
<1>2. \A b \in {live, dead} :
         /\ Shape(b) /\ Enabled(b) /\ Safe(b)
         /\ b.sync = ax.sync /\ b.streamId = ax.streamId
  <2>1. \A r : /\ Shape(NewId(ax, r)) /\ Enabled(NewId(ax, r)) /\ Safe(NewId(ax, r))
               /\ NewId(ax, r).sync = ax.sync /\ NewId(ax, r).streamId = ax.streamId
    BY <1>1 DEF NewId, Shape, Enabled, Safe, PowerSafe, OneWriter, AxisFields
  <2> QED
    BY <2>1
<1>3. c.mode = in.mode /\ c.kind = in.kind
  OBVIOUS
<1>4. ax' = submit_impl(ax, in, n, ok).ax
  BY DEF Submit
<1>5. \/ ax' \in {torque, dead, from(dead), start(from(live), c, n, ok),
                  start(from(dead), c, n, ok)}
      \/ in.mode # "aborting" /\ ax' = queued
  BY <1>3, <1>4 DEF submit_impl
<1> HIDE DEF live, dead, c
<1>6. CommandsOnly(torque)
  <2>1. Shape(abort_motion(live)) /\ ~has_standalone_motion(abort_motion(live))
        /\ abort_motion(live).powered
    BY <1>2, AbortShape DEF Enabled
  <2> QED
    BY <2>1 DEF CommandsOnly, Shape, Enabled, AxisFields, has_standalone_motion
<1>7. \A b \in {live, dead} : CommandsOnly(from(b))
  <2> TAKE b \in {live, dead}
  <2>1. CASE in.mode = "aborting"
    <3> DEFINE d == abort_motion(b)
    <3>1. Shape(d) /\ ~has_standalone_motion(d) /\ Enabled(d)
      BY <1>2, AbortShape DEF Enabled
    <3> HIDE DEF d
    <3>2. CommandsOnly([d EXCEPT !.moving = b.moving])
      BY <3>1 DEF CommandsOnly, Shape, Enabled, AxisFields, has_standalone_motion
    <3> QED
      BY <1>3, <2>1, <3>2 DEF d
  <2>2. CASE in.mode # "aborting"
    BY <1>1, <1>2, <1>3, <2>2 DEF CommandsOnly
  <2> QED
    BY <2>1, <2>2
<1>8. \A b \in {live, dead} : CommandsOnly(start(from(b), c, n, ok))
  <2> TAKE b \in {live, dead}
  <2>1. CommandsOnly(from(b))
    BY <1>7
  <2> HIDE DEF from
  <2> QED
    BY <2>1, StartShape DEF CommandsOnly, Enabled
<1>9. in.mode # "aborting" => CommandsOnly(queued)
  BY <1>1, <1>2 DEF CommandsOnly, Shape, Enabled, AxisFields
<1> QED
  BY <1>2, <1>5, <1>6, <1>7, <1>8, <1>9, CommandsSafe

\* submit_acceleration_profile aborts whatever drives the axis.
LEMMA ProfileSafe ==
  ASSUME Safe(ax), SubmitAccelerationProfile
  PROVE  Safe(ax')
<1> DEFINE live == NewId(ax, "live")
           b == abort_motion(live)
<1>1. Shape(live) /\ Enabled(live)
  BY DEF SubmitAccelerationProfile, NewId, Safe, Shape, Enabled, AxisFields
<1> HIDE DEF live
<1>2. Shape(b) /\ ~has_standalone_motion(b) /\ b.powered
  BY <1>1, AbortShape DEF Enabled
<1>3. PICK q, i, d : ax' = [b EXCEPT !.queue = q, !.active = TRUE, !.activeId = i,
                                     !.cmd = d, !.status = "continuous_motion"]
  BY DEF SubmitAccelerationProfile, submit_acceleration_profile, live
<1> HIDE DEF b
<1>4. CommandsOnly(ax')
  BY <1>2, <1>3 DEF CommandsOnly, Shape, Enabled, AxisFields, has_standalone_motion
<1> QED
  BY <1>4, CommandsSafe

\* begin_sync waits behind a command or finds none, and ends an offset.
LEMMA SynchronizeSafe ==
  ASSUME Safe(ax), NEW kind, NEW mode, NEW entry, entry # "queued", Synchronize(kind, mode, entry)
  PROVE  Safe(ax')
<1> DEFINE b == IF mode = "aborting" THEN abort_motion(ax) ELSE ax
           c == NewId(b, "live")
<1>1. Enabled(ax) /\ Shape(ax) /\ ax.streamId = 0
  BY DEF Synchronize, Enabled, Safe
<1>2. Shape(b) /\ Enabled(b) /\ b.streamId = 0
  BY <1>1, AbortShape DEF Enabled, has_standalone_motion
<1>3. ax' = [c EXCEPT !.supId = 0, !.supLeft = 0, !.supHalting = FALSE, !.supDone = 0,
                  !.result = Ended(c, {ax.supId}, "aborted"),
                  !.sync = kind, !.syncId = b.nextId, !.entry = entry,
                  !.phase = IF b.active THEN "queued" ELSE entry]
  BY DEF Synchronize, begin_sync
<1> HIDE DEF b
<1>4. Shape(c) /\ Enabled(c) /\ c.streamId = 0 /\ c.active = b.active
  BY <1>2 DEF NewId, Shape, Enabled, AxisFields
<1> HIDE DEF c
<1> QED
  BY <1>3, <1>4 DEF Safe, PowerSafe, OneWriter, Shape, Enabled, AxisFields

\* sync_out: the axis goes on by a velocity command, or rests.
LEMMA SyncOutSafe ==
  ASSUME Safe(ax), NEW n \in Ticks, SyncOut(n)
  PROVE  Safe(ax')
<1> DEFINE b == [ax EXCEPT !.sync = "none", !.phase = "idle", !.entry = "idle",
                       !.syncId = 0, !.activeId = 0,
                       !.result = Ended(ax, {ax.syncId}, "aborted")]
           hold == [NoCommand EXCEPT !.kind = "move_velocity", !.id = ax.nextId]
           live == NewId(b, "live")
           rest == [b EXCEPT !.status = RestStatus(ax), !.moving = FALSE]
<1>1. Shape(ax) /\ Enabled(ax) /\ ax.streamId = 0
  BY DEF SyncOut, Safe, PowerSafe, OneWriter, has_standalone_motion, Enabled
<1>2. CommandsOnly(b) /\ b.powered = ax.powered
  BY <1>1 DEF CommandsOnly, Shape, Enabled, AxisFields
<1>3. ax' \in {start(live, hold, n, TRUE), rest}
  BY DEF SyncOut, sync_out
<1> HIDE DEF b, hold
<1>4. CommandsOnly(live)
  BY <1>2 DEF NewId, CommandsOnly, Shape, Enabled, AxisFields
<1> HIDE DEF live
<1>5. CommandsOnly(start(live, hold, n, TRUE))
  <2>1. \A ok : CommandsOnly(start(live, hold, n, ok))
    BY <1>4, StartShape DEF CommandsOnly, Enabled
  <2> QED
    BY <2>1, Zenon
<1>6. CommandsOnly(rest)
  BY <1>2 DEF CommandsOnly, Shape, Enabled, AxisFields, RestStatus
<1> QED
  BY <1>3, <1>5, <1>6, CommandsSafe

\* A stream session begins with nothing else on the axis and ends at rest.
LEMMA StreamSafe ==
  ASSUME Safe(ax), (\E ok \in Feasible : StreamEngage(ok)) \/ StreamDisengage
  PROVE  Safe(ax')
<1>1. ASSUME NEW ok \in Feasible, StreamEngage(ok) PROVE Safe(ax')
  <2> DEFINE b == abort_motion(ax)
             c == NewId(b, "live")
             d == [c EXCEPT !.moving = ax.moving, !.streamId = ax.nextId,
                            !.status = "synchronized_motion"]
  <2>1. Shape(b) /\ ~has_standalone_motion(b) /\ ~b.moving /\ b.powered
    BY <1>1, AbortShape DEF StreamEngage, Safe
  <2>2. ax' \in {b, d}
    BY <1>1 DEF StreamEngage, stream_engage
  <2> HIDE DEF b
  <2>3. Safe(b)
    BY <2>1 DEF Safe, PowerSafe, OneWriter, has_standalone_motion
  <2>4. Shape(c) /\ ~has_standalone_motion(c) /\ c.powered
    BY <2>1 DEF NewId, Shape, AxisFields, has_standalone_motion
  <2> HIDE DEF c
  <2>5. Safe(d)
    BY <2>4 DEF Safe, PowerSafe, OneWriter, Shape, AxisFields, has_standalone_motion
  <2> QED
    BY <2>2, <2>3, <2>5
<1>2. CASE StreamDisengage
  BY <1>2 DEF StreamDisengage, stream_disengage, RestStatus, Safe, PowerSafe, OneWriter, Shape,
              AxisFields, has_standalone_motion
<1> QED
  BY <1>1, <1>2

\* A superimposed offset only joins commands on an enabled axis.
LEMMA SuperimposedSafe ==
  ASSUME Safe(ax),
         \/ \E n \in Ticks : SubmitSuperimposed(n)
         \/ \E rest \in BOOLEAN, n \in Ticks : HaltSuperimposed(rest, n)
         \/ \E n \in Ticks, ok \in Feasible : UpdateSuperimposed(n, ok)
  PROVE  Safe(ax')
<1>1. ASSUME NEW n \in Ticks, SubmitSuperimposed(n) PROVE Safe(ax')
  <2>1. CommandsOnly(ax)
    BY <1>1 DEF SubmitSuperimposed, CommandsOnly, Enabled, Safe
  <2>2. CommandsOnly(ax')
    BY <1>1, <2>1 DEF SubmitSuperimposed, submit_superimposed, NewId, CommandsOnly, Enabled,
                      Shape, AxisFields
  <2> QED
    BY <2>2, CommandsSafe
<1>2. ASSUME NEW rest \in BOOLEAN, NEW n \in Ticks, HaltSuperimposed(rest, n) PROVE Safe(ax')
  BY <1>2 DEF HaltSuperimposed, halt_superimposed, Safe, PowerSafe, OneWriter, Shape, AxisFields,
              has_standalone_motion
<1>3. ASSUME NEW n \in Ticks, NEW ok \in Feasible, UpdateSuperimposed(n, ok) PROVE Safe(ax')
  BY <1>3 DEF UpdateSuperimposed, abort_superimposed, Safe, PowerSafe, OneWriter, Shape,
              AxisFields, has_standalone_motion
<1> QED
  BY <1>1, <1>2, <1>3

-----------------------------------------------------------------------------

\* The axis is safe in every state: the two invariants hold together, for every
\* set of commands and calls and every outcome of planning.
THEOREM AxisSafe == Spec => []AxisInv
<1>1. Init => AxisInv
  BY DEF AxisInv, Init, AxisInit, Safe, PowerSafe, OneWriter, Shape, AxisFields,
         has_standalone_motion
<1>2. ASSUME AxisInv, [Next]_ax PROVE AxisInv'
  <2>0. Safe(ax)
    BY <1>2 DEF AxisInv
  <2>1. ASSUME NEW mode \in Modes, GearIn(mode) \/ CamIn(mode) \/ CombineIn(mode)
        PROVE  Safe(ax')
    BY <2>0, <2>1, SynchronizeSafe DEF GearIn, CamIn, CombineIn
  <2>2. ASSUME Cycle PROVE Safe(ax')
    BY <2>0, <2>2, CycleSafe DEF Cycle
  <2>3. ASSUME UNCHANGED ax PROVE Safe(ax')
    BY <2>0, <2>3
  <2>4. Safe(ax')
    BY <1>2, <2>0, <2>1, <2>2, <2>3, PowerCallsSafe, ActiveCallsSafe, SubmitSafe, ProfileSafe,
       SyncOutSafe, StreamSafe, SuperimposedSafe
    DEF Next
  <2> QED
    BY <2>4 DEF AxisInv
<1> QED
  BY <1>1, <1>2, PTL DEF Spec

\* NoMotionWithoutPower: after any sequence of calls and cycles, an axis that has
\* lost power or is in ErrorStop has no command, queue, synchronization, stream
\* or offset left, and its set point stands still.
THEOREM NoPowerNoMotion == Spec => []NoMotionWithoutPower
<1>1. AxisInv => NoMotionWithoutPower
  BY DEF AxisInv, Safe, PowerSafe, NoMotionWithoutPower
<1> QED
  BY <1>1, AxisSafe, PTL

\* SingleWriter: the five ways to start motion never leave two drivers of the
\* set point behind.
THEOREM OneDriver == Spec => []SingleWriter
<1>1. AxisInv => SingleWriter
  BY DEF AxisInv, Safe, OneWriter, SingleWriter
<1> QED
  BY <1>1, AxisSafe, PTL

-----------------------------------------------------------------------------
(* Type correctness: MemberTypes is followed through the same functions.  Ids *)
(* stay below the counter's bound, profiles within MaxTicks, and what is      *)
(* queued, active or synchronized is always well formed.                      *)



\* Facts about values that many functions assign.
LEMMA Values ==
  /\ NoCommand \in Command
  /\ 0 \in 0 .. MaxId /\ 0 \in 0 .. MaxTicks
  /\ <<>> \in Seq(Command)
  /\ Ticks \subseteq 0 .. MaxTicks
  BY AxisAssumption DEF NoCommand, Command, CommandKinds, Ticks

\* The history only ever holds results.
LEMMA EndedType ==
  ASSUME NEW a, Shape(a), MemberTypes(a), NEW S, NEW r \in Results
  PROVE  Ended(a, S, r) \in [Id -> Results]
  BY DEF MemberTypes, Shape, Ended

\* The state an axis rests in is a PLCopen state.
LEMMA RestType ==
  ASSUME NEW a
  PROVE  RestStatus(a) \in AxisStatus
  BY DEF RestStatus, AxisStatus

\* An id that is given out is in range, and the counter stays in range.
LEMMA NewIdType ==
  ASSUME NEW a, Shape(a), MemberTypes(a), a.nextId <= MaxId, NEW r \in Results
  PROVE  MemberTypes(NewId(a, r)) /\ a.nextId \in Id
<1>0. a.nextId \in 1 .. MaxId + 1
  BY DEF MemberTypes
<1>1. a.nextId + 1 \in 1 .. MaxId + 1 /\ a.nextId \in Id
  BY <1>0, AxisAssumption DEF Id
<1>2. [a.result EXCEPT ![a.nextId] = r] \in [Id -> Results]
  BY DEF MemberTypes, Shape
<1> QED
  BY <1>1, <1>2 DEF MemberTypes, Shape, NewId, AxisFields

\* The error ledger holds ids.
LEMMA RecordType ==
  ASSUME NEW a, Shape(a), MemberTypes(a), NEW S, S \subseteq 0 .. MaxId
  PROVE  MemberTypes(record_command_error(a, S))
<1>1. Ended(a, S, "error") \in [Id -> Results]
  BY EndedType DEF Results
<1>3. a.errors \subseteq Id
  BY DEF MemberTypes
<1>4. S \ {0} \subseteq Id
  BY AxisAssumption DEF Id
<1>2. a.errors \cup (S \ {0}) \subseteq Id
  BY <1>3, <1>4
<1> QED
  BY <1>1, <1>2 DEF MemberTypes, Shape, record_command_error, AxisFields

\* abort_motion keeps the types.
LEMMA AbortType ==
  ASSUME NEW a, Shape(a), MemberTypes(a)
  PROVE  MemberTypes(abort_motion(a))
<1>1. Ended(a, OwnedIds(a), "aborted") \in [Id -> Results]
  BY EndedType DEF Results
<1> QED
  BY <1>1, Values, RestType DEF MemberTypes, Shape, abort_motion, AxisFields

\* The member types in three parts, for the longer steps.
Flags(a) ==
    /\ a.status \in AxisStatus
    /\ a.powered \in BOOLEAN /\ a.error \in BOOLEAN /\ a.feedback \in BOOLEAN
    /\ a.override \in BOOLEAN /\ a.active \in BOOLEAN /\ a.holding \in BOOLEAN
    /\ a.braking \in BOOLEAN /\ a.paused \in BOOLEAN /\ a.profiled \in BOOLEAN
    /\ a.moving \in BOOLEAN /\ a.stopRelease \in BOOLEAN /\ a.supHalting \in BOOLEAN

Numbers(a) ==
    /\ a.activeId \in 0 .. MaxId /\ a.stopLock \in 0 .. MaxId
    /\ a.syncId \in 0 .. MaxId /\ a.streamId \in 0 .. MaxId
    /\ a.supId \in 0 .. MaxId /\ a.supDone \in 0 .. MaxId /\ a.lastDone \in 0 .. MaxId
    /\ a.left \in 0 .. MaxTicks /\ a.supLeft \in 0 .. MaxTicks
    /\ a.nextId \in 1 .. MaxId + 1

Data(a) ==
    /\ a.cmd \in Command /\ a.queue \in Seq(Command)
    /\ a.sync \in {"none", "gear", "cam", "combine"}
    /\ a.phase \in {"idle", "queued", "waiting_window", "approaching", "engaged"}
    /\ a.entry \in {"idle", "waiting_window", "approaching", "engaged"}
    /\ a.errors \subseteq Id
    /\ a.result \in [Id -> Results]

\* The member types, in three groups that are followed one at a time.
LEMMA Parts ==
  ASSUME NEW a
  PROVE  MemberTypes(a) <=> Flags(a) /\ Numbers(a) /\ Data(a)
  BY DEF MemberTypes, Flags, Numbers, Data

\* start keeps the types, whether the command starts or not.
LEMMA StartType ==
  ASSUME NEW a, Shape(a), MemberTypes(a), NEW c \in Command, NEW n \in Ticks, NEW ok \in BOOLEAN
  PROVE  MemberTypes(start(a, c, n, ok))
<1> DEFINE d == normalize(c)
           b == [a EXCEPT !.cmd = d, !.activeId = d.id, !.holding = FALSE, !.left = n]
           homingOr(s) == IF d.homing THEN "homing" ELSE s
<1>1. d \in Command
  BY DEF normalize, Command, CommandKinds
<1>2. d.id \in 0 .. MaxId /\ n \in 0 .. MaxTicks /\ a.moving \in BOOLEAN
  BY <1>1, Values DEF Command, MemberTypes
<1>3. \A s \in AxisStatus : homingOr(s) \in AxisStatus
  BY DEF AxisStatus
<1>4. {"continuous_motion", "stopping", "discrete_motion"} \subseteq AxisStatus
  BY DEF AxisStatus
<1> HIDE DEF d, homingOr
<1>5. Shape(b) /\ MemberTypes(b)
  BY <1>1, <1>2 DEF MemberTypes, Shape, AxisFields
<1> DEFINE velocity == [b EXCEPT !.active = TRUE, !.left = IF d.timed THEN n ELSE 0,
                                 !.status = homingOr("continuous_motion")]
           halting == [b EXCEPT !.active = TRUE, !.profiled = a.moving /\ ok,
                         !.left = IF a.moving /\ ok THEN n ELSE 0,
                         !.stopLock = IF d.kind = "stop" /\ d.lock THEN d.id ELSE @,
                         !.stopRelease = IF d.kind = "stop" /\ d.lock THEN FALSE ELSE @,
                         !.status = homingOr("stopping")]
           failed == [b EXCEPT !.cmd = IF a.active THEN d ELSE NoCommand,
                              !.left = IF a.active THEN n ELSE 0]
           started(s) == [b EXCEPT !.active = TRUE, !.status = homingOr(s)]
<1>6. start(a, c, n, ok) \in {velocity, halting, failed, started("continuous_motion"),
                              started("discrete_motion")}
  BY DEF start, d, homingOr
<1> HIDE DEF b
<1>7. MemberTypes(velocity)
  BY <1>2, <1>3, <1>4, <1>5, Values DEF MemberTypes, Shape, AxisFields
<1>8. MemberTypes(halting)
  <2> DEFINE profiled == a.moving /\ ok
             left == IF a.moving /\ ok THEN n ELSE 0
             lock == IF d.kind = "stop" /\ d.lock THEN d.id ELSE b.stopLock
             release == IF d.kind = "stop" /\ d.lock THEN FALSE ELSE b.stopRelease
             status == homingOr("stopping")
             h == [b EXCEPT !.active = TRUE, !.profiled = profiled, !.left = left,
                            !.stopLock = lock, !.stopRelease = release, !.status = status]
  <2>1. profiled \in BOOLEAN /\ left \in 0 .. MaxTicks /\ release \in BOOLEAN
    BY <1>2, <1>5, Values DEF MemberTypes
  <2>2. lock \in 0 .. MaxId /\ status \in AxisStatus
    BY <1>2, <1>3, <1>4, <1>5 DEF MemberTypes
  <2>3. halting = h
    OBVIOUS
  <2> HIDE DEF profiled, left, lock, release, status, halting
  <2>4. MemberTypes(h)
    <3>0. Flags(b) /\ Numbers(b) /\ Data(b)
      BY <1>5, Parts
    <3>1. Flags(h)
      BY <3>0, <1>5, <2>1, <2>2 DEF Flags, Shape, AxisFields
    <3>2. Numbers(h)
      BY <3>0, <1>5, <2>1, <2>2 DEF Numbers, Shape, AxisFields
    <3>3. Data(h)
      BY <3>0, <1>5, <2>1, <2>2 DEF Data, Shape, AxisFields
    <3> QED
      BY <3>1, <3>2, <3>3, Parts
  <2> QED
    BY <2>3, <2>4
<1>9. MemberTypes(failed)
  BY <1>1, <1>2, <1>5, Values DEF MemberTypes, Shape, AxisFields
<1>10. MemberTypes(started("continuous_motion")) /\ MemberTypes(started("discrete_motion"))
  BY <1>3, <1>4, <1>5 DEF MemberTypes, Shape, AxisFields
<1> HIDE DEF velocity, halting, failed, started
<1> QED
  BY <1>6, <1>7, <1>8, <1>9, <1>10

\* A record with the shape and the member types of an axis.
Typed(a) == Shape(a) /\ MemberTypes(a)

\* The next command of the queue is a command, and so are the ones behind it.
LEMMA NextType ==
  ASSUME NEW a, Typed(a), NEW n \in Ticks, NEW ok \in BOOLEAN
  PROVE  Typed(start_next_queued(a, n, ok))
<1>1. CASE a.queue = <<>>
  BY <1>1 DEF start_next_queued
<1>2. CASE a.queue # <<>>
  <2> DEFINE b == [a EXCEPT !.queue = Tail(@)]
             c == Head(a.queue)
  <2>0. a.queue \in Seq(Command)
    BY DEF Typed, MemberTypes
  <2>1. Tail(a.queue) \in Seq(Command) /\ c \in Command
    BY <1>2, <2>0
  <2>2. Shape(b)
    BY DEF Typed, Shape
  <2>3. MemberTypes(b)
    BY <2>1 DEF Typed, MemberTypes, Shape, AxisFields
  <2>4. start_next_queued(a, n, ok) = start(b, c, n, ok)
    BY <1>2 DEF start_next_queued
  <2> HIDE DEF b, c
  <2>5. Shape(start(b, c, n, ok))
    BY <2>2, StartShape
  <2> QED
    BY <2>1, <2>2, <2>3, <2>4, <2>5, StartType DEF Typed
<1> QED
  BY <1>1, <1>2

\* The ends of a command: completion, blending and failure.
LEMMA FinishType ==
  ASSUME NEW a, Typed(a), NEW n \in Ticks, NEW ok \in BOOLEAN
  PROVE  Typed(finish_active(a, n, ok))
<1> DEFINE lockingStop == a.cmd.kind = "stop" /\ a.cmd.lock
           locked == lockingStop /\ a.stopLock = a.activeId /\ ~a.stopRelease
           status == IF locked THEN "stopping"
                     ELSE IF a.cmd.homing THEN "homing" ELSE RestStatus(a)
           lock == IF lockingStop /\ ~locked THEN 0 ELSE a.stopLock
           release == IF lockingStop /\ ~locked THEN FALSE ELSE a.stopRelease
           b == [a EXCEPT !.active = FALSE, !.cmd = NoCommand, !.activeId = 0,
                       !.left = 0, !.holding = FALSE, !.moving = FALSE,
                       !.lastDone = a.activeId,
                       !.result = Ended(a, {a.activeId}, "done"),
                       !.status = status,
                       !.stopLock = lock, !.stopRelease = release]
<1>1. Ended(a, {a.activeId}, "done") \in [Id -> Results]
  BY EndedType DEF Typed, Results
<1>2. status \in AxisStatus
  BY RestType DEF AxisStatus
<1>3. finish_active(a, n, ok) = IF locked THEN b ELSE start_next_queued(b, n, ok)
  BY DEF finish_active
<1>6. lock \in 0 .. MaxId /\ release \in BOOLEAN
  BY Values DEF Typed, MemberTypes
<1> HIDE DEF status, lockingStop, locked, lock, release
<1>4. Shape(b)
  BY DEF Typed, Shape
<1>5. MemberTypes(b)
  <2>0. Shape(a) /\ Flags(a) /\ Numbers(a) /\ Data(a)
    BY Parts DEF Typed
  <2>1. Flags(b)
    BY <2>0, <1>2, <1>6 DEF Flags, Shape, AxisFields
  <2>2. Numbers(b)
    BY <2>0, <1>6, Values DEF Numbers, Shape, AxisFields
  <2>3. Data(b)
    BY <2>0, <1>1, Values DEF Data, Shape, AxisFields
  <2> QED
    BY <2>1, <2>2, <2>3, Parts
<1> HIDE DEF b
<1> QED
  BY <1>3, <1>4, <1>5, NextType DEF Typed

\* A command that its successor takes over from ends in the same way.
LEMMA BlendType ==
  ASSUME NEW a, Typed(a), NEW n \in Ticks, NEW ok \in BOOLEAN
  PROVE  Typed(blend_into_next(a, n, ok))
<1> DEFINE b == [a EXCEPT !.lastDone = a.activeId, !.result = Ended(a, {a.activeId}, "done")]
<1>1. Ended(a, {a.activeId}, "done") \in [Id -> Results]
  BY EndedType DEF Typed, Results
<1>2. Shape(b)
  BY DEF Typed, Shape
<1>3. MemberTypes(b)
  BY <1>1 DEF Typed, MemberTypes, Shape, AxisFields
<1>4. blend_into_next(a, n, ok) = start_next_queued(b, n, ok)
  BY DEF blend_into_next
<1> HIDE DEF b
<1> QED
  BY <1>2, <1>3, <1>4, NextType DEF Typed

\* The failure of the active command makes its successor the active one.
LEMMA FailType ==
  ASSUME NEW a, Typed(a), NEW n \in Ticks, NEW ok \in BOOLEAN
  PROVE  Typed(fail_command(a, n, ok))
<1> DEFINE r == record_command_error(a, {a.activeId})
           status == IF a.cmd.homing THEN "homing" ELSE RestStatus(a)
           b == [r EXCEPT !.active = FALSE, !.cmd = NoCommand, !.activeId = 0, !.left = 0,
                          !.holding = FALSE, !.braking = FALSE, !.paused = FALSE,
                          !.status = status]
           c == start_next_queued(b, n, ok)
           moving == c.active /\ c.moving
<1>1. Shape(r)
  BY DEF record_command_error, Typed, Shape
<1>2. MemberTypes(r)
  <2>1. {a.activeId} \subseteq 0 .. MaxId
    BY DEF Typed, MemberTypes
  <2> QED
    BY <2>1, RecordType DEF Typed
<1>3. status \in AxisStatus
  BY RestType DEF AxisStatus
<1>4. fail_command(a, n, ok) = [c EXCEPT !.moving = moving]
  BY DEF fail_command
<1> HIDE DEF r, status
<1>5. Shape(b)
  BY <1>1 DEF Shape
<1>6. MemberTypes(b)
  BY <1>1, <1>2, <1>3, Values DEF MemberTypes, Shape, AxisFields
<1> HIDE DEF b
<1>7. Typed(c)
  BY <1>5, <1>6, NextType DEF Typed
<1>8. moving \in BOOLEAN
  OBVIOUS
<1> HIDE DEF c, moving
<1>9. Shape([c EXCEPT !.moving = moving])
  BY <1>7 DEF Typed, Shape
<1>10. MemberTypes([c EXCEPT !.moving = moving])
  BY <1>7, <1>8 DEF Typed, MemberTypes, Shape, AxisFields
<1> QED
  BY <1>4, <1>9, <1>10 DEF Typed

\* All ids the axis works on are ids that were given out.
LEMMA OwnedType ==
  ASSUME NEW a, Typed(a)
  PROVE  OwnedIds(a) \cup ({a.activeId} \ {0}) \subseteq 0 .. MaxId
<1>1. a.queue \in Seq(Command)
  BY DEF Typed, MemberTypes
<1>2. QueueIds(a) \subseteq 0 .. MaxId
  <2>1. \A k \in DOMAIN a.queue : a.queue[k] \in Command
    BY <1>1
  <2>2. \A c \in Command : c.id \in 0 .. MaxId
    BY DEF Command
  <2> QED
    BY <2>1, <2>2 DEF QueueIds
<1>3. {a.activeId, a.syncId, a.streamId, a.supId} \subseteq 0 .. MaxId
  BY DEF Typed, MemberTypes
<1> QED
  BY <1>2, <1>3 DEF OwnedIds

\* trigger_error keeps the types.
LEMMA ErrorType ==
  ASSUME NEW a, Typed(a)
  PROVE  Typed(trigger_error(a))
<1> DEFINE r == record_command_error(a, OwnedIds(a) \cup ({a.activeId} \ {0}))
           b == abort_motion(r)
<1>1. Shape(r)
  BY DEF record_command_error, Typed, Shape
<1>2. MemberTypes(r)
  BY OwnedType, RecordType DEF Typed
<1>3. trigger_error(a) = [b EXCEPT !.error = TRUE, !.status = "errorstop"]
  BY DEF trigger_error
<1> HIDE DEF r
<1>4. Shape(b) /\ MemberTypes(b)
  BY <1>1, <1>2, AbortShape, AbortType
<1> HIDE DEF b
<1>5. Shape([b EXCEPT !.error = TRUE, !.status = "errorstop"])
  BY <1>4 DEF Shape
<1>6. MemberTypes([b EXCEPT !.error = TRUE, !.status = "errorstop"])
  BY <1>4 DEF MemberTypes, Shape, AxisFields, AxisStatus
<1> QED
  BY <1>3, <1>5, <1>6 DEF Typed

-----------------------------------------------------------------------------
(* cycle()                                                                  *)

\* The counter of a profile stops at zero.
LEMMA TickType ==
  ASSUME NEW a, Typed(a), NEW x \in BOOLEAN
  PROVE  /\ Typed([a EXCEPT !.moving = x])
         /\ Typed(Tick([a EXCEPT !.moving = x]))
<1> DEFINE b == [a EXCEPT !.moving = x]
           left == IF b.left > 1 THEN b.left - 1 ELSE 0
<1>1. Shape(b)
  BY DEF Typed, Shape
<1>2. MemberTypes(b)
  BY DEF Typed, MemberTypes, Shape, AxisFields
<1> HIDE DEF b
<1>3. left \in 0 .. MaxTicks
  <2>1. b.left \in 0 .. MaxTicks
    BY <1>2 DEF MemberTypes
  <2> QED
    BY <2>1, AxisAssumption
<1>4. Tick(b) = [b EXCEPT !.left = left]
  BY DEF Tick
<1> HIDE DEF left
<1>5. Shape([b EXCEPT !.left = left])
  BY <1>1 DEF Shape
<1>6. MemberTypes([b EXCEPT !.left = left])
  BY <1>1, <1>2, <1>3 DEF MemberTypes, Shape, AxisFields
<1>7. Typed(b) /\ Typed(Tick(b))
  BY <1>1, <1>2, <1>4, <1>5, <1>6 DEF Typed
<1> QED
  BY <1>7 DEF b

\* One period of the active command, with all the ways it may end.
LEMMA BaseType ==
  ASSUME NEW a, Typed(a), NEW m \in BOOLEAN, NEW blend, NEW n \in Ticks, NEW ok \in BOOLEAN
  PROVE  Typed(cycle_base_motion(a, m, blend, n, ok))
<1> DEFINE T(x) == Tick([a EXCEPT !.moving = x])
           speed == IF a.holding THEN m ELSE a.override
           paused == [T(m) EXCEPT !.braking = FALSE, !.paused = TRUE, !.moving = FALSE]
           holding == [T(m) EXCEPT !.holding = TRUE, !.status = "continuous_motion"]
<1>1. speed \in BOOLEAN
  BY DEF Typed, MemberTypes
<1>2. Typed(T(m)) /\ Typed(T(speed))
  BY <1>1, TickType
<1>3. Typed([a EXCEPT !.moving = m]) /\ Typed([a EXCEPT !.moving = FALSE])
  BY TickType
<1>4. cycle_base_motion(a, m, blend, n, ok) \in
        {a, [a EXCEPT !.moving = m], [a EXCEPT !.moving = FALSE],
         finish_active(T(speed), n, ok), T(speed), finish_active(a, n, ok),
         blend_into_next(T(m), n, ok), T(m), paused, holding, finish_active(T(m), n, ok)}
  BY DEF cycle_base_motion
<1> HIDE DEF T, speed
<1>5. Typed(paused)
  <2>1. Shape(paused)
    BY <1>2 DEF Typed, Shape
  <2>2. MemberTypes(paused)
    <3>0. Shape(T(m)) /\ Flags(T(m)) /\ Numbers(T(m)) /\ Data(T(m))
      BY <1>2, Parts DEF Typed
    <3>1. Flags(paused)
      BY <3>0, <1>2 DEF Flags, Shape, AxisFields
    <3>2. Numbers(paused)
      BY <3>0, <1>2 DEF Numbers, Shape, AxisFields
    <3>3. Data(paused)
      BY <3>0, <1>2 DEF Data, Shape, AxisFields
    <3> QED
      BY <3>1, <3>2, <3>3, Parts
  <2> QED
    BY <2>1, <2>2 DEF Typed
<1>6. Typed(holding)
  <2>1. Shape(holding)
    BY <1>2 DEF Typed, Shape
  <2>2. MemberTypes(holding)
    <3>0. Shape(T(m)) /\ Flags(T(m)) /\ Numbers(T(m)) /\ Data(T(m))
      BY <1>2, Parts DEF Typed
    <3>1. Flags(holding)
      BY <3>0, <1>2 DEF Flags, Shape, AxisFields, AxisStatus
    <3>2. Numbers(holding)
      BY <3>0, <1>2 DEF Numbers, Shape, AxisFields, AxisStatus
    <3>3. Data(holding)
      BY <3>0, <1>2 DEF Data, Shape, AxisFields, AxisStatus
    <3> QED
      BY <3>1, <3>2, <3>3, Parts
  <2> QED
    BY <2>1, <2>2 DEF Typed
<1>7. /\ Typed(finish_active(a, n, ok)) /\ Typed(finish_active(T(m), n, ok))
      /\ Typed(finish_active(T(speed), n, ok)) /\ Typed(blend_into_next(T(m), n, ok))
  BY <1>2, FinishType, BlendType
<1> HIDE DEF paused, holding
<1> QED
  BY <1>2, <1>3, <1>4, <1>5, <1>6, <1>7, Zenon

\* One period of a superimposed offset.
LEMMA OffsetType ==
  ASSUME NEW a, Typed(a), NEW m \in BOOLEAN
  PROVE  Typed(cycle_superimposed(a, m))
<1> DEFINE left == a.supLeft - 1
           raised == IF ~a.active /\ a.status = "standstill" THEN "discrete_motion" ELSE a.status
           lowered == IF ~a.active /\ a.status = "discrete_motion" THEN "standstill" ELSE a.status
           done == IF a.supHalting THEN 0 ELSE a.supId
           result == Ended(a, {a.supId}, IF a.supHalting THEN "aborted" ELSE "done")
           still == a.active /\ ~a.paused /\ a.moving
           going == [a EXCEPT !.supLeft = left, !.moving = m, !.status = raised]
           over == [a EXCEPT !.supLeft = 0, !.supId = 0, !.supHalting = FALSE,
                             !.supDone = done, !.result = result, !.moving = still,
                             !.status = lowered]
<1>0. /\ a.supLeft \in 0 .. MaxTicks /\ a.supId \in 0 .. MaxId /\ a.status \in AxisStatus
  BY DEF Typed, MemberTypes
<1>1. /\ raised \in AxisStatus /\ lowered \in AxisStatus
      /\ done \in 0 .. MaxId /\ still \in BOOLEAN
  BY <1>0, Values DEF AxisStatus
<1>2. result \in [Id -> Results]
  BY EndedType DEF Typed, Results
<1>3. \/ cycle_superimposed(a, m) \in {a, over}
      \/ a.supLeft > 1 /\ cycle_superimposed(a, m) = going
  BY DEF cycle_superimposed
<1>4. a.supLeft > 1 => left \in 0 .. MaxTicks
  BY <1>0, AxisAssumption
<1> HIDE DEF left, raised, lowered, done, result, still
<1>5. Typed(over)
  <2>1. Shape(over)
    BY DEF Typed, Shape
  <2>2. MemberTypes(over)
    BY <1>1, <1>2, Values DEF Typed, MemberTypes, Shape, AxisFields
  <2> QED
    BY <2>1, <2>2 DEF Typed
<1>6. ASSUME a.supLeft > 1 PROVE Typed(going)
  <2>1. Shape(going)
    BY DEF Typed, Shape
  <2>2. MemberTypes(going)
    BY <1>1, <1>4, <1>6 DEF Typed, MemberTypes, Shape, AxisFields
  <2> QED
    BY <2>1, <2>2 DEF Typed
<1> HIDE DEF over, going
<1> QED
  BY <1>3, <1>5, <1>6

\* One period of a synchronization, whatever it comes to.
LEMMA SyncType ==
  ASSUME NEW a, Typed(a), NEW outcome, NEW m \in BOOLEAN
  PROVE  Typed(sync_cycle(a, outcome, m))
<1> DEFINE waits == [a EXCEPT !.phase = SyncPhaseNow(a)]
           engaged(p) == [a EXCEPT !.phase = p, !.activeId = a.syncId, !.moving = m,
                                   !.status = "synchronized_motion"]
           r == record_command_error(a, {a.syncId})
           fails == [r EXCEPT !.sync = "none", !.phase = "idle", !.entry = "idle",
                              !.syncId = 0, !.activeId = 0, !.moving = FALSE,
                              !.status = RestStatus(a)]
<1>1. sync_cycle(a, outcome, m) \in
        {waits, engaged("approaching"), engaged("engaged"), fails, trigger_error(a)}
  BY DEF sync_cycle, fail_sync_command
<1>2. Typed(waits)
  <2>1. Shape(waits)
    BY DEF Typed, Shape
  <2>2. SyncPhaseNow(a) \in {"idle", "queued", "waiting_window", "approaching", "engaged"}
    BY DEF SyncPhaseNow, Typed, MemberTypes
  <2>3. MemberTypes(waits)
    BY <2>2 DEF Typed, MemberTypes, Shape, AxisFields
  <2> QED
    BY <2>1, <2>3 DEF Typed
<1>3. \A p \in {"approaching", "engaged"} : Typed(engaged(p))
  <2> TAKE p \in {"approaching", "engaged"}
  <2>1. Shape(engaged(p))
    BY DEF Typed, Shape
  <2>2. MemberTypes(engaged(p))
    BY DEF Typed, MemberTypes, Shape, AxisFields, AxisStatus
  <2> QED
    BY <2>1, <2>2 DEF Typed
<1>4. Typed(fails)
  <2>1. {a.syncId} \subseteq 0 .. MaxId
    BY DEF Typed, MemberTypes
  <2>2. Shape(r)
    BY DEF record_command_error, Typed, Shape
  <2>3. MemberTypes(r)
    BY <2>1, RecordType DEF Typed
  <2> HIDE DEF r
  <2>4. Shape(fails)
    BY <2>2 DEF Shape
  <2>5. MemberTypes(fails)
    BY <2>2, <2>3, RestType, Values DEF MemberTypes, Shape, AxisFields
  <2> QED
    BY <2>4, <2>5 DEF Typed
<1> HIDE DEF waits, engaged, fails
<1> QED
  BY <1>1, <1>2, <1>3, <1>4, ErrorType

\* cycle() keeps the types.
LEMMA CycleType ==
  ASSUME NEW a, Typed(a), NEW in \in CycleInput(a)
  PROVE  Typed(cycle(a, in))
<1>0. in.m \in BOOLEAN /\ in.m2 \in BOOLEAN /\ in.n \in Ticks /\ in.ok \in BOOLEAN
  BY AxisAssumption DEF CycleInput
<1> DEFINE b == cycle_base_motion(a, in.m, in.blend, in.n, in.ok)
<1>1. cycle(a, in) \in {a, [a EXCEPT !.moving = in.m], sync_cycle(a, in.outcome, in.m),
                        cycle_superimposed(b, in.m2)}
  BY DEF cycle
<1>2. Typed(b)
  BY <1>0, BaseType
<1> HIDE DEF b
<1>3. Typed(cycle_superimposed(b, in.m2))
  BY <1>0, <1>2, OffsetType
<1>4. Typed(sync_cycle(a, in.outcome, in.m)) /\ Typed([a EXCEPT !.moving = in.m])
  BY <1>0, SyncType, TickType
<1> QED
  BY <1>1, <1>3, <1>4, Zenon

-----------------------------------------------------------------------------
(* The calls.                                                               *)

\* abort_motion, followed by a new state of the axis.
LEMMA AbortedType ==
  ASSUME NEW a, Typed(a), NEW status \in AxisStatus, NEW power \in BOOLEAN
  PROVE  /\ Typed(abort_motion(a))
         /\ Typed([abort_motion(a) EXCEPT !.status = status])
         /\ Typed([abort_motion(a) EXCEPT !.powered = power, !.status = status])
<1> DEFINE b == abort_motion(a)
           c == [b EXCEPT !.status = status]
           d == [b EXCEPT !.powered = power, !.status = status]
<1>1. Shape(b) /\ MemberTypes(b)
  BY AbortShape, AbortType DEF Typed
<1> HIDE DEF b
<1>2. Shape(c) /\ Shape(d)
  BY <1>1 DEF Shape
<1>3. MemberTypes(c)
  BY <1>1 DEF MemberTypes, Shape, AxisFields
<1>4. MemberTypes(d)
  BY <1>1 DEF MemberTypes, Shape, AxisFields
<1>5. Typed(b) /\ Typed(c) /\ Typed(d)
  BY <1>1, <1>2, <1>3, <1>4 DEF Typed
<1> QED
  BY <1>5 DEF b

\* Power, its feedback, errors and the end of homing.
LEMMA PowerCallsType ==
  ASSUME Typed(ax),
         \/ \E enabled \in BOOLEAN : SetPower(enabled) \/ SetPowerFeedback(enabled)
         \/ DisableDirection \/ TriggerError \/ ResetError \/ FinishHoming \/ FinishHomingNow
  PROVE  Typed(ax')
<1>0. {"standstill", "disabled"} \subseteq AxisStatus
  BY DEF AxisStatus
<1>1. ASSUME NEW enabled \in BOOLEAN, SetPower(enabled) PROVE Typed(ax')
  <2> DEFINE s == IF enabled THEN "standstill" ELSE "disabled"
  <2>1. s \in AxisStatus
    BY <1>0
  <2>2. ax' = [abort_motion(ax) EXCEPT !.powered = enabled, !.status = s]
    BY <1>1 DEF SetPower, set_power
  <2> HIDE DEF s
  <2> QED
    BY <2>1, <2>2, AbortedType
<1>2. ASSUME NEW available \in BOOLEAN, SetPowerFeedback(available) PROVE Typed(ax')
  <2> DEFINE b == [ax EXCEPT !.feedback = available]
             c == [b EXCEPT !.powered = FALSE]
  <2>1. Shape(b)
    BY DEF Typed, Shape
  <2>2. MemberTypes(b)
    BY DEF Typed, MemberTypes, Shape, AxisFields
  <2>3. ax' \in {b, trigger_error(c)}
    BY <1>2 DEF SetPowerFeedback, set_power_feedback
  <2> HIDE DEF b
  <2>4. Shape(c)
    BY <2>1 DEF Shape
  <2>5. MemberTypes(c)
    BY <2>1, <2>2 DEF MemberTypes, Shape, AxisFields
  <2> HIDE DEF c
  <2> QED
    BY <2>1, <2>2, <2>3, <2>4, <2>5, ErrorType DEF Typed
<1>3. ASSUME DisableDirection PROVE Typed(ax')
  BY <1>0, <1>3, AbortedType DEF DisableDirection, disable_direction
<1>4. ASSUME TriggerError PROVE Typed(ax')
  BY <1>4, ErrorType DEF TriggerError
<1>5. ASSUME ResetError PROVE Typed(ax')
  <2> DEFINE b == [ax EXCEPT !.error = FALSE, !.status = RestStatus(ax)]
  <2>1. Shape(b)
    BY DEF Typed, Shape
  <2>2. MemberTypes(b)
    BY RestType DEF Typed, MemberTypes, Shape, AxisFields
  <2>3. ax' = b
    BY <1>5 DEF ResetError, reset_error
  <2> QED
    BY <2>1, <2>2, <2>3 DEF Typed
<1>6. ASSUME FinishHoming PROVE Typed(ax')
  <2> DEFINE b == [ax EXCEPT !.status = RestStatus(ax)]
  <2>1. Shape(b)
    BY DEF Typed, Shape
  <2>2. MemberTypes(b)
    BY RestType DEF Typed, MemberTypes, Shape, AxisFields
  <2>3. ax' = b
    BY <1>6 DEF FinishHoming
  <2> QED
    BY <2>1, <2>2, <2>3 DEF Typed
<1>7. ASSUME FinishHomingNow PROVE Typed(ax')
  BY <1>7, RestType, AbortedType DEF FinishHomingNow, finish_homing_now
<1> QED
  BY <1>1, <1>2, <1>3, <1>4, <1>5, <1>6, <1>7

\* Calls on the active command: release of MC_Stop, override, ContinuousUpdate.
LEMMA ActiveCallsType ==
  ASSUME Typed(ax),
         \/ ReleaseStop
         \/ \E n \in Ticks : SetOverride(n)
         \/ \E inside \in BOOLEAN, n \in Ticks, ok \in Feasible : UpdateTarget(inside, n, ok)
  PROVE  Typed(ax')
<1>1. ASSUME ReleaseStop PROVE Typed(ax')
  <2> DEFINE s == IF ax.status = "stopping" THEN RestStatus(ax) ELSE ax.status
             b == [ax EXCEPT !.stopRelease = TRUE]
             c == [ax EXCEPT !.stopLock = 0, !.stopRelease = FALSE, !.status = s]
  <2>1. s \in AxisStatus
    BY RestType DEF Typed, MemberTypes
  <2>2. ax' \in {b, c}
    BY <1>1 DEF ReleaseStop, release_stop
  <2> HIDE DEF s
  <2>3. Shape(b) /\ Shape(c)
    BY DEF Typed, Shape
  <2>4. MemberTypes(b)
    BY DEF Typed, MemberTypes, Shape, AxisFields
  <2>5. MemberTypes(c)
    BY <2>1, Values DEF Typed, MemberTypes, Shape, AxisFields
  <2> HIDE DEF b, c
  <2> QED
    BY <2>2, <2>3, <2>4, <2>5 DEF Typed
<1>2. ASSUME NEW n \in Ticks, SetOverride(n) PROVE Typed(ax')
  <2> DEFINE z == [ax EXCEPT !.override = FALSE]
             brakes == [z EXCEPT !.braking = TRUE, !.paused = FALSE, !.left = n]
             b == [ax EXCEPT !.override = TRUE]
             replanned == [b EXCEPT !.left = n]
  <2>0. n \in 0 .. MaxTicks
    BY Values
  <2>1. Shape(z) /\ Shape(b)
    BY DEF Typed, Shape
  <2>2. MemberTypes(z)
    BY DEF Typed, MemberTypes, Shape, AxisFields
  <2>3. MemberTypes(b)
    BY DEF Typed, MemberTypes, Shape, AxisFields
  <2>4. ax' \in {z, brakes, b, replanned, [b EXCEPT !.paused = FALSE],
                 [replanned EXCEPT !.paused = FALSE]}
    BY <1>2 DEF SetOverride, override_zero, override_positive
  <2> HIDE DEF z, b
  <2>5. Shape(brakes) /\ Shape(replanned)
    BY <2>1 DEF Shape
  <2>6. MemberTypes(brakes)
    BY <2>0, <2>1, <2>2 DEF MemberTypes, Shape, AxisFields
  <2>7. MemberTypes(replanned)
    BY <2>0, <2>1, <2>3 DEF MemberTypes, Shape, AxisFields
  <2> HIDE DEF replanned, brakes
  <2>8. Shape([b EXCEPT !.paused = FALSE]) /\ Shape([replanned EXCEPT !.paused = FALSE])
    BY <2>1, <2>5 DEF Shape
  <2>9. MemberTypes([b EXCEPT !.paused = FALSE])
    BY <2>1, <2>3 DEF MemberTypes, Shape, AxisFields
  <2>10. MemberTypes([replanned EXCEPT !.paused = FALSE])
    BY <2>5, <2>7 DEF MemberTypes, Shape, AxisFields
  <2> QED
    BY <2>1, <2>2, <2>3, <2>4, <2>5, <2>6, <2>7, <2>8, <2>9, <2>10, Zenon DEF Typed
<1>3. ASSUME NEW inside \in BOOLEAN, NEW n \in Ticks, NEW ok \in Feasible,
             UpdateTarget(inside, n, ok)
      PROVE  Typed(ax')
  <2> DEFINE b == [ax EXCEPT !.left = n, !.holding = FALSE]
  <2>1. ok \in BOOLEAN /\ n \in 0 .. MaxTicks
    BY AxisAssumption, Values
  <2>2. Shape(b)
    BY DEF Typed, Shape
  <2>3. MemberTypes(b)
    BY <2>1 DEF Typed, MemberTypes, Shape, AxisFields
  <2>4. Typed(fail_command(ax, n, ok))
    BY <2>1, FailType
  <2>5. ax' \in {b, fail_command(ax, n, ok)}
    BY <1>3 DEF UpdateTarget, update_active_target
  <2> HIDE DEF b
  <2> QED
    BY <2>2, <2>3, <2>4, <2>5 DEF Typed
<1> QED
  BY <1>1, <1>2, <1>3

\* submit_impl: what is started or queued is a command with the new id.
LEMMA SubmitType ==
  ASSUME Typed(ax), NEW in \in Commands, NEW n \in Ticks, NEW ok \in Feasible, Submit(in, n, ok)
  PROVE  Typed(ax')
<1> DEFINE id == ax.nextId
           c == [kind |-> in.kind, mode |-> in.mode, inside |-> in.inside,
                 lock |-> in.lock, homing |-> in.homing, timed |-> in.timed, id |-> id]
           live == NewId(ax, "live")
           dead == NewId(ax, "rejected")
           from(b) == IF c.mode = "aborting"
                      THEN [abort_motion(b) EXCEPT !.moving = b.moving] ELSE b
           target == IF c.mode = "aborting" THEN normalize(c) ELSE c
           torque == [abort_motion(live) EXCEPT
                         !.active = TRUE, !.cmd = c, !.activeId = id,
                         !.status = "continuous_motion"]
           queued == [live EXCEPT !.queue = Append(@, target)]
<1>0. ok \in BOOLEAN /\ id <= MaxId /\ id \in Id /\ Typed(live) /\ Typed(dead)
  <2>1. id <= MaxId /\ ok \in BOOLEAN
    BY AxisAssumption DEF Submit
  <2>2. Shape(live) /\ Shape(dead)
    BY NewIdShape DEF Typed
  <2>3. MemberTypes(live) /\ MemberTypes(dead) /\ id \in Id
    BY <2>1, NewIdType DEF Typed, Results
  <2> QED
    BY <2>1, <2>2, <2>3 DEF Typed
<1>1. c \in Command /\ id \in 0 .. MaxId
  <2>1. in \in CommandInput
    BY AxisAssumption
  <2>2. id \in 0 .. MaxId
    BY <1>0, AxisAssumption DEF Id
  <2> QED
    BY <2>1, <2>2 DEF Command, CommandInput, CommandKinds
<1>2. target \in Command
  BY <1>1 DEF normalize, Command, CommandKinds
<1>3. ax' = submit_impl(ax, in, n, ok).ax
  BY DEF Submit
<1>4. ax' \in {torque, dead, from(dead), start(from(live), c, n, ok),
               start(from(dead), c, n, ok), queued}
  BY <1>3 DEF submit_impl
<1> HIDE DEF c, target, id, live, dead
<1>5. Typed(torque)
  <2> DEFINE b == abort_motion(live)
  <2>1. Shape(b) /\ MemberTypes(b)
    BY <1>0, AbortShape, AbortType DEF Typed
  <2> HIDE DEF b
  <2> DEFINE d == [b EXCEPT !.active = TRUE, !.cmd = c, !.activeId = id,
                            !.status = "continuous_motion"]
  <2>2. Shape(d)
    BY <2>1 DEF Shape
  <2>3. MemberTypes(d)
    BY <1>1, <2>1 DEF MemberTypes, Shape, AxisFields, AxisStatus
  <2> QED
    BY <2>2, <2>3 DEF Typed, b
<1>6. \A b \in {live, dead} : Typed(from(b))
  <2> TAKE b \in {live, dead}
  <2> DEFINE d == abort_motion(b)
             e == [d EXCEPT !.moving = b.moving]
  <2>1. Shape(b) /\ MemberTypes(b) /\ Shape(d) /\ MemberTypes(d)
    BY <1>0, AbortShape, AbortType DEF Typed
  <2>2. from(b) \in {e, b}
    OBVIOUS
  <2> HIDE DEF d, from
  <2>3. Shape(e)
    BY <2>1 DEF Shape
  <2>4. b.moving \in BOOLEAN
    BY <2>1 DEF MemberTypes
  <2>5. MemberTypes(e)
    BY <2>1, <2>4 DEF MemberTypes, Shape, AxisFields
  <2> HIDE DEF e
  <2> QED
    BY <2>1, <2>2, <2>3, <2>5 DEF Typed
<1>7. Typed(queued)
  <2>1. live.queue \in Seq(Command)
    BY <1>0 DEF Typed, MemberTypes
  <2>2. Append(live.queue, target) \in Seq(Command)
    BY <1>2, <2>1
  <2>3. Shape(queued)
    BY <1>0 DEF Typed, Shape
  <2>4. MemberTypes(queued)
    BY <1>0, <2>2 DEF Typed, MemberTypes, Shape, AxisFields
  <2> QED
    BY <2>3, <2>4 DEF Typed
<1>8. Typed(start(from(live), c, n, ok)) /\ Typed(start(from(dead), c, n, ok))
  <2> HIDE DEF from
  <2> QED
    BY <1>0, <1>1, <1>6, StartShape, StartType DEF Typed
<1> HIDE DEF torque, from, queued
<1> QED
  BY <1>0, <1>4, <1>5, <1>6, <1>7, <1>8

\* submit_acceleration_profile stores well-formed segments.
LEMMA ProfileType ==
  ASSUME Typed(ax), SubmitAccelerationProfile
  PROVE  Typed(ax')
<1> DEFINE live == NewId(ax, "live")
           b == abort_motion(live)
           segment == [NoCommand EXCEPT !.kind = "acceleration_profile"]
           command == [segment EXCEPT !.id = ax.nextId]
           c == [b EXCEPT !.queue = <<segment>>, !.active = TRUE, !.activeId = ax.nextId,
                          !.cmd = command, !.status = "continuous_motion"]
<1>1. Shape(live) /\ MemberTypes(live) /\ ax.nextId \in 0 .. MaxId
  <2>1. ax.nextId <= MaxId
    BY DEF SubmitAccelerationProfile
  <2>2. MemberTypes(live) /\ ax.nextId \in Id
    BY <2>1, NewIdType DEF Typed, Results
  <2>3. Shape(live)
    BY NewIdShape DEF Typed
  <2> QED
    BY <2>2, <2>3, AxisAssumption DEF Id
<1>2. segment \in Command /\ command \in Command
  BY <1>1, Values DEF Command, CommandKinds
<1>3. ax' = c
  BY DEF SubmitAccelerationProfile, submit_acceleration_profile
<1>4. <<segment>> \in Seq(Command)
  BY <1>2
<1>5. Shape(b) /\ MemberTypes(b)
  BY <1>1, AbortShape, AbortType
<1> HIDE DEF b, segment, command
<1>6. Shape(c)
  BY <1>5 DEF Shape
<1>7. MemberTypes(c)
  <2>0. Flags(b) /\ Numbers(b) /\ Data(b)
    BY <1>5, Parts
  <2>1. Flags(c)
    BY <2>0, <1>1, <1>2, <1>4, <1>5 DEF Flags, Shape, AxisFields, AxisStatus
  <2>2. Numbers(c)
    BY <2>0, <1>1, <1>2, <1>4, <1>5 DEF Numbers, Shape, AxisFields, AxisStatus
  <2>3. Data(c)
    BY <2>0, <1>1, <1>2, <1>4, <1>5 DEF Data, Shape, AxisFields, AxisStatus
  <2> QED
    BY <2>1, <2>2, <2>3, Parts
<1> QED
  BY <1>3, <1>6, <1>7 DEF Typed

\* begin_sync, for what gear_in, cam_in and combine_in pass to it.
LEMMA SynchronizeType ==
  ASSUME Typed(ax), NEW kind \in {"gear", "cam", "combine"}, NEW mode,
         NEW entry \in {"waiting_window", "approaching", "engaged"},
         Synchronize(kind, mode, entry)
  PROVE  Typed(ax')
<1> DEFINE b == IF mode = "aborting" THEN abort_motion(ax) ELSE ax
           c == NewId(b, "live")
           result == Ended(c, {ax.supId}, "aborted")
           phase == IF b.active THEN "queued" ELSE entry
           d == [c EXCEPT !.supId = 0, !.supLeft = 0, !.supHalting = FALSE, !.supDone = 0,
                  !.result = result, !.sync = kind, !.syncId = b.nextId, !.entry = entry,
                  !.phase = phase]
<1>1. Shape(b) /\ MemberTypes(b)
  BY AbortShape, AbortType DEF Typed
<1>2. b.nextId <= MaxId
  BY DEF Synchronize, abort_motion, Typed, Shape, AxisFields
<1>3. ax' = d
  BY DEF Synchronize, begin_sync
<1>4. phase \in {"idle", "queued", "waiting_window", "approaching", "engaged"}
  OBVIOUS
<1> HIDE DEF b
<1>5. Shape(c) /\ MemberTypes(c) /\ b.nextId \in 0 .. MaxId
  <2>1. MemberTypes(c) /\ b.nextId \in Id
    BY <1>1, <1>2, NewIdType DEF Results
  <2>2. Shape(c)
    BY <1>1, NewIdShape
  <2> QED
    BY <2>1, <2>2, AxisAssumption DEF Id
<1> HIDE DEF c, phase
<1>6. result \in [Id -> Results]
  BY <1>5, EndedType DEF Results
<1> HIDE DEF result
<1>7. Shape(d)
  BY <1>5 DEF Shape
<1>8. MemberTypes(d)
  BY <1>4, <1>5, <1>6, Values DEF MemberTypes, Shape, AxisFields
<1> QED
  BY <1>3, <1>7, <1>8 DEF Typed

\* sync_out: the velocity command that goes on is well formed.
LEMMA SyncOutType ==
  ASSUME Typed(ax), NEW n \in Ticks, SyncOut(n)
  PROVE  Typed(ax')
<1> DEFINE result == Ended(ax, {ax.syncId}, "aborted")
           b == [ax EXCEPT !.sync = "none", !.phase = "idle", !.entry = "idle",
                       !.syncId = 0, !.activeId = 0, !.result = result]
           hold == [NoCommand EXCEPT !.kind = "move_velocity", !.id = ax.nextId]
           live == NewId(b, "live")
           rest == [b EXCEPT !.status = RestStatus(ax), !.moving = FALSE]
<1>1. result \in [Id -> Results]
  BY EndedType DEF Typed, Results
<1>2. ax' \in {start(live, hold, n, TRUE), rest}
  BY DEF SyncOut, sync_out
<1>3. b.nextId = ax.nextId /\ ax.nextId <= MaxId
  BY DEF SyncOut, Typed, Shape, AxisFields
<1> HIDE DEF result
<1>4. Shape(b)
  BY DEF Typed, Shape
<1>5. MemberTypes(b)
  BY <1>1, Values DEF Typed, MemberTypes, Shape, AxisFields
<1> HIDE DEF b
<1>6. MemberTypes(live) /\ b.nextId \in Id
  BY <1>3, <1>4, <1>5, NewIdType DEF Results
<1>7. Shape(live)
  BY <1>4, NewIdShape
<1>8. hold \in Command
  <2>1. ax.nextId \in 0 .. MaxId
    BY <1>3, <1>6, AxisAssumption DEF Id
  <2> QED
    BY <2>1, Values DEF Command, CommandKinds
<1> HIDE DEF live, hold
<1>9. Typed(start(live, hold, n, TRUE))
  <2>1. \A ok \in BOOLEAN : Typed(start(live, hold, n, ok))
    BY <1>6, <1>7, <1>8, StartShape, StartType DEF Typed
  <2> QED
    BY <2>1, Zenon
<1>10. Shape(rest)
  BY <1>4 DEF Shape
<1>11. MemberTypes(rest)
  BY <1>4, <1>5, RestType DEF MemberTypes, Shape, AxisFields
<1> HIDE DEF rest
<1> QED
  BY <1>2, <1>9, <1>10, <1>11, Zenon DEF Typed

\* Stream sessions.
LEMMA StreamType ==
  ASSUME Typed(ax), (\E ok \in Feasible : StreamEngage(ok)) \/ StreamDisengage
  PROVE  Typed(ax')
<1>1. ASSUME NEW ok \in Feasible, StreamEngage(ok) PROVE Typed(ax')
  <2> DEFINE b == abort_motion(ax)
             c == NewId(b, "live")
             d == [c EXCEPT !.moving = ax.moving, !.streamId = ax.nextId,
                            !.status = "synchronized_motion"]
  <2>1. Shape(b) /\ MemberTypes(b)
    BY AbortShape, AbortType DEF Typed
  <2>2. ax' \in {b, d}
    BY <1>1 DEF StreamEngage, stream_engage
  <2>3. b.nextId = ax.nextId /\ ax.nextId <= MaxId
    BY <1>1 DEF StreamEngage, abort_motion, Typed, Shape, AxisFields
  <2> HIDE DEF b
  <2>4. MemberTypes(c) /\ b.nextId \in Id
    BY <2>1, <2>3, NewIdType DEF Results
  <2>5. Shape(c)
    BY <2>1, NewIdShape
  <2> HIDE DEF c
  <2>6. ax.nextId \in 0 .. MaxId
    BY <2>3, <2>4, AxisAssumption DEF Id
  <2>7. ax.moving \in BOOLEAN
    BY DEF Typed, MemberTypes
  <2>8. Shape(d)
    BY <2>5 DEF Shape
  <2>9. MemberTypes(d)
    BY <2>4, <2>5, <2>6, <2>7 DEF MemberTypes, Shape, AxisFields, AxisStatus
  <2> HIDE DEF d
  <2> QED
    BY <2>1, <2>2, <2>8, <2>9 DEF Typed
<1>2. ASSUME StreamDisengage PROVE Typed(ax')
  <2> DEFINE result == Ended(ax, {ax.streamId}, "done")
             b == [ax EXCEPT !.streamId = 0, !.status = RestStatus(ax), !.result = result]
  <2>1. result \in [Id -> Results]
    BY EndedType DEF Typed, Results
  <2>2. ax' = b
    BY <1>2 DEF StreamDisengage, stream_disengage
  <2> HIDE DEF result
  <2>3. Shape(b)
    BY DEF Typed, Shape
  <2>4. MemberTypes(b)
    BY <2>1, RestType, Values DEF Typed, MemberTypes, Shape, AxisFields
  <2> QED
    BY <2>2, <2>3, <2>4 DEF Typed
<1> QED
  BY <1>1, <1>2

\* Superimposed offsets.
LEMMA SuperimposedType ==
  ASSUME Typed(ax),
         \/ \E n \in Ticks : SubmitSuperimposed(n)
         \/ \E rest \in BOOLEAN, n \in Ticks : HaltSuperimposed(rest, n)
         \/ \E n \in Ticks, ok \in Feasible : UpdateSuperimposed(n, ok)
  PROVE  Typed(ax')
<1> DEFINE ended(r) == [ax EXCEPT !.supId = 0, !.supLeft = 0, !.supHalting = FALSE,
                                  !.supDone = 0, !.result = Ended(ax, {ax.supId}, r)]
<1>0. \A r \in Results : Typed(ended(r))
  <2> TAKE r \in Results
  <2>1. Ended(ax, {ax.supId}, r) \in [Id -> Results]
    BY EndedType DEF Typed
  <2>2. Shape(ended(r))
    BY DEF Typed, Shape
  <2>3. MemberTypes(ended(r))
    BY <2>1, Values DEF Typed, MemberTypes, Shape, AxisFields
  <2> QED
    BY <2>2, <2>3 DEF Typed
<1>1. ASSUME NEW n \in Ticks, SubmitSuperimposed(n) PROVE Typed(ax')
  <2> DEFINE b == NewId(ax, "live")
             result == Ended(b, {ax.supId}, "aborted")
             c == [b EXCEPT !.supId = ax.nextId, !.supLeft = n, !.supHalting = FALSE,
                            !.supDone = 0, !.result = result]
  <2>0. ax.nextId <= MaxId
    BY <1>1 DEF SubmitSuperimposed
  <2>1. MemberTypes(b) /\ ax.nextId \in Id
    BY <2>0, NewIdType DEF Typed, Results
  <2>2. Shape(b)
    BY NewIdShape DEF Typed
  <2>3. ax' = c
    BY <1>1 DEF SubmitSuperimposed, submit_superimposed
  <2> HIDE DEF b
  <2>4. result \in [Id -> Results]
    BY <2>1, <2>2, EndedType DEF Results
  <2>5. ax.nextId \in 0 .. MaxId
    BY <2>1, AxisAssumption DEF Id
  <2> HIDE DEF result
  <2>6. Shape(c)
    BY <2>2 DEF Shape
  <2>7. MemberTypes(c)
    BY <2>1, <2>2, <2>4, <2>5, Values DEF MemberTypes, Shape, AxisFields
  <2> QED
    BY <2>3, <2>6, <2>7 DEF Typed
<1>2. ASSUME NEW rest \in BOOLEAN, NEW n \in Ticks, HaltSuperimposed(rest, n) PROVE Typed(ax')
  <2> DEFINE b == [ax EXCEPT !.supLeft = n, !.supHalting = TRUE, !.supDone = 0]
  <2>1. ax' \in {ended("aborted"), b}
    BY <1>2 DEF HaltSuperimposed, halt_superimposed
  <2>2. Shape(b)
    BY DEF Typed, Shape
  <2>3. MemberTypes(b)
    BY Values DEF Typed, MemberTypes, Shape, AxisFields
  <2> HIDE DEF b, ended
  <2> QED
    BY <1>0, <2>1, <2>2, <2>3 DEF Typed, Results
<1>3. ASSUME NEW n \in Ticks, NEW ok \in Feasible, UpdateSuperimposed(n, ok) PROVE Typed(ax')
  <2> DEFINE b == [ax EXCEPT !.supLeft = n]
  <2>1. ax' \in {ended("error"), b}
    BY <1>3 DEF UpdateSuperimposed, abort_superimposed
  <2>2. Shape(b)
    BY DEF Typed, Shape
  <2>3. MemberTypes(b)
    BY Values DEF Typed, MemberTypes, Shape, AxisFields
  <2> HIDE DEF b, ended
  <2> QED
    BY <1>0, <2>1, <2>2, <2>3 DEF Typed, Results
<1> QED
  BY <1>1, <1>2, <1>3

-----------------------------------------------------------------------------

\* TypeOK is an invariant: through every call and every cycle, with any commands
\* and any outcome of planning, ids, queue entries, profile counters and the
\* phases of synchronization stay well formed.
THEOREM AxisTypeCorrect == Spec => []TypeOK
<1>1. Init => TypeOK
  <2> SUFFICES ASSUME Init PROVE TypeOK
    OBVIOUS
  <2>1. Shape(ax)
    BY DEF Init, AxisInit, Shape, AxisFields
  <2>2. [i \in Id |-> "unused"] \in [Id -> Results] /\ 1 \in 1 .. MaxId + 1
    BY AxisAssumption DEF Results
  <2>3. MemberTypes(ax)
    BY <2>2, Values DEF Init, AxisInit, MemberTypes, AxisStatus
  <2> QED
    BY <2>1, <2>3 DEF TypeOK
<1>2. ASSUME TypeOK, [Next]_ax PROVE TypeOK'
  <2>0. Typed(ax)
    BY <1>2 DEF TypeOK, Typed
  <2>1. ASSUME NEW mode \in Modes, GearIn(mode) \/ CamIn(mode) \/ CombineIn(mode)
        PROVE  Typed(ax')
    BY <2>0, <2>1, SynchronizeType DEF GearIn, CamIn, CombineIn
  <2>2. ASSUME Cycle PROVE Typed(ax')
    BY <2>0, <2>2, CycleType DEF Cycle
  <2>3. ASSUME UNCHANGED ax PROVE Typed(ax')
    BY <2>0, <2>3
  <2>4. Typed(ax')
    BY <1>2, <2>0, <2>1, <2>2, <2>3, PowerCallsType, ActiveCallsType, SubmitType, ProfileType,
       SyncOutType, StreamType, SuperimposedType
    DEF Next
  <2> QED
    BY <2>4 DEF Typed, TypeOK
<1> QED
  BY <1>1, <1>2, PTL DEF Spec

-----------------------------------------------------------------------------
(* What the environment has to keep to.  Each restriction is needed: the    *)
(* code loses, overtakes or ends commands without it.                       *)

\* Every profile can be planned: no infeasible limits, no target outside the
\* software limits, and no override of zero (which makes plans infeasible).
PlansSucceed ==
    /\ Feasible \subseteq {TRUE}
    /\ "set_override" \notin Calls
    /\ \A c \in Commands : c.inside

\* Nobody calls sync_out, which drops a command that the synchronization waits
\* behind.
NoSyncOut == "sync_out" \notin Calls

\* Stop commands are not buffered.
StopsTakeOver == \A c \in Commands : c.kind = "stop" => c.mode = "aborting"

\* Stop commands are not steps of a homing sequence: such a step is in Homing.
StopsDoNotHome == \A c \in Commands : c.kind = "stop" => ~c.homing

\* Nobody synchronizes the axis or superimposes an offset: these calls do not
\* look at the lock of MC_Stop.
NoOtherDrivers == Calls \cap {"gear_in", "cam_in", "combine_in", "superimposed"} = {}

-----------------------------------------------------------------------------
(* The books: every id is at work in one place at most, and is live there.  *)

Ids(a) ==
    /\ Shape(a)
    /\ a.queue \in Seq(Command)
    /\ a.result \in [Id -> Results]
    /\ a.nextId \in 1 .. MaxId + 1
    /\ a.activeId \in 0 .. MaxId /\ a.syncId \in 0 .. MaxId
    /\ a.streamId \in 0 .. MaxId /\ a.supId \in 0 .. MaxId

\* i is live, or no id.
Live(a, i) == i # 0 => a.result[i] = "live"

\* Ids that were not given out yet are unused.
Counted(a) == Ids(a) /\ \A i \in Id : i >= a.nextId => a.result[i] = "unused"

\* Everything but the active command.
Waiting(a) ==
    /\ Counted(a)
    /\ Live(a, a.syncId) /\ Live(a, a.streamId) /\ Live(a, a.supId)
    /\ \A k \in DOMAIN a.queue : Live(a, a.queue[k].id)
    /\ a.sync = "none" => a.syncId = 0
    /\ \A j, k \in DOMAIN a.queue : j # k => a.queue[j].id # a.queue[k].id
    /\ \A k \in DOMAIN a.queue :
          a.queue[k].id # 0 => a.queue[k].id \notin {a.syncId, a.streamId, a.supId}

\* i can be the id of the active command.
Fits(a, i) ==
    i # 0 => /\ a.result[i] = "live"
             /\ \A k \in DOMAIN a.queue : a.queue[k].id # i
             /\ i \notin {a.syncId, a.streamId, a.supId}

Book(a) == Waiting(a) /\ (a.active => Fits(a, a.activeId))

\* i waits in the queue, or belongs to another driver than the active command.
Waits(a, i) ==
    \/ \E k \in DOMAIN a.queue : a.queue[k].id = i
    \/ i \in {a.syncId, a.streamId, a.supId}

\* No live id was forgotten.
Kept(a) == \A i \in Id : a.result[i] = "live" => Waits(a, i) \/ (a.active /\ a.activeId = i)

\* What start needs, for every command that may come out of the queue.
Plannable(a) == a.override /\ \A k \in DOMAIN a.queue : a.queue[k].inside

\* Owned ids are the places of the books.
LEMMA OwnedPlaces ==
  ASSUME NEW a, NEW i \in Id
  PROVE  i \in OwnedIds(a) <=> Waits(a, i) \/ (a.active /\ a.activeId = i)
<1>1. i # 0
  BY DEF Id
<1> QED
  BY <1>1 DEF OwnedIds, QueueIds, Waits

\* An id that ends is no longer live; all others keep what they have.
LEMMA EndedFacts ==
  ASSUME NEW a, NEW S, NEW r \in Results \ {"unused", "live"}, a.result \in [Id -> Results]
  PROVE  LET e == Ended(a, S, r) IN
         /\ e \in [Id -> Results]
         /\ \A i \in Id : e[i] = "live" <=> a.result[i] = "live" /\ i \notin S
         /\ \A i \in Id : e[i] = "unused" <=> a.result[i] = "unused"
  BY DEF Ended, Results

\* What the books depend on.
BookFields == {"active", "activeId", "queue", "sync", "syncId", "streamId", "supId",
               "result", "nextId", "override"}

SameBooks(a, b) == Shape(b) /\ \A f \in BookFields : b[f] = a[f]

\* The books speak of these fields only.
LEMMA BooksKept ==
  ASSUME NEW a, NEW b, SameBooks(a, b)
  PROVE  /\ Book(a) => Book(b)
         /\ Waiting(a) => Waiting(b)
         /\ Kept(a) => Kept(b)
         /\ Plannable(a) => Plannable(b)
<1>1. /\ Shape(b) /\ b.override = a.override
      /\ b.active = a.active /\ b.activeId = a.activeId /\ b.queue = a.queue
      /\ b.sync = a.sync /\ b.syncId = a.syncId /\ b.streamId = a.streamId
      /\ b.supId = a.supId /\ b.result = a.result /\ b.nextId = a.nextId
  BY DEF SameBooks, BookFields
<1> QED
  BY <1>1 DEF Book, Waiting, Counted, Ids, Live, Fits, Kept, Waits, Plannable

-----------------------------------------------------------------------------
(* What the private member functions do to commands.                        *)

\* abort_motion leaves no command and no other driver.
LEMMA AbortEffect ==
  ASSUME NEW a, Shape(a)
  PROVE  LET b == abort_motion(a) IN
         /\ Shape(b)
         /\ ~b.active /\ b.activeId = 0 /\ b.queue = <<>> /\ b.stopLock = 0
         /\ b.sync = "none" /\ b.syncId = 0 /\ b.streamId = 0 /\ b.supId = 0
         /\ ~b.moving
         /\ b.nextId = a.nextId /\ b.override = a.override /\ b.powered = a.powered
         /\ b.status = IF a.status = "synchronized_motion" THEN RestStatus(a) ELSE a.status
         /\ b.result = Ended(a, OwnedIds(a), "aborted")
  BY DEF Shape, abort_motion, AxisFields

\* start: the command becomes the active one if it can be started.
LEMMA StartEffect ==
  ASSUME NEW a, Shape(a), NEW c \in Command, NEW n, NEW ok
  PROVE  LET b == start(a, c, n, ok) IN
         /\ Shape(b)
         /\ b.activeId = c.id
         /\ b.queue = a.queue /\ b.sync = a.sync /\ b.phase = a.phase /\ b.syncId = a.syncId
         /\ b.streamId = a.streamId /\ b.supId = a.supId
         /\ b.result = a.result /\ b.nextId = a.nextId
         /\ b.override = a.override /\ b.moving = a.moving /\ b.powered = a.powered
         /\ IF Startable(a, normalize(c), ok) THEN b.active /\ b.cmd = normalize(c)
            ELSE b.active = a.active /\ b.status = a.status
         /\ b.stopLock = IF c.kind = "stop" /\ c.lock THEN c.id ELSE a.stopLock
         /\ c.kind = "stop" /\ ~c.homing => b.active /\ b.status = "stopping"
<1> DEFINE d == normalize(c)
<1>1. /\ d.id = c.id /\ d.lock = c.lock /\ d.homing = c.homing
      /\ d.kind = IF c.kind = "move_relative" THEN "move_absolute" ELSE c.kind
  BY DEF normalize, Command
<1> HIDE DEF d
<1> DEFINE e == [a EXCEPT !.cmd = d, !.activeId = d.id, !.holding = FALSE, !.left = n]
<1>2. /\ Shape(e) /\ e.cmd = d /\ e.activeId = d.id /\ e.active = a.active
      /\ \A f \in AxisFields \ {"cmd", "activeId", "holding", "left"} : e[f] = a[f]
  BY DEF Shape, AxisFields
<1> QED
  BY <1>1, <1>2 DEF Shape, start, AxisFields, d, Startable

\* What is behind the head of a queue.
LEMMA TailFacts ==
  ASSUME NEW q \in Seq(Command), q # <<>>
  PROVE  /\ Head(q) \in Command /\ Head(q) = q[1] /\ 1 \in DOMAIN q
         /\ Tail(q) \in Seq(Command)
         /\ \A k \in DOMAIN Tail(q) : k + 1 \in DOMAIN q /\ k + 1 # 1 /\ Tail(q)[k] = q[k + 1]
         /\ \A k \in DOMAIN q : k # 1 => k - 1 \in DOMAIN Tail(q) /\ Tail(q)[k - 1] = q[k]
  OBVIOUS

\* What lies in a queue is a command.
LEMMA QueueElements ==
  ASSUME NEW q \in Seq(Command), NEW k \in DOMAIN q
  PROVE  q[k] \in Command /\ q[k].id \in 0 .. MaxId
<1>1. q[k] \in Command
  OBVIOUS
<1> QED
  BY <1>1 DEF Command

\* start_next_queued: the head of the queue becomes active if it can be started.
LEMMA NextEffect ==
  ASSUME NEW a, Shape(a), a.queue \in Seq(Command), a.queue # <<>>, NEW n, NEW ok
  PROVE  LET b == start_next_queued(a, n, ok)
             c == Head(a.queue) IN
         /\ Shape(b)
         /\ b.activeId = c.id /\ b.queue = Tail(a.queue)
         /\ b.sync = a.sync /\ b.phase = a.phase /\ b.syncId = a.syncId
         /\ b.streamId = a.streamId /\ b.supId = a.supId
         /\ b.result = a.result /\ b.nextId = a.nextId
         /\ b.override = a.override /\ b.moving = a.moving /\ b.powered = a.powered
         /\ \/ b.active /\ b.cmd = normalize(c)
            \/ ~(Plannable(a) /\ ok) /\ b.active = a.active /\ b.status = a.status
         /\ b.stopLock = IF c.kind = "stop" /\ c.lock THEN c.id ELSE a.stopLock
         /\ c.kind = "stop" /\ ~c.homing => b.active /\ b.status = "stopping"
<1> DEFINE c == Head(a.queue)
           d == [a EXCEPT !.queue = Tail(@)]
<1>1. c \in Command /\ c = a.queue[1] /\ 1 \in DOMAIN a.queue
  BY TailFacts
<1>2. /\ Shape(d) /\ d.queue = Tail(a.queue)
      /\ \A f \in AxisFields \ {"queue"} : d[f] = a[f]
  BY DEF Shape, AxisFields
<1>3. start_next_queued(a, n, ok) = start(d, c, n, ok)
  BY DEF start_next_queued
<1>4. Plannable(a) /\ ok => Startable(d, normalize(c), ok)
  BY <1>1, <1>2 DEF Plannable, Startable, normalize, AxisFields, Command
<1> HIDE DEF c, d
<1> QED
  BY <1>1, <1>2, <1>3, <1>4, StartEffect DEF AxisFields, c

\* Books that abort_motion closes: nothing is live any more.
LEMMA AbortBook ==
  ASSUME NEW a, Counted(a)
  PROVE  /\ Book(abort_motion(a))
         /\ Kept(a) => \A i \in Id : abort_motion(a).result[i] # "live"
<1> DEFINE b == abort_motion(a)
<1>0. Shape(a)
  BY DEF Counted, Ids
<1>1. /\ Shape(b) /\ ~b.active /\ b.activeId = 0 /\ b.queue = <<>>
      /\ b.sync = "none" /\ b.syncId = 0 /\ b.streamId = 0 /\ b.supId = 0
      /\ b.nextId = a.nextId /\ b.result = Ended(a, OwnedIds(a), "aborted")
  BY <1>0, AbortEffect
<1> HIDE DEF b
<1>2. /\ b.result \in [Id -> Results]
      /\ \A i \in Id : b.result[i] = "live" <=> a.result[i] = "live" /\ i \notin OwnedIds(a)
      /\ \A i \in Id : b.result[i] = "unused" <=> a.result[i] = "unused"
  BY <1>1, EndedFacts DEF Results, Counted, Ids
<1>3. Book(b)
  BY <1>1, <1>2, Values DEF Book, Waiting, Counted, Ids, Live
<1>4. Kept(a) => \A i \in Id : b.result[i] # "live"
  BY <1>2, OwnedPlaces DEF Kept
<1> QED
  BY <1>3, <1>4 DEF b

\* A new id is at work nowhere yet.
LEMMA NewIdBook ==
  ASSUME NEW a, Waiting(a), a.nextId <= MaxId, NEW r \in {"live", "rejected"}
  PROVE  LET b == NewId(a, r)
             i == a.nextId IN
         /\ Waiting(b)
         /\ i \in Id /\ i # 0 /\ b.result[i] = r /\ ~Waits(b, i)
         /\ \A f \in AxisFields \ {"nextId", "result"} : b[f] = a[f]
         /\ \A j \in Id \ {i} : b.result[j] = a.result[j]
         /\ \A j \in Id : Waits(b, j) <=> Waits(a, j)
         /\ b.nextId = i + 1
         /\ \A j : Fits(a, j) /\ j \in 0 .. MaxId => Fits(b, j) /\ j # i
<1> DEFINE b == NewId(a, r)
           i == a.nextId
<1>0. Shape(a) /\ i \in 1 .. MaxId + 1 /\ a.result \in [Id -> Results] /\ a.queue \in Seq(Command)
  BY DEF Waiting, Counted, Ids
<1>1. i \in Id /\ i # 0 /\ i + 1 \in 1 .. MaxId + 1
  BY <1>0, AxisAssumption DEF Id
<1>2. /\ Shape(b) /\ \A f \in AxisFields \ {"nextId", "result"} : b[f] = a[f]
      /\ b.nextId = i + 1 /\ b.result = [a.result EXCEPT ![i] = r]
  BY <1>0 DEF NewId, Shape, AxisFields
<1> HIDE DEF b
<1>3. /\ b.active = a.active /\ b.activeId = a.activeId /\ b.queue = a.queue
      /\ b.sync = a.sync /\ b.syncId = a.syncId /\ b.streamId = a.streamId /\ b.supId = a.supId
  BY <1>2 DEF AxisFields
<1>4. /\ b.result \in [Id -> Results] /\ b.result[i] = r
      /\ \A j \in Id \ {i} : b.result[j] = a.result[j]
  BY <1>0, <1>1, <1>2 DEF Results
<1>5. a.result[i] = "unused"
  BY <1>0, <1>1 DEF Waiting, Counted, Id
<1>6. \A k \in DOMAIN a.queue : a.queue[k].id \in 0 .. MaxId
  BY <1>0, QueueElements
<1>7. i \notin {a.syncId, a.streamId, a.supId} /\ \A k \in DOMAIN a.queue : a.queue[k].id # i
  BY <1>1, <1>5 DEF Waiting, Live
<1>8. \A j \in 0 .. MaxId : Live(a, j) => Live(b, j)
  BY <1>1, <1>4, <1>5 DEF Live, Id
<1>9. Waiting(b)
  <2>1. Counted(b)
    BY <1>0, <1>1, <1>2, <1>3, <1>4 DEF Waiting, Counted, Ids, Id
  <2>2. Live(b, b.syncId) /\ Live(b, b.streamId) /\ Live(b, b.supId)
    BY <1>3, <1>8 DEF Waiting, Counted, Ids
  <2>3. \A k \in DOMAIN b.queue : Live(b, b.queue[k].id)
    BY <1>3, <1>6, <1>8 DEF Waiting
  <2> QED
    BY <2>1, <2>2, <2>3, <1>3 DEF Waiting
<1>10. \A j \in Id : Waits(b, j) <=> Waits(a, j)
  BY <1>3 DEF Waits
<1>11. ~Waits(b, i)
  BY <1>3, <1>7 DEF Waits
<1>12. ASSUME NEW j \in 0 .. MaxId, Fits(a, j) PROVE Fits(b, j) /\ j # i
  BY <1>12, <1>1, <1>3, <1>4, <1>5 DEF Fits, Id
<1> QED
  BY <1>1, <1>2, <1>4, <1>9, <1>10, <1>11, <1>12 DEF b

\* The books after the next command was taken from the queue: what waited still
\* waits or is active, unless the command could not be started.
LEMMA NextBook ==
  ASSUME NEW a, Waiting(a), a.queue = <<>> /\ a.active => Fits(a, a.activeId), NEW n, NEW ok
  PROVE  LET b == start_next_queued(a, n, ok) IN
         /\ Book(b)
         /\ (\A i \in Id : a.result[i] = "live" => Waits(a, i)) /\ Plannable(a) /\ ok => Kept(b)
<1> DEFINE b == start_next_queued(a, n, ok)
           c == Head(a.queue)
<1>1. CASE a.queue = <<>>
  BY <1>1 DEF start_next_queued, Book, Kept
<1>2. CASE a.queue # <<>>
  <2>0. Shape(a) /\ a.queue \in Seq(Command)
    BY DEF Waiting, Counted, Ids
  <2>1. /\ Shape(b) /\ b.activeId = c.id /\ b.queue = Tail(a.queue)
        /\ b.sync = a.sync /\ b.syncId = a.syncId
        /\ b.streamId = a.streamId /\ b.supId = a.supId
        /\ b.result = a.result /\ b.nextId = a.nextId
        /\ b.active \/ ~(Plannable(a) /\ ok)
    BY <1>2, <2>0, NextEffect
  <2>2. /\ c \in Command /\ c = a.queue[1] /\ 1 \in DOMAIN a.queue
        /\ Tail(a.queue) \in Seq(Command)
        /\ \A k \in DOMAIN Tail(a.queue) :
              k + 1 \in DOMAIN a.queue /\ k + 1 # 1 /\ Tail(a.queue)[k] = a.queue[k + 1]
        /\ \A k \in DOMAIN a.queue :
              k # 1 => k - 1 \in DOMAIN Tail(a.queue) /\ Tail(a.queue)[k - 1] = a.queue[k]
    BY <1>2, <2>0, TailFacts
  <2>3. c.id \in 0 .. MaxId
    BY <2>2 DEF Command
  <2> HIDE DEF b, c
  <2>4. Counted(b)
    BY <2>1, <2>2, <2>3 DEF Waiting, Counted, Ids
  <2>5. /\ Live(b, b.syncId) /\ Live(b, b.streamId) /\ Live(b, b.supId)
        /\ b.sync = "none" => b.syncId = 0
    BY <2>1 DEF Waiting, Live
  <2>6. \A k \in DOMAIN b.queue :
          /\ Live(b, b.queue[k].id)
          /\ b.queue[k].id # 0 => b.queue[k].id \notin {b.syncId, b.streamId, b.supId}
          /\ b.queue[k].id # c.id
    BY <2>1, <2>2 DEF Waiting, Live
  <2>7. ASSUME NEW j \in DOMAIN b.queue, NEW k \in DOMAIN b.queue, j # k
        PROVE  b.queue[j].id # b.queue[k].id
    <3>0. j + 1 # k + 1
      BY <2>0, <2>1, <2>7
    <3> QED
      BY <3>0, <2>1, <2>2 DEF Waiting
  <2>8. Fits(b, c.id)
    BY <2>1, <2>2, <2>6 DEF Waiting, Live, Fits
  <2>9. Book(b)
    BY <2>1, <2>4, <2>5, <2>6, <2>7, <2>8 DEF Book, Waiting
  <2>10. ASSUME \A i \in Id : a.result[i] = "live" => Waits(a, i), Plannable(a), ok
         PROVE  Kept(b)
    <3> SUFFICES ASSUME NEW i \in Id, a.result[i] = "live"
                 PROVE  Waits(b, i) \/ (b.active /\ b.activeId = i)
      BY <2>1 DEF Kept
    <3>1. CASE i \in {a.syncId, a.streamId, a.supId}
      BY <2>1, <3>1 DEF Waits
    <3>2. ASSUME NEW k \in DOMAIN a.queue, a.queue[k].id = i PROVE Waits(b, i) \/ (b.active /\ b.activeId = i)
      <4>1. CASE k = 1
        BY <2>1, <2>2, <2>10, <3>2, <4>1
      <4>2. CASE k # 1
        <5>1. k - 1 \in DOMAIN b.queue /\ b.queue[k - 1].id = i
          BY <2>1, <2>2, <3>2, <4>2
        <5> QED
          BY <5>1 DEF Waits
      <4> QED
        BY <4>1, <4>2
    <3> QED
      BY <2>10, <3>1, <3>2 DEF Waits
  <2> QED
    BY <2>9, <2>10 DEF b
<1> QED
  BY <1>1, <1>2

\* The active command ended with the result r, and nothing is active yet.
Vacated(a, b) ==
    /\ Shape(b)
    /\ ~b.active
    /\ b.activeId = 0
    /\ b.queue = a.queue /\ b.sync = a.sync /\ b.phase = a.phase /\ b.syncId = a.syncId
    /\ b.streamId = a.streamId /\ b.supId = a.supId /\ b.nextId = a.nextId
    /\ b.override = a.override /\ b.powered = a.powered
    /\ \E r \in {"done", "error"} : b.result = Ended(a, {a.activeId}, r)

\* The id of a command that fits is at no other place: it may end.
LEMMA EndedBook ==
  ASSUME NEW a, Waiting(a), Fits(a, a.activeId), NEW b, Shape(b),
         b.activeId \in 0 .. MaxId, b.queue = a.queue, b.sync = a.sync, b.syncId = a.syncId,
         b.streamId = a.streamId, b.supId = a.supId, b.nextId = a.nextId,
         NEW r \in {"done", "error"}, b.result = Ended(a, {a.activeId}, r)
  PROVE  /\ Waiting(b)
         /\ Kept(a) => \A i \in Id : b.result[i] = "live" => Waits(b, i)
<1>1. /\ b.result \in [Id -> Results]
      /\ \A i \in Id : b.result[i] = "live" <=> a.result[i] = "live" /\ i # a.activeId
      /\ \A i \in Id : b.result[i] = "unused" <=> a.result[i] = "unused"
  BY EndedFacts DEF Results, Waiting, Counted, Ids
<1>2. Counted(b)
  BY <1>1 DEF Waiting, Counted, Ids
<1>3. \A k \in DOMAIN a.queue : a.queue[k].id \in 0 .. MaxId
  BY QueueElements DEF Waiting, Counted, Ids
<1>4. \A i \in 0 .. MaxId : Live(a, i) /\ (i # 0 => i # a.activeId) => Live(b, i)
  <2> TAKE i \in 0 .. MaxId
  <2>1. i # 0 => i \in Id
    BY AxisAssumption DEF Id
  <2> QED
    BY <1>1, <2>1 DEF Live
<1>5. Live(b, b.syncId) /\ Live(b, b.streamId) /\ Live(b, b.supId)
  BY <1>4 DEF Waiting, Counted, Ids, Fits
<1>6. \A k \in DOMAIN b.queue : Live(b, b.queue[k].id)
  BY <1>3, <1>4 DEF Waiting, Fits
<1>7. Waiting(b)
  BY <1>2, <1>5, <1>6 DEF Waiting
<1>8. Kept(a) => \A i \in Id : b.result[i] = "live" => Waits(b, i)
  BY <1>1 DEF Kept, Waits
<1> QED
  BY <1>7, <1>8

\* A vacated axis has closed the books of the command that ended.
LEMMA VacatedBook ==
  ASSUME NEW a, Book(a), a.active, NEW b, Vacated(a, b)
  PROVE  /\ Book(b)
         /\ Kept(a) => Kept(b) /\ \A i \in Id : b.result[i] = "live" => Waits(b, i)
         /\ Plannable(a) => Plannable(b)
<1>0. 0 \in 0 .. MaxId
  BY Values
<1>1. PICK r \in {"done", "error"} : b.result = Ended(a, {a.activeId}, r)
  BY DEF Vacated
<1>2. /\ Waiting(b)
      /\ Kept(a) => \A i \in Id : b.result[i] = "live" => Waits(b, i)
  BY <1>0, <1>1, EndedBook DEF Book, Vacated
<1> QED
  BY <1>2 DEF Book, Kept, Vacated, Plannable

\* finish_active vacates the place of the active command; then, unless MC_Stop
\* locks the axis, the queue goes on.
LEMMA FinishEffect ==
  ASSUME NEW a, Shape(a), NEW n, NEW ok
  PROVE  LET locking == a.cmd.kind = "stop" /\ a.cmd.lock
             locked == locking /\ a.stopLock = a.activeId /\ ~a.stopRelease IN
         \E b : /\ Vacated(a, b) /\ ~b.moving
                /\ b.status = IF locked THEN "stopping"
                              ELSE IF a.cmd.homing THEN "homing" ELSE RestStatus(a)
                /\ b.stopLock = IF locking /\ ~locked THEN 0 ELSE a.stopLock
                /\ finish_active(a, n, ok) = IF locked THEN b ELSE start_next_queued(b, n, ok)
<1> DEFINE locking == a.cmd.kind = "stop" /\ a.cmd.lock
           locked == locking /\ a.stopLock = a.activeId /\ ~a.stopRelease
           b == [a EXCEPT !.active = FALSE, !.cmd = NoCommand, !.activeId = 0,
                       !.left = 0, !.holding = FALSE, !.moving = FALSE,
                       !.lastDone = a.activeId,
                       !.result = Ended(a, {a.activeId}, "done"),
                       !.status = IF locked THEN "stopping"
                                  ELSE IF a.cmd.homing THEN "homing" ELSE RestStatus(a),
                       !.stopLock = IF locking /\ ~locked THEN 0 ELSE @,
                       !.stopRelease = IF locking /\ ~locked THEN FALSE ELSE @]
<1>1. /\ Shape(b) /\ ~b.active /\ b.activeId = 0 /\ ~b.moving
      /\ b.queue = a.queue /\ b.sync = a.sync /\ b.phase = a.phase /\ b.syncId = a.syncId
      /\ b.streamId = a.streamId /\ b.supId = a.supId /\ b.nextId = a.nextId
      /\ b.override = a.override /\ b.powered = a.powered
      /\ b.result = Ended(a, {a.activeId}, "done")
      /\ b.status = IF locked THEN "stopping"
                    ELSE IF a.cmd.homing THEN "homing" ELSE RestStatus(a)
      /\ b.stopLock = IF locking /\ ~locked THEN 0 ELSE a.stopLock
  BY DEF Shape, AxisFields
<1>2. finish_active(a, n, ok) = IF locked THEN b ELSE start_next_queued(b, n, ok)
  BY DEF finish_active
<1> HIDE DEF b, locked, locking
<1>3. Vacated(a, b)
  BY <1>1 DEF Vacated
<1> QED
  BY <1>1, <1>2, <1>3 DEF locked, locking

\* fail_command vacates it as well; the set point rests if nothing follows.
LEMMA FailEffect ==
  ASSUME NEW a, Shape(a), NEW n, NEW ok
  PROVE  \E b : /\ Vacated(a, b)
                /\ b.status = (IF a.cmd.homing THEN "homing" ELSE RestStatus(a))
                /\ b.stopLock = a.stopLock
                /\ fail_command(a, n, ok) =
                     [start_next_queued(b, n, ok) EXCEPT
                        !.moving = start_next_queued(b, n, ok).active /\ @]
<1> DEFINE r == record_command_error(a, {a.activeId})
           b == [r EXCEPT !.active = FALSE, !.cmd = NoCommand, !.activeId = 0, !.left = 0,
                          !.holding = FALSE, !.braking = FALSE, !.paused = FALSE,
                          !.status = IF a.cmd.homing THEN "homing" ELSE RestStatus(a)]
<1>1. /\ Shape(r) /\ r.result = Ended(a, {a.activeId}, "error")
      /\ \A f \in AxisFields \ {"errors", "result"} : r[f] = a[f]
  BY DEF record_command_error, Shape, AxisFields
<1>2. fail_command(a, n, ok) = [start_next_queued(b, n, ok) EXCEPT
                                  !.moving = start_next_queued(b, n, ok).active /\ @]
  BY DEF fail_command
<1> HIDE DEF r
<1>3. /\ Shape(b) /\ ~b.active /\ b.activeId = 0
      /\ b.queue = a.queue /\ b.sync = a.sync /\ b.phase = a.phase /\ b.syncId = a.syncId
      /\ b.streamId = a.streamId /\ b.supId = a.supId /\ b.nextId = a.nextId
      /\ b.override = a.override /\ b.powered = a.powered
      /\ b.result = Ended(a, {a.activeId}, "error") /\ b.stopLock = a.stopLock
      /\ b.status = IF a.cmd.homing THEN "homing" ELSE RestStatus(a)
  BY <1>1 DEF Shape, AxisFields
<1> HIDE DEF b
<1>4. Vacated(a, b)
  BY <1>3 DEF Vacated
<1> QED
  BY <1>2, <1>3, <1>4

\* The ends of the active command keep the books.
LEMMA FinishBook ==
  ASSUME NEW a, Book(a), a.active, NEW n, NEW ok
  PROVE  LET b == finish_active(a, n, ok) IN
         Book(b) /\ (Kept(a) /\ Plannable(a) /\ ok => Kept(b))
<1>0. Shape(a)
  BY DEF Book, Waiting, Counted, Ids
<1>1. PICK b : Vacated(a, b) /\ finish_active(a, n, ok) \in {b, start_next_queued(b, n, ok)}
  BY <1>0, FinishEffect
<1>2. /\ Book(b) /\ (Plannable(a) => Plannable(b))
      /\ Kept(a) => Kept(b) /\ \A i \in Id : b.result[i] = "live" => Waits(b, i)
  BY <1>1, VacatedBook
<1>3. LET c == start_next_queued(b, n, ok) IN
      Book(c) /\ (Kept(a) /\ Plannable(a) /\ ok => Kept(c))
  BY <1>2, NextBook DEF Book
<1> QED
  BY <1>1, <1>2, <1>3

\* fail_command keeps the books; what follows in the line is started.
LEMMA FailBook ==
  ASSUME NEW a, Book(a), a.active, NEW n, NEW ok
  PROVE  LET b == fail_command(a, n, ok) IN
         Book(b) /\ (Kept(a) /\ Plannable(a) /\ ok => Kept(b))
<1>0. Shape(a)
  BY DEF Book, Waiting, Counted, Ids
<1>1. PICK b : /\ Vacated(a, b)
               /\ fail_command(a, n, ok) =
                     [start_next_queued(b, n, ok) EXCEPT
                        !.moving = start_next_queued(b, n, ok).active /\ @]
  BY <1>0, FailEffect
<1>2. /\ Book(b) /\ (Plannable(a) => Plannable(b))
      /\ Kept(a) => Kept(b) /\ \A i \in Id : b.result[i] = "live" => Waits(b, i)
  BY <1>1, VacatedBook
<1> DEFINE c == start_next_queued(b, n, ok)
           d == [c EXCEPT !.moving = c.active /\ @]
<1>3. Book(c) /\ (Kept(a) /\ Plannable(a) /\ ok => Kept(c))
  BY <1>2, NextBook DEF Book
<1>4. Shape(c)
  BY <1>3 DEF Book, Waiting, Counted, Ids
<1>5. fail_command(a, n, ok) = d
  BY <1>1
<1> HIDE DEF c
<1>6. SameBooks(c, d)
  BY <1>4 DEF SameBooks, BookFields, Shape, AxisFields
<1> HIDE DEF d
<1> QED
  BY <1>3, <1>5, <1>6, BooksKept

\* A successor that blends takes the place of the command it ends.
LEMMA BlendBook ==
  ASSUME NEW a, Book(a), a.active, a.queue # <<>>, NEW n, NEW ok
  PROVE  LET b == blend_into_next(a, n, ok) IN
         Book(b) /\ (Kept(a) /\ Plannable(a) /\ ok => Kept(b))
<1> DEFINE b == [a EXCEPT !.lastDone = a.activeId, !.result = Ended(a, {a.activeId}, "done")]
<1>0. Shape(a) /\ Waiting(a) /\ Fits(a, a.activeId) /\ a.activeId \in 0 .. MaxId
  BY DEF Book, Waiting, Counted, Ids
<1>1. /\ Shape(b) /\ b.result = Ended(a, {a.activeId}, "done")
      /\ \A f \in AxisFields \ {"lastDone", "result"} : b[f] = a[f]
  BY <1>0 DEF Shape, AxisFields
<1>2. blend_into_next(a, n, ok) = start_next_queued(b, n, ok)
  BY DEF blend_into_next
<1> HIDE DEF b
<1>3. /\ b.activeId = a.activeId /\ b.queue = a.queue /\ b.sync = a.sync /\ b.syncId = a.syncId
      /\ b.streamId = a.streamId /\ b.supId = a.supId /\ b.nextId = a.nextId
      /\ b.override = a.override
  BY <1>1 DEF AxisFields
<1>4. /\ Waiting(b)
      /\ Kept(a) => \A i \in Id : b.result[i] = "live" => Waits(b, i)
  BY <1>0, <1>1, <1>3, EndedBook
<1>5. Plannable(a) => Plannable(b)
  BY <1>3 DEF Plannable
<1> QED
  BY <1>2, <1>3, <1>4, <1>5, NextBook

\* trigger_error ends everything.
LEMMA ErrorBook ==
  ASSUME NEW a, Counted(a)
  PROVE  Book(trigger_error(a)) /\ (Kept(a) => Kept(trigger_error(a)))
<1> DEFINE S == OwnedIds(a) \cup ({a.activeId} \ {0})
           r == record_command_error(a, S)
           b == abort_motion(r)
           c == [b EXCEPT !.error = TRUE, !.status = "errorstop"]
<1>0. Shape(a) /\ a.result \in [Id -> Results]
  BY DEF Counted, Ids
<1>1. /\ Shape(r) /\ r.result = Ended(a, S, "error")
      /\ \A f \in AxisFields \ {"errors", "result"} : r[f] = a[f]
  BY <1>0 DEF record_command_error, Shape, AxisFields
<1>2. trigger_error(a) = c
  BY DEF trigger_error
<1> HIDE DEF r, S
<1>3. /\ r.result \in [Id -> Results]
      /\ \A i \in Id : r.result[i] = "live" => a.result[i] = "live"
      /\ \A i \in Id : r.result[i] = "unused" <=> a.result[i] = "unused"
  BY <1>0, <1>1, EndedFacts DEF Results
<1>4. /\ r.active = a.active /\ r.activeId = a.activeId /\ r.queue = a.queue
      /\ r.syncId = a.syncId /\ r.streamId = a.streamId /\ r.supId = a.supId
      /\ r.nextId = a.nextId
  BY <1>1 DEF AxisFields
<1>5. Counted(r) /\ (Kept(a) => Kept(r))
  BY <1>1, <1>3, <1>4 DEF Counted, Ids, Kept, Waits
<1>6. Book(b) /\ (Kept(a) => Kept(b))
  BY <1>5, AbortBook DEF Kept
<1> HIDE DEF b
<1>7. SameBooks(b, c)
  BY <1>6 DEF Book, Waiting, Counted, Ids, SameBooks, BookFields, Shape, AxisFields
<1> HIDE DEF c
<1> QED
  BY <1>2, <1>6, <1>7, BooksKept

-----------------------------------------------------------------------------
(* cycle()                                                                  *)

\* t is a after some progress of the active command.
Moved(a, t) ==
    /\ Shape(t)
    /\ \A f \in AxisFields \ {"moving", "left", "holding", "braking", "paused", "status"} :
          t[f] = a[f]
    /\ \/ t.status = a.status
       \/ a.cmd.kind = "move_continuous_absolute" /\ t.status = "continuous_motion"

\* What a cycle of the base motion comes to: progress, the end of the active
\* command, or its takeover by a successor that blends.
LEMMA BaseForms ==
  ASSUME NEW a, Shape(a), NEW m, NEW blend, NEW n, NEW ok
  PROVE  LET B == cycle_base_motion(a, m, blend, n, ok) IN
         \/ B = a
         \/ /\ a.active
            /\ \E t : /\ Moved(a, t)
                      /\ \/ B = t
                         \/ /\ a.cmd.kind # "acceleration_profile"
                            /\ B = finish_active(t, n, ok)
                         \/ /\ a.queue # <<>> /\ a.cmd.kind = "move_absolute"
                            /\ B = blend_into_next(t, n, ok)
<1> DEFINE B == cycle_base_motion(a, m, blend, n, ok)
           T(x) == Tick([a EXCEPT !.moving = x])
<1>1. CASE ~a.active \/ a.paused
  BY <1>1 DEF cycle_base_motion
<1>2. CASE a.active /\ ~a.paused
  <2>0. Moved(a, a)
    BY DEF Moved
  <2>1. \A x : Moved(a, T(x))
    BY DEF Tick, Moved, Shape, AxisFields
  <2>2. \A x : Moved(a, [a EXCEPT !.moving = x])
    BY DEF Moved, Shape, AxisFields
  <2>3. \A x : /\ Moved(a, [T(x) EXCEPT !.braking = FALSE, !.paused = TRUE, !.moving = FALSE])
               /\ a.cmd.kind = "move_continuous_absolute" =>
                    Moved(a, [T(x) EXCEPT !.holding = TRUE, !.status = "continuous_motion"])
    BY DEF Tick, Moved, Shape, AxisFields
  <2> HIDE DEF T
  <2>4. \A x : Tick([a EXCEPT !.moving = x]) = T(x)
    BY DEF T
  <2>5. CASE a.cmd.kind = "acceleration_profile" \/ (a.cmd.kind = "torque" /\ ~a.braking)
    <3>1. B \in {[a EXCEPT !.moving = m], [a EXCEPT !.moving = FALSE]}
      BY <1>2, <2>5 DEF cycle_base_motion
    <3> HIDE DEF B
    <3>2. Moved(a, B)
      BY <2>2, <3>1
    <3> QED
      BY <1>2, <3>2 DEF B
  <2>6. CASE ~a.braking /\ (a.cmd.kind = "move_velocity" \/ a.holding)
    <3>1. CASE a.cmd.kind \in {"acceleration_profile", "torque"}
      BY <2>5, <2>6, <3>1
    <3>2. CASE a.cmd.kind \notin {"acceleration_profile", "torque"}
      <4> DEFINE x == IF a.holding THEN m ELSE a.override
      <4>1. B = IF ~a.holding /\ a.cmd.timed /\ T(x).left = 0
                THEN finish_active(T(x), n, ok) ELSE T(x)
        BY <1>2, <2>4, <2>6, <3>2 DEF cycle_base_motion
      <4>2. Moved(a, T(x))
        BY <2>1
      <4> HIDE DEF x, B
      <4> QED
        BY <1>2, <3>2, <4>1, <4>2 DEF B
    <3> QED
      BY <3>1, <3>2
  <2>7. CASE /\ a.cmd.kind # "acceleration_profile"
             /\ ~(a.cmd.kind = "torque" /\ ~a.braking)
             /\ ~(~a.braking /\ (a.cmd.kind = "move_velocity" \/ a.holding))
    <3> DEFINE paused == [T(m) EXCEPT !.braking = FALSE, !.paused = TRUE, !.moving = FALSE]
               held == [T(m) EXCEPT !.holding = TRUE, !.status = "continuous_motion"]
    <3>1. B = IF a.cmd.kind \in {"halt", "stop"} /\ ~a.profiled
              THEN finish_active(a, n, ok)
              ELSE IF BlendEligible(a) /\ blend THEN blend_into_next(T(m), n, ok)
              ELSE IF T(m).left > 0 THEN T(m)
              ELSE IF a.braking THEN paused
              ELSE IF a.cmd.kind = "move_continuous_absolute" THEN held
              ELSE finish_active(T(m), n, ok)
      BY <1>2, <2>7 DEF cycle_base_motion, T
    <3>2. /\ Moved(a, T(m)) /\ Moved(a, paused)
          /\ a.cmd.kind = "move_continuous_absolute" => Moved(a, held)
      BY <2>1, <2>3
    <3>3. BlendEligible(a) => a.queue # <<>> /\ a.cmd.kind = "move_absolute"
      BY DEF BlendEligible
    <3> HIDE DEF paused, held, B
    <3> QED
      BY <1>2, <2>0, <2>7, <3>1, <3>2, <3>3 DEF B
  <2> QED
    BY <2>5, <2>6, <2>7
<1> QED
  BY <1>1, <1>2

\* b keeps the books that a has; ok: what follows in the queue can be started.
Books(a, b, ok) ==
    /\ Book(b)
    /\ ok /\ Kept(a) => Kept(b)

\* The next command of the queue can be started.
Follows(a, ok) == Plannable(a) /\ ok

\* The base motion keeps the books.
LEMMA BaseBook ==
  ASSUME NEW a, Book(a), NEW m, NEW blend, NEW n, NEW ok
  PROVE  Books(a, cycle_base_motion(a, m, blend, n, ok), Follows(a, ok))
<1> DEFINE B == cycle_base_motion(a, m, blend, n, ok)
<1>0. Shape(a)
  BY DEF Book, Waiting, Counted, Ids
<1>1. CASE B = a
  BY <1>1 DEF Books, Follows, B
<1>2. CASE B # a
  <2> HIDE DEF B
  <2>1. a.active
    BY <1>0, <1>2, BaseForms DEF B
  <2>2. PICK t : /\ Moved(a, t)
                 /\ \/ B = t
                    \/ B = finish_active(t, n, ok)
                    \/ a.queue # <<>> /\ B = blend_into_next(t, n, ok)
    BY <1>0, <1>2, BaseForms DEF B
  <2>3. SameBooks(a, t)
    BY <2>2 DEF Moved, SameBooks, BookFields, AxisFields
  <2>4. /\ Book(t) /\ (Kept(a) => Kept(t)) /\ (Plannable(a) => Plannable(t))
        /\ t.active = a.active /\ t.queue = a.queue
    BY <2>3, BooksKept DEF SameBooks, BookFields
  <2>5. CASE B = t
    BY <2>4, <2>5 DEF Books, Follows, B
  <2>6. CASE B = finish_active(t, n, ok)
    BY <2>1, <2>4, <2>6, FinishBook DEF Books, Follows, B
  <2>7. CASE a.queue # <<>> /\ B = blend_into_next(t, n, ok)
    BY <2>1, <2>4, <2>7, BlendBook DEF Books, Follows, B
  <2> QED
    BY <2>2, <2>5, <2>6, <2>7 DEF B
<1> QED
  BY <1>1, <1>2

\* Another driver than the active command ends with its id i.
LEMMA DriverEnds ==
  ASSUME NEW a, Book(a), NEW b, Shape(b), NEW i \in {a.syncId, a.streamId, a.supId},
         NEW r \in {"done", "aborted", "error"}, b.result = Ended(a, {i}, r),
         b.active = a.active, b.queue = a.queue, b.nextId = a.nextId,
         b.activeId \in 0 .. MaxId, b.active => b.activeId \in {a.activeId, 0},
         b.syncId = IF a.syncId = i THEN 0 ELSE a.syncId,
         b.streamId = IF a.streamId = i THEN 0 ELSE a.streamId,
         b.supId = IF a.supId = i THEN 0 ELSE a.supId,
         b.sync = "none" => b.syncId = 0
  PROVE  Book(b) /\ (Kept(a) /\ (b.active => b.activeId = a.activeId) => Kept(b))
<1>0. /\ Waiting(a) /\ a.result \in [Id -> Results] /\ a.queue \in Seq(Command)
      /\ a.nextId \in 1 .. MaxId + 1 /\ a.activeId \in 0 .. MaxId
      /\ a.syncId \in 0 .. MaxId /\ a.streamId \in 0 .. MaxId /\ a.supId \in 0 .. MaxId
      /\ i \in 0 .. MaxId
  BY DEF Book, Waiting, Counted, Ids
<1>1. /\ b.result \in [Id -> Results]
      /\ \A j \in Id : b.result[j] = "live" <=> a.result[j] = "live" /\ j # i
      /\ \A j \in Id : b.result[j] = "unused" <=> a.result[j] = "unused"
  BY <1>0, EndedFacts DEF Results
<1>2. Counted(b)
  BY <1>0, <1>1, Values DEF Waiting, Counted, Ids
<1>3. ASSUME NEW j \in 0 .. MaxId, Live(a, j), j # i
      PROVE  Live(b, j)
  <2>1. j # 0 => j \in Id
    BY AxisAssumption DEF Id
  <2> QED
    BY <1>1, <1>3, <2>1 DEF Live
<1>4. Live(b, b.syncId) /\ Live(b, b.streamId) /\ Live(b, b.supId)
  <2>1. Live(a, a.syncId) /\ Live(a, a.streamId) /\ Live(a, a.supId)
    BY <1>0 DEF Waiting
  <2>2. a.syncId # i => Live(b, a.syncId)
    BY <1>0, <1>3, <2>1
  <2>3. a.streamId # i => Live(b, a.streamId)
    BY <1>0, <1>3, <2>1
  <2>4. a.supId # i => Live(b, a.supId)
    BY <1>0, <1>3, <2>1
  <2> QED
    BY <2>2, <2>3, <2>4 DEF Live
<1>5. ASSUME NEW k \in DOMAIN a.queue
      PROVE  /\ Live(b, a.queue[k].id)
             /\ a.queue[k].id # 0 => a.queue[k].id \notin {b.syncId, b.streamId, b.supId}
  <2>1. a.queue[k].id \in 0 .. MaxId
    BY <1>0, QueueElements
  <2>2. /\ Live(a, a.queue[k].id)
        /\ a.queue[k].id # 0 => a.queue[k].id \notin {a.syncId, a.streamId, a.supId}
    BY <1>0 DEF Waiting
  <2>3. a.queue[k].id # 0 => Live(b, a.queue[k].id)
    BY <1>3, <2>1, <2>2
  <2> QED
    BY <2>2, <2>3 DEF Live
<1>6. Waiting(b)
  BY <1>0, <1>2, <1>4, <1>5 DEF Waiting
<1>7. ASSUME b.active, b.activeId # 0
      PROVE  Fits(b, b.activeId)
  <2>1. Fits(a, a.activeId) /\ b.activeId = a.activeId
    BY <1>7 DEF Book
  <2>2. b.activeId \in Id
    BY <1>0, <1>7, <2>1, AxisAssumption DEF Id
  <2> QED
    BY <1>1, <1>7, <2>1, <2>2 DEF Fits
<1>8. b.active => Fits(b, b.activeId)
  BY <1>7 DEF Fits
<1>9. Kept(a) /\ (b.active => b.activeId = a.activeId) => Kept(b)
  BY <1>1 DEF Kept, Waits
<1> QED
  BY <1>6, <1>8, <1>9 DEF Book

\* A superimposed offset that ends is at no other place.
LEMMA OffsetBook ==
  ASSUME NEW a, Book(a), OneWriter(a), NEW m
  PROVE  Books(a, cycle_superimposed(a, m), TRUE)
<1> DEFINE b == cycle_superimposed(a, m)
<1>0. Shape(a) /\ a.activeId \in 0 .. MaxId /\ (a.sync = "none" => a.syncId = 0)
  BY DEF Book, Waiting, Counted, Ids
<1>1. CASE a.supId = 0
  BY <1>1 DEF cycle_superimposed, Books
<1>2. CASE a.supId # 0 /\ a.supLeft > 1
  <2>1. SameBooks(a, b)
    BY <1>0, <1>2 DEF cycle_superimposed, SameBooks, BookFields, Shape, AxisFields
  <2> HIDE DEF b
  <2> QED
    BY <2>1, BooksKept DEF Books, b
<1>3. CASE a.supId # 0 /\ ~(a.supLeft > 1)
  <2>0. a.syncId = 0 /\ a.streamId = 0
    BY <1>0, <1>3 DEF OneWriter
  <2>1. /\ Shape(b) /\ b.result = Ended(a, {a.supId}, IF a.supHalting THEN "aborted" ELSE "done")
        /\ b.active = a.active /\ b.queue = a.queue /\ b.nextId = a.nextId
        /\ b.activeId = a.activeId /\ b.sync = a.sync /\ b.syncId = a.syncId
        /\ b.streamId = a.streamId /\ b.supId = 0
    BY <1>0, <1>3 DEF cycle_superimposed, Shape, AxisFields
  <2> HIDE DEF b
  <2>2. PICK r \in {"done", "aborted", "error"} : b.result = Ended(a, {a.supId}, r)
    BY <2>1
  <2>3. Book(b) /\ (Kept(a) => Kept(b))
    BY <1>0, <1>3, <2>0, <2>1, <2>2, DriverEnds
  <2> QED
    BY <2>3 DEF Books, b
<1> QED
  BY <1>1, <1>2, <1>3

\* While synchronization owns the cycle there is no active command.
LEMMA SyncBook ==
  ASSUME NEW a, Book(a), OneWriter(a), SyncOwnsCycle(a), NEW outcome, NEW m
  PROVE  Books(a, sync_cycle(a, outcome, m), TRUE)
<1> DEFINE b == sync_cycle(a, outcome, m)
<1>0. /\ Shape(a) /\ Counted(a) /\ a.sync # "none" /\ ~a.active
      /\ a.streamId = 0 /\ a.supId = 0 /\ a.syncId \in 0 .. MaxId
  BY DEF Book, Waiting, Counted, Ids, OneWriter, SyncOwnsCycle
<1>1. CASE outcome = "wait"
  <2>1. SameBooks(a, b)
    BY <1>0, <1>1 DEF sync_cycle, SameBooks, BookFields, Shape, AxisFields
  <2> HIDE DEF b
  <2> QED
    BY <2>1, BooksKept DEF Books, b
<1>2. CASE outcome \in {"approach", "engage"}
  <2>1. /\ Shape(b) /\ b.active = a.active /\ b.activeId = a.syncId /\ b.queue = a.queue
        /\ b.sync = a.sync /\ b.syncId = a.syncId /\ b.streamId = a.streamId
        /\ b.supId = a.supId /\ b.result = a.result /\ b.nextId = a.nextId
    BY <1>0, <1>2 DEF sync_cycle, Shape, AxisFields
  <2> HIDE DEF b
  <2>2. Book(b) /\ (Kept(a) => Kept(b))
    BY <1>0, <2>1 DEF Book, Waiting, Counted, Ids, Live, Kept, Waits
  <2> QED
    BY <2>2 DEF Books, b
<1>3. CASE outcome = "fail"
  <2> DEFINE r == record_command_error(a, {a.syncId})
  <2>1. /\ Shape(r) /\ r.result = Ended(a, {a.syncId}, "error")
        /\ \A f \in AxisFields \ {"errors", "result"} : r[f] = a[f]
    BY <1>0 DEF record_command_error, Shape, AxisFields
  <2>2. b = [r EXCEPT !.sync = "none", !.phase = "idle", !.entry = "idle", !.syncId = 0,
                      !.activeId = 0, !.moving = FALSE, !.status = RestStatus(a)]
    BY <1>3 DEF sync_cycle, fail_sync_command
  <2> HIDE DEF r, b
  <2>3. /\ Shape(b) /\ b.result = Ended(a, {a.syncId}, "error") /\ b.active = a.active
        /\ b.queue = a.queue /\ b.nextId = a.nextId /\ b.activeId = 0 /\ b.syncId = 0
        /\ b.streamId = a.streamId /\ b.supId = a.supId
    BY <2>1, <2>2 DEF Shape, AxisFields
  <2>4. Book(b) /\ (Kept(a) => Kept(b))
    BY <1>0, <2>3, DriverEnds, Values
  <2> QED
    BY <2>4 DEF Books, b
<1>4. CASE outcome \notin {"wait", "approach", "engage", "fail"}
  <2>1. b = trigger_error(a)
    BY <1>4 DEF sync_cycle
  <2> QED
    BY <1>0, <2>1, ErrorBook DEF Books
<1> QED
  BY <1>1, <1>2, <1>3, <1>4

\* Whatever the inputs of the period, cycle() keeps the books.
LEMMA CycleBook ==
  ASSUME NEW a, Book(a), Safe(a), NEW in
  PROVE  Books(a, cycle(a, in), Follows(a, in.ok))
<1>0. Shape(a) /\ OneWriter(a)
  BY DEF Safe
<1>1. CASE a.status = "errorstop"
  BY <1>1 DEF cycle, Books
<1>2. CASE a.status # "errorstop" /\ a.streamId # 0
  <2> DEFINE b == [a EXCEPT !.moving = in.m]
  <2>1. SameBooks(a, b)
    BY <1>0 DEF SameBooks, BookFields, Shape, AxisFields
  <2>2. cycle(a, in) = b
    BY <1>2 DEF cycle
  <2> HIDE DEF b
  <2> QED
    BY <2>1, <2>2, BooksKept DEF Books
<1>3. CASE a.status # "errorstop" /\ a.streamId = 0 /\ SyncOwnsCycle(a)
  <2>1. cycle(a, in) = sync_cycle(a, in.outcome, in.m)
    BY <1>3 DEF cycle
  <2> QED
    BY <1>0, <1>3, <2>1, SyncBook DEF Books
<1>4. CASE a.status # "errorstop" /\ a.streamId = 0 /\ ~SyncOwnsCycle(a)
  <2> DEFINE b == cycle_base_motion(a, in.m, in.blend, in.n, in.ok)
  <2>1. Books(a, b, Follows(a, in.ok)) /\ OneWriter(b)
    BY <1>4, BaseBook, BaseSafe DEF Safe
  <2>2. cycle(a, in) = cycle_superimposed(b, in.m2)
    BY <1>4 DEF cycle
  <2> HIDE DEF b
  <2>3. Books(b, cycle_superimposed(b, in.m2), TRUE)
    BY <2>1, OffsetBook DEF Books
  <2> QED
    BY <2>1, <2>2, <2>3 DEF Books
<1> QED
  BY <1>1, <1>2, <1>3, <1>4

-----------------------------------------------------------------------------
(* The calls.                                                               *)

\* What abort_motion has cleared has closed books, whatever its state is called.
LEMMA AbortedBook ==
  ASSUME NEW a, Counted(a), NEW b, SameBooks(abort_motion(a), b)
  PROVE  Books(a, b, TRUE)
<1> DEFINE d == abort_motion(a)
<1>1. Book(d) /\ (Kept(a) => Kept(d))
  BY AbortBook DEF Kept
<1> HIDE DEF d
<1>2. SameBooks(d, b)
  BY DEF d
<1> QED
  BY <1>1, <1>2, BooksKept DEF Books

\* Power, its feedback, errors and the end of homing.
LEMMA PowerCallsBook ==
  ASSUME Book(ax),
         \/ \E enabled \in BOOLEAN : SetPower(enabled) \/ SetPowerFeedback(enabled)
         \/ DisableDirection \/ TriggerError \/ ResetError \/ FinishHoming \/ FinishHomingNow
  PROVE  Books(ax, ax', TRUE)
<1>0. Shape(ax) /\ Counted(ax)
  BY DEF Book, Waiting, Counted, Ids
<1>1. ASSUME NEW d, Shape(d)
      PROVE  /\ \A power, status : SameBooks(d, [d EXCEPT !.powered = power, !.status = status])
             /\ \A status : SameBooks(d, [d EXCEPT !.status = status])
             /\ \A status : SameBooks(d, [d EXCEPT !.error = FALSE, !.status = status])
             /\ \A available : SameBooks(d, [d EXCEPT !.feedback = available])
             /\ \A available : SameBooks(d, [d EXCEPT !.feedback = available, !.powered = FALSE])
  BY <1>1 DEF SameBooks, BookFields, Shape, AxisFields
<1>2. Shape(abort_motion(ax))
  BY <1>0, AbortEffect
<1>3. ASSUME NEW enabled \in BOOLEAN, SetPower(enabled) PROVE Books(ax, ax', TRUE)
  BY <1>0, <1>1, <1>2, <1>3, AbortedBook DEF SetPower, set_power
<1>4. ASSUME NEW available \in BOOLEAN, SetPowerFeedback(available) PROVE Books(ax, ax', TRUE)
  <2> DEFINE b == [ax EXCEPT !.feedback = available]
             c == [ax EXCEPT !.feedback = available, !.powered = FALSE]
  <2>1. SameBooks(ax, b) /\ SameBooks(ax, c)
    BY <1>0, <1>1
  <2>2. ax' \in {b, trigger_error(c)}
    BY <1>4 DEF SetPowerFeedback, set_power_feedback
  <2> HIDE DEF b, c
  <2>3. Book(b) /\ (Kept(ax) => Kept(b)) /\ Book(c) /\ (Kept(ax) => Kept(c))
    BY <2>1, BooksKept
  <2>4. Counted(c)
    BY <2>3 DEF Book, Waiting
  <2> QED
    BY <2>2, <2>3, <2>4, ErrorBook DEF Books
<1>5. CASE DisableDirection
  BY <1>0, <1>1, <1>2, <1>5, AbortedBook DEF DisableDirection, disable_direction
<1>6. CASE TriggerError
  BY <1>0, <1>6, ErrorBook DEF TriggerError, Books
<1>7. CASE ResetError
  <2>1. SameBooks(ax, ax')
    BY <1>0, <1>1, <1>7 DEF ResetError, reset_error
  <2> QED
    BY <2>1, BooksKept DEF Books
<1>8. CASE FinishHoming
  <2>1. SameBooks(ax, ax')
    BY <1>0, <1>1, <1>8 DEF FinishHoming
  <2> QED
    BY <2>1, BooksKept DEF Books
<1>9. CASE FinishHomingNow
  BY <1>0, <1>1, <1>2, <1>9, AbortedBook DEF FinishHomingNow, finish_homing_now
<1> QED
  BY <1>3, <1>4, <1>5, <1>6, <1>7, <1>8, <1>9

\* Calls on the active command: release of MC_Stop, override, ContinuousUpdate.
LEMMA ActiveCallsBook ==
  ASSUME Book(ax), NEW good \in BOOLEAN,
         \/ ReleaseStop
         \/ \E n \in Ticks : SetOverride(n)
         \/ \E inside \in BOOLEAN, n \in Ticks, ok \in Feasible :
              UpdateTarget(inside, n, ok) /\ (good => ok)
  PROVE  Books(ax, ax', good /\ Plannable(ax))
<1>0. Shape(ax)
  BY DEF Book, Waiting, Counted, Ids
<1>1. CASE ReleaseStop
  <2>1. SameBooks(ax, ax')
    BY <1>0, <1>1 DEF ReleaseStop, release_stop, SameBooks, BookFields, Shape, AxisFields
  <2> QED
    BY <2>1, BooksKept DEF Books
<1>2. ASSUME NEW n \in Ticks, SetOverride(n) PROVE Books(ax, ax', TRUE)
  <2>1. Shape(ax') /\ \A f \in BookFields \ {"override"} : ax'[f] = ax[f]
    BY <1>0, <1>2 DEF SetOverride, override_zero, override_positive, BookFields, Shape, AxisFields
  <2>2. /\ ax'.active = ax.active /\ ax'.activeId = ax.activeId /\ ax'.queue = ax.queue
        /\ ax'.sync = ax.sync /\ ax'.syncId = ax.syncId /\ ax'.streamId = ax.streamId
        /\ ax'.supId = ax.supId /\ ax'.result = ax.result /\ ax'.nextId = ax.nextId
    BY <2>1 DEF BookFields
  <2> QED
    BY <2>1, <2>2 DEF Books, Book, Waiting, Counted, Ids, Live, Fits, Kept, Waits
<1>3. ASSUME NEW inside \in BOOLEAN, NEW n \in Ticks, NEW ok \in Feasible,
             UpdateTarget(inside, n, ok), good => ok
      PROVE  Books(ax, ax', good /\ Plannable(ax))
  <2> DEFINE b == [ax EXCEPT !.left = n, !.holding = FALSE]
  <2>1. SameBooks(ax, b)
    BY <1>0 DEF SameBooks, BookFields, Shape, AxisFields
  <2>2. ax.active /\ ax' \in {b, fail_command(ax, n, ok)}
    BY <1>3 DEF UpdateTarget, update_active_target
  <2> HIDE DEF b
  <2> QED
    BY <1>3, <2>1, <2>2, BooksKept, FailBook DEF Books
<1> QED
  BY <1>1, <1>2, <1>3 DEF Books

\* start: c becomes active, or it cannot be started and nothing is active.
LEMMA StartedBook ==
  ASSUME NEW a, Waiting(a), NEW c \in Command, NEW n, NEW ok,
         ~a.active \/ Startable(a, normalize(c), ok),
         Startable(a, normalize(c), ok) => Fits(a, c.id)
  PROVE  LET b == start(a, c, n, ok) IN
         /\ Book(b)
         /\ (\A i \in Id : a.result[i] = "live" =>
               Waits(a, i) \/ (Startable(a, normalize(c), ok) /\ i = c.id)) => Kept(b)
<1> DEFINE b == start(a, c, n, ok)
           can == Startable(a, normalize(c), ok)
<1>0. Shape(a)
  BY DEF Waiting, Counted, Ids
<1>1. /\ Shape(b) /\ b.activeId = c.id /\ b.queue = a.queue /\ b.sync = a.sync
      /\ b.syncId = a.syncId /\ b.streamId = a.streamId /\ b.supId = a.supId
      /\ b.result = a.result /\ b.nextId = a.nextId
      /\ IF can THEN b.active ELSE ~b.active
  BY <1>0, StartEffect
<1>2. c.id \in 0 .. MaxId
  BY DEF Command
<1> HIDE DEF b, can
<1>3. Waiting(b)
  BY <1>1, <1>2 DEF Waiting, Counted, Ids, Live
<1>4. Book(b)
  BY <1>1, <1>3 DEF Book, Fits, can
<1>5. (\A i \in Id : a.result[i] = "live" => Waits(a, i) \/ (can /\ i = c.id)) => Kept(b)
  BY <1>1 DEF Kept, Waits
<1> QED
  BY <1>4, <1>5 DEF b, can

\* An id that is at work nowhere outlives abort_motion, and no other does.
LEMMA AbortSpares ==
  ASSUME NEW a, Counted(a), NEW i \in Id, ~Waits(a, i), a.active => a.activeId # i,
         NEW b, SameBooks(abort_motion(a), b)
  PROVE  /\ Book(b) /\ ~b.active /\ b.queue = <<>> /\ b.override = a.override
         /\ a.result[i] = "live" => Fits(b, i)
         /\ (\A j \in Id \ {i} : a.result[j] = "live" => Waits(a, j) \/ (a.active /\ a.activeId = j))
              => \A j \in Id \ {i} : b.result[j] # "live"
         /\ a.result[i] # "live" => b.result[i] # "live"
<1> DEFINE e == abort_motion(a)
<1>0. Shape(a) /\ a.result \in [Id -> Results] /\ i # 0
  BY DEF Counted, Ids, Id
<1>1. /\ ~e.active /\ e.queue = <<>> /\ e.syncId = 0 /\ e.streamId = 0 /\ e.supId = 0
      /\ e.override = a.override /\ e.result = Ended(a, OwnedIds(a), "aborted")
  BY <1>0, AbortEffect
<1>2. Book(e)
  BY AbortBook
<1> HIDE DEF e
<1>3. \A j \in Id : e.result[j] = "live" <=> a.result[j] = "live" /\ j \notin OwnedIds(a)
  BY <1>0, <1>1, EndedFacts DEF Results
<1>4. i \notin OwnedIds(a)
  BY OwnedPlaces
<1>5. Book(b)
  BY <1>2, BooksKept DEF e
<1>6. /\ b.active = e.active /\ b.queue = e.queue /\ b.syncId = e.syncId /\ b.streamId = e.streamId
      /\ b.supId = e.supId /\ b.override = e.override /\ b.result = e.result
  BY DEF SameBooks, BookFields, e
<1>7. a.result[i] = "live" => Fits(b, i)
  BY <1>0, <1>1, <1>3, <1>4, <1>6 DEF Fits
<1>8. (\A j \in Id \ {i} : a.result[j] = "live" => Waits(a, j) \/ (a.active /\ a.activeId = j))
              => \A j \in Id \ {i} : b.result[j] # "live"
  BY <1>3, <1>6, OwnedPlaces
<1> QED
  BY <1>1, <1>3, <1>5, <1>6, <1>7, <1>8

\* submit_impl: a command that is accepted is at work, one that is not is not.
LEMMA SubmitBook ==
  ASSUME Book(ax), NEW in \in CommandInput, NEW n \in Ticks, NEW ok \in Feasible, Submit(in, n, ok)
  PROVE  Books(ax, ax', TRUE)
<1> DEFINE id == ax.nextId
           c == [kind |-> in.kind, mode |-> in.mode, inside |-> in.inside,
                 lock |-> in.lock, homing |-> in.homing, timed |-> in.timed, id |-> id]
           live == NewId(ax, "live")
           dead == NewId(ax, "rejected")
           from(b) == IF c.mode = "aborting"
                      THEN [abort_motion(b) EXCEPT !.moving = b.moving] ELSE b
           target == IF c.mode = "aborting" THEN normalize(c) ELSE c
           torque == [abort_motion(live) EXCEPT
                         !.active = TRUE, !.cmd = c, !.activeId = id,
                         !.status = "continuous_motion"]
           queued == [live EXCEPT !.queue = Append(@, target)]
<1>0. /\ Waiting(ax) /\ Shape(ax) /\ id <= MaxId /\ id \in Id /\ id # 0
      /\ ax.activeId \in 0 .. MaxId /\ ax.queue \in Seq(Command)
  BY AxisAssumption DEF Book, Waiting, Counted, Ids, Submit, Id
<1>1. c \in Command /\ target \in Command /\ target.id = id /\ c.id = id
  BY <1>0, AxisAssumption DEF Command, CommandInput, CommandKinds, normalize, Id
<1>2. ASSUME NEW r \in {"live", "rejected"}
      PROVE  /\ Waiting(NewId(ax, r)) /\ NewId(ax, r).result[id] = r /\ ~Waits(NewId(ax, r), id)
             /\ \A f \in AxisFields \ {"nextId", "result"} : NewId(ax, r)[f] = ax[f]
             /\ \A j \in Id \ {id} : NewId(ax, r).result[j] = ax.result[j]
             /\ \A j \in Id : Waits(NewId(ax, r), j) <=> Waits(ax, j)
             /\ \A j : Fits(ax, j) /\ j \in 0 .. MaxId => Fits(NewId(ax, r), j) /\ j # id
  BY <1>0, NewIdBook
<1>3. ASSUME NEW r \in {"live", "rejected"}
      PROVE  LET b == NewId(ax, r) IN
             /\ Book(b) /\ Waiting(b) /\ b.result[id] = r /\ ~Waits(b, id) /\ Shape(b)
             /\ b.active = ax.active /\ b.activeId = ax.activeId /\ b.queue = ax.queue
             /\ b.override = ax.override
             /\ b.active => b.activeId # id
             /\ Kept(ax) => \A j \in Id \ {id} : b.result[j] = "live" =>
                              Waits(b, j) \/ (b.active /\ b.activeId = j)
  <2> DEFINE b == NewId(ax, r)
  <2>1. /\ Waiting(b) /\ b.result[id] = r /\ ~Waits(b, id)
        /\ \A f \in AxisFields \ {"nextId", "result"} : b[f] = ax[f]
        /\ \A j \in Id \ {id} : b.result[j] = ax.result[j]
        /\ \A j \in Id : Waits(b, j) <=> Waits(ax, j)
        /\ \A j : Fits(ax, j) /\ j \in 0 .. MaxId => Fits(b, j) /\ j # id
    BY <1>2
  <2> HIDE DEF b
  <2>2. /\ b.active = ax.active /\ b.activeId = ax.activeId /\ b.queue = ax.queue
        /\ b.override = ax.override
    BY <2>1 DEF AxisFields
  <2>3. Book(b) /\ (b.active => b.activeId # id)
    BY <1>0, <2>1, <2>2 DEF Book
  <2>4. Kept(ax) => \A j \in Id \ {id} : b.result[j] = "live" =>
                       Waits(b, j) \/ (b.active /\ b.activeId = j)
    BY <2>1, <2>2 DEF Kept
  <2>5. Shape(b)
    BY <2>1 DEF Waiting, Counted, Ids
  <2> QED
    BY <2>1, <2>2, <2>3, <2>4, <2>5 DEF b
<1>4. ax' = submit_impl(ax, in, n, ok).ax
  BY DEF Submit
<1>5. \/ ax' = torque
      \/ ax' = dead
      \/ ax' = from(dead)
      \/ /\ c.mode = "aborting" \/ ~ax.active
         /\ ax' = IF Startable(ax, c, ok) THEN start(from(live), c, n, ok)
                  ELSE start(from(dead), c, n, ok)
      \/ c.mode # "aborting" /\ ax' = queued
  BY <1>4 DEF submit_impl
<1> HIDE DEF live, dead, c, id, target
<1>6. ASSUME NEW r \in {"live", "rejected"}, c.mode = "aborting" \/ ~ax.active
      PROVE  LET f == from(NewId(ax, r)) IN
             /\ Book(f) /\ ~f.active /\ f.override = ax.override
             /\ r = "live" => Fits(f, id)
             /\ Kept(ax) => \A j \in Id \ {id} : f.result[j] = "live" => Waits(f, j)
             /\ r = "rejected" => f.result[id] # "live"
  <2> DEFINE b == NewId(ax, r)
             e == abort_motion(b)
             f == [e EXCEPT !.moving = b.moving]
  <2>1. /\ Book(b) /\ Waiting(b) /\ b.result[id] = r /\ ~Waits(b, id) /\ Shape(b)
        /\ b.active = ax.active /\ b.override = ax.override /\ (b.active => b.activeId # id)
        /\ Kept(ax) => \A j \in Id \ {id} : b.result[j] = "live" =>
                         Waits(b, j) \/ (b.active /\ b.activeId = j)
    BY <1>3
  <2>2. from(b) = IF c.mode = "aborting" THEN f ELSE b
    OBVIOUS
  <2> HIDE DEF b
  <2>3. Shape(e)
    BY <2>1, AbortEffect
  <2> HIDE DEF e
  <2>4. SameBooks(e, f)
    BY <2>3 DEF SameBooks, BookFields, Shape, AxisFields
  <2> HIDE DEF f, from
  <2>5. CASE c.mode = "aborting"
    <3>1. from(b) = f
      BY <2>2, <2>5
    <3>2. /\ Book(f) /\ ~f.active /\ f.override = b.override
          /\ r = "live" => Fits(f, id)
          /\ Kept(ax) => \A j \in Id \ {id} : f.result[j] # "live"
          /\ r = "rejected" => f.result[id] # "live"
      BY <1>0, <2>1, <2>4, AbortSpares DEF e, Waiting
    <3> QED
      BY <2>1, <3>1, <3>2 DEF b
  <2>6. CASE c.mode # "aborting"
    <3>1. from(b) = b /\ ~ax.active
      BY <1>6, <2>2, <2>6
    <3>2. r = "live" => Fits(b, id)
      BY <2>1 DEF Fits, Waits
    <3> QED
      BY <2>1, <3>1, <3>2 DEF b
  <2> QED
    BY <2>5, <2>6
<1>7. Books(ax, dead, TRUE)
  BY <1>3 DEF Books, Kept, dead
<1>8. ASSUME c.mode = "aborting" \/ ~ax.active
      PROVE  /\ Books(ax, from(dead), TRUE)
             /\ Startable(ax, c, ok) => Books(ax, start(from(live), c, n, ok), TRUE)
             /\ ~Startable(ax, c, ok) => Books(ax, start(from(dead), c, n, ok), TRUE)
  <2> DEFINE f == from(dead)
             g == from(live)
  <2>1. /\ Book(f) /\ ~f.active /\ f.override = ax.override
        /\ Kept(ax) => \A j \in Id \ {id} : f.result[j] = "live" => Waits(f, j)
        /\ f.result[id] # "live"
    BY <1>6, <1>8 DEF dead
  <2>2. /\ Book(g) /\ ~g.active /\ g.override = ax.override /\ Fits(g, id)
        /\ Kept(ax) => \A j \in Id \ {id} : g.result[j] = "live" => Waits(g, j)
    BY <1>6, <1>8 DEF live
  <2> HIDE DEF f, g
  <2>3. \A d : d.override = ax.override =>
          (Startable(d, normalize(c), ok) <=> Startable(ax, c, ok))
    BY <1>1 DEF Startable, normalize, Command
  <2>4. Books(ax, f, TRUE)
    BY <2>1 DEF Books, Kept
  <2>5. ASSUME Startable(ax, c, ok) PROVE Books(ax, start(g, c, n, ok), TRUE)
    BY <1>1, <2>2, <2>3, <2>5, StartedBook DEF Books, Book
  <2>6. ASSUME ~Startable(ax, c, ok) PROVE Books(ax, start(f, c, n, ok), TRUE)
    BY <1>1, <2>1, <2>3, <2>6, StartedBook DEF Books, Book
  <2> QED
    BY <2>4, <2>5, <2>6 DEF f, g
<1>9. Books(ax, torque, TRUE)
  <2> DEFINE e == abort_motion(live)
  <2>1. /\ Waiting(live) /\ ~Waits(live, id) /\ (live.active => live.activeId # id)
        /\ live.result[id] = "live"
        /\ Kept(ax) => \A j \in Id \ {id} : live.result[j] = "live" =>
                         Waits(live, j) \/ (live.active /\ live.activeId = j)
    BY <1>3 DEF live
  <2>2. Shape(e)
    BY <2>1, AbortEffect DEF Waiting, Counted, Ids
  <2>3. SameBooks(e, e)
    BY <2>2 DEF SameBooks
  <2>4. /\ Book(e) /\ Fits(e, id)
        /\ Kept(ax) => \A j \in Id \ {id} : e.result[j] # "live"
    BY <1>0, <2>1, <2>3, AbortSpares DEF Waiting
  <2> HIDE DEF e
  <2>5. /\ Shape(torque) /\ torque.active /\ torque.activeId = id
        /\ \A f \in BookFields \ {"active", "activeId"} : torque[f] = e[f]
    BY <2>2 DEF Shape, AxisFields, BookFields, e
  <2> HIDE DEF torque
  <2>6. /\ torque.queue = e.queue /\ torque.sync = e.sync /\ torque.syncId = e.syncId
        /\ torque.streamId = e.streamId /\ torque.supId = e.supId /\ torque.result = e.result
        /\ torque.nextId = e.nextId
    BY <2>5 DEF BookFields
  <2>7. Book(torque)
    BY <1>0, <2>4, <2>5, <2>6 DEF Book, Waiting, Counted, Ids, Live, Fits, Id
  <2>8. Kept(ax) => Kept(torque)
    BY <2>4, <2>5, <2>6 DEF Kept
  <2> QED
    BY <2>7, <2>8 DEF Books
<1>10. Books(ax, queued, TRUE)
  <2> DEFINE q == Append(live.queue, target)
             m == Len(live.queue) + 1
  <2>1. /\ Book(live) /\ Waiting(live) /\ Shape(live) /\ live.result[id] = "live"
        /\ ~Waits(live, id) /\ (live.active => live.activeId # id)
        /\ live.queue = ax.queue
        /\ Kept(ax) => \A j \in Id \ {id} : live.result[j] = "live" =>
                         Waits(live, j) \/ (live.active /\ live.activeId = j)
    BY <1>3 DEF live
  <2>2. /\ Shape(queued) /\ queued.queue = q
        /\ \A f \in AxisFields \ {"queue"} : queued[f] = live[f]
    BY <2>1 DEF Shape, AxisFields
  <2> HIDE DEF queued
  <2>3. /\ queued.active = live.active /\ queued.activeId = live.activeId
        /\ queued.sync = live.sync /\ queued.syncId = live.syncId
        /\ queued.streamId = live.streamId /\ queued.supId = live.supId
        /\ queued.result = live.result /\ queued.nextId = live.nextId
    BY <2>2 DEF AxisFields
  <2>4. /\ q \in Seq(Command) /\ m \in DOMAIN q /\ q[m] = target
        /\ \A k \in DOMAIN q : k # m => k \in DOMAIN live.queue /\ q[k] = live.queue[k]
        /\ \A k \in DOMAIN live.queue : k \in DOMAIN q /\ q[k] = live.queue[k]
    BY <1>0, <1>1, <2>1
  <2> HIDE DEF q, m
  <2>5. /\ \A k \in DOMAIN live.queue : live.queue[k].id # id
        /\ id \notin {live.syncId, live.streamId, live.supId}
    BY <2>1 DEF Waits
  <2>6. Waiting(queued)
    <3>1. Counted(queued)
      BY <2>1, <2>2, <2>3, <2>4 DEF Waiting, Counted, Ids
    <3>2. /\ Live(queued, queued.syncId) /\ Live(queued, queued.streamId)
          /\ Live(queued, queued.supId) /\ (queued.sync = "none" => queued.syncId = 0)
      BY <2>1, <2>3 DEF Waiting, Live
    <3>3. \A k \in DOMAIN q :
             /\ Live(queued, q[k].id)
             /\ q[k].id # 0 => q[k].id \notin {queued.syncId, queued.streamId, queued.supId}
      BY <1>1, <2>1, <2>3, <2>4, <2>5 DEF Waiting, Live
    <3>4. \A j, k \in DOMAIN q : j # k => q[j].id # q[k].id
      BY <1>1, <2>1, <2>4, <2>5 DEF Waiting
    <3> QED
      BY <2>2, <3>1, <3>2, <3>3, <3>4 DEF Waiting
  <2>7. queued.active => Fits(queued, queued.activeId)
    BY <1>1, <2>1, <2>2, <2>3, <2>4 DEF Book, Fits
  <2>8. Kept(ax) => Kept(queued)
    <3>1. \A j \in Id : Waits(live, j) => Waits(queued, j)
      BY <2>2, <2>3, <2>4 DEF Waits
    <3>2. Waits(queued, id)
      BY <1>1, <2>2, <2>4 DEF Waits
    <3> QED
      BY <2>1, <2>3, <3>1, <3>2 DEF Kept
  <2> QED
    BY <2>6, <2>7, <2>8 DEF Books, Book
<1> HIDE DEF from, torque, queued
<1>11. CASE /\ c.mode = "aborting" \/ ~ax.active
            /\ ax' = IF Startable(ax, c, ok) THEN start(from(live), c, n, ok)
                     ELSE start(from(dead), c, n, ok)
  BY <1>8, <1>11
<1>12. CASE ax' = from(dead)
  <2>1. c.mode # "aborting" => ax' = dead
    BY <1>12 DEF from
  <2> QED
    BY <1>7, <1>8, <1>12, <2>1
<1> QED
  BY <1>5, <1>7, <1>9, <1>10, <1>11, <1>12

\* submit_acceleration_profile: its segments lie in the queue without an id.
LEMMA ProfileBook ==
  ASSUME Book(ax), SubmitAccelerationProfile
  PROVE  Books(ax, ax', TRUE)
<1> DEFINE id == ax.nextId
           live == NewId(ax, "live")
           e == abort_motion(live)
           segment == [NoCommand EXCEPT !.kind = "acceleration_profile"]
<1>0. /\ Waiting(ax) /\ id <= MaxId /\ id \in Id /\ id # 0 /\ ax.activeId \in 0 .. MaxId
  BY AxisAssumption DEF Book, Waiting, Counted, Ids, SubmitAccelerationProfile, Id
<1>1. segment \in Command /\ segment.id = 0
  BY Values DEF NoCommand, Command, CommandKinds
<1>2. /\ Waiting(live) /\ ~Waits(live, id) /\ live.result[id] = "live"
      /\ \A f \in AxisFields \ {"nextId", "result"} : live[f] = ax[f]
      /\ \A j \in Id \ {id} : live.result[j] = ax.result[j]
      /\ \A j \in Id : Waits(live, j) <=> Waits(ax, j)
      /\ \A j : Fits(ax, j) /\ j \in 0 .. MaxId => Fits(live, j) /\ j # id
  BY <1>0, NewIdBook
<1> HIDE DEF live
<1>3. live.active = ax.active /\ live.activeId = ax.activeId
  BY <1>2 DEF AxisFields
<1>4. /\ live.active => live.activeId # id
      /\ Kept(ax) => \A j \in Id \ {id} : live.result[j] = "live" =>
                       Waits(live, j) \/ (live.active /\ live.activeId = j)
  BY <1>0, <1>2, <1>3 DEF Book, Kept
<1>5. Shape(e)
  BY <1>2, AbortEffect DEF Waiting, Counted, Ids
<1>6. SameBooks(e, e)
  BY <1>5 DEF SameBooks
<1>7. /\ Book(e) /\ Fits(e, id) /\ e.queue = <<>>
      /\ Kept(ax) => \A j \in Id \ {id} : e.result[j] # "live"
  BY <1>0, <1>2, <1>4, <1>6, AbortSpares DEF Waiting
<1> HIDE DEF e, segment
<1>8. /\ Shape(ax') /\ ax'.active /\ ax'.activeId = id /\ ax'.queue = <<segment>>
      /\ \A f \in BookFields \ {"active", "activeId", "queue"} : ax'[f] = e[f]
  <2>1. ax' = [e EXCEPT !.queue = <<segment>>, !.active = TRUE, !.activeId = id,
                        !.cmd = [segment EXCEPT !.id = id], !.status = "continuous_motion"]
    BY DEF SubmitAccelerationProfile, submit_acceleration_profile, live, e, segment
  <2> QED
    BY <1>5, <2>1 DEF Shape, AxisFields, BookFields
<1>9. /\ ax'.sync = e.sync /\ ax'.syncId = e.syncId
      /\ ax'.streamId = e.streamId /\ ax'.supId = e.supId /\ ax'.result = e.result
      /\ ax'.nextId = e.nextId
  BY <1>8 DEF BookFields
<1>10. /\ ax'.queue \in Seq(Command) /\ DOMAIN ax'.queue = {1} /\ ax'.queue[1] = segment
  BY <1>1, <1>8
<1>11. Book(ax')
  BY <1>0, <1>1, <1>7, <1>8, <1>9, <1>10 DEF Book, Waiting, Counted, Ids, Live, Fits, Id
<1>12. Kept(ax) => Kept(ax')
  BY <1>7, <1>8, <1>9 DEF Kept
<1> QED
  BY <1>11, <1>12 DEF Books

\* begin_sync ends an offset; a command that runs goes on before it.
LEMMA SynchronizeBook ==
  ASSUME Book(ax), Safe(ax), NEW kind \in {"gear", "cam", "combine"}, NEW mode, NEW entry,
         Synchronize(kind, mode, entry)
  PROVE  Books(ax, ax', TRUE)
<1> DEFINE b == IF mode = "aborting" THEN abort_motion(ax) ELSE ax
           c == NewId(b, "live")
           id == b.nextId
<1>0. /\ Shape(ax) /\ Counted(ax) /\ ax.nextId <= MaxId /\ ax.streamId = 0
      /\ mode # "aborting" => ax.sync = "none"
  BY DEF Book, Waiting, Counted, Ids, Synchronize
<1>1. /\ Book(b) /\ (Kept(ax) => Kept(b)) /\ id = ax.nextId /\ b.sync = "none" /\ b.streamId = 0
      /\ b.supId = ax.supId \/ (b.supId = 0 /\ b.queue = <<>> /\ ~b.active)
  <2>1. /\ abort_motion(ax).nextId = ax.nextId /\ abort_motion(ax).sync = "none"
        /\ abort_motion(ax).streamId = 0 /\ abort_motion(ax).supId = 0
        /\ abort_motion(ax).queue = <<>> /\ ~abort_motion(ax).active
    BY <1>0, AbortEffect
  <2>2. Book(abort_motion(ax)) /\ (Kept(ax) => Kept(abort_motion(ax)))
    BY <1>0, AbortBook DEF Kept
  <2> QED
    BY <1>0, <2>1, <2>2
<1>2. ax' = [c EXCEPT !.supId = 0, !.supLeft = 0, !.supHalting = FALSE, !.supDone = 0,
                  !.result = Ended(c, {ax.supId}, "aborted"),
                  !.sync = kind, !.syncId = id, !.entry = entry,
                  !.phase = IF b.active THEN "queued" ELSE entry]
  BY DEF Synchronize, begin_sync
<1> HIDE DEF b, id
<1>3. /\ Waiting(b) /\ b.nextId <= MaxId /\ b.activeId \in 0 .. MaxId /\ b.syncId = 0
      /\ id = b.nextId
  BY <1>0, <1>1 DEF Book, Waiting, Counted, Ids, id
<1>4. /\ Waiting(c) /\ id \in Id /\ id # 0 /\ c.result[id] = "live" /\ ~Waits(c, id)
      /\ \A f \in AxisFields \ {"nextId", "result"} : c[f] = b[f]
      /\ \A j \in Id \ {id} : c.result[j] = b.result[j]
      /\ \A j \in Id : Waits(c, j) <=> Waits(b, j)
      /\ \A j : Fits(b, j) /\ j \in 0 .. MaxId => Fits(c, j) /\ j # id
  BY <1>3, NewIdBook
<1> HIDE DEF c
<1>5. /\ Shape(c) /\ c.active = b.active /\ c.activeId = b.activeId /\ c.queue = b.queue
      /\ c.sync = "none" /\ c.syncId = 0 /\ c.streamId = 0 /\ c.supId = b.supId
      /\ c.result \in [Id -> Results]
  BY <1>1, <1>3, <1>4 DEF AxisFields, Waiting, Counted, Ids
<1>6. Book(c) /\ (c.active => c.activeId # id)
  BY <1>1, <1>3, <1>4, <1>5 DEF Book
<1>7. /\ Shape(ax') /\ ax'.active = c.active /\ ax'.activeId = c.activeId /\ ax'.queue = c.queue
      /\ ax'.sync = kind /\ ax'.syncId = id /\ ax'.streamId = 0 /\ ax'.supId = 0
      /\ ax'.nextId = c.nextId /\ ax'.result = Ended(c, {ax.supId}, "aborted")
  BY <1>2, <1>5 DEF Shape, AxisFields
<1>8. /\ ax'.result \in [Id -> Results]
      /\ \A j \in Id : ax'.result[j] = "live" <=> c.result[j] = "live" /\ j # ax.supId
      /\ \A j \in Id : ax'.result[j] = "unused" <=> c.result[j] = "unused"
  BY <1>5, <1>7, EndedFacts DEF Results
<1>9. id # ax.supId
  BY <1>0, <1>1, <1>3 DEF Counted, Ids, Id, Book, Waiting, Live
<1>10. /\ \A k \in DOMAIN c.queue :
             /\ c.queue[k].id \in 0 .. MaxId /\ Live(c, c.queue[k].id)
             /\ c.queue[k].id # 0 => c.queue[k].id \notin {id, ax.supId}
       /\ c.active /\ c.activeId # 0 => c.activeId \notin {id, ax.supId}
  <2>1. \A k \in DOMAIN c.queue : c.queue[k].id \in 0 .. MaxId
    BY <1>4, QueueElements DEF Waiting, Counted, Ids
  <2>2. \A k \in DOMAIN c.queue : c.queue[k].id # id
    BY <1>4 DEF Waits
  <2>3. c.supId = ax.supId \/ (c.queue = <<>> /\ ~c.active)
    BY <1>1, <1>5
  <2>4. /\ \A k \in DOMAIN c.queue : /\ Live(c, c.queue[k].id)
                                     /\ c.queue[k].id # 0 => c.queue[k].id # c.supId
        /\ c.active /\ c.activeId # 0 => c.activeId # c.supId
    BY <1>6 DEF Book, Waiting, Fits
  <2> QED
    BY <1>6, <2>1, <2>2, <2>3, <2>4
<1>11. \A j \in 0 .. MaxId : j # 0 => j \in Id
  BY AxisAssumption DEF Id
<1>12. Waiting(ax')
  <2>1. Counted(ax')
    <3>1. id \in 0 .. MaxId /\ 0 \in 0 .. MaxId
      BY <1>4, Values DEF Id
    <3>2. Counted(c)
      BY <1>4 DEF Waiting
    <3> QED
      BY <1>7, <1>8, <3>1, <3>2 DEF Counted, Ids
  <2>2. \A k \in DOMAIN c.queue : Live(ax', c.queue[k].id)
    BY <1>8, <1>10, <1>11 DEF Live
  <2>3. Live(ax', id) /\ Live(ax', 0)
    BY <1>4, <1>8, <1>9 DEF Live
  <2> QED
    BY <1>4, <1>7, <1>10, <2>1, <2>2, <2>3 DEF Waiting
<1>13. ASSUME ax'.active, ax'.activeId # 0
       PROVE  Fits(ax', ax'.activeId)
  <2>1. c.active /\ ax'.activeId = c.activeId /\ c.activeId \in Id
    BY <1>7, <1>11, <1>13, <1>6 DEF Book, Waiting, Counted, Ids
  <2>2. /\ c.result[c.activeId] = "live" /\ \A k \in DOMAIN c.queue : c.queue[k].id # c.activeId
        /\ c.activeId \notin {id, ax.supId, 0}
    BY <1>6, <1>7, <1>10, <1>13, <2>1 DEF Book, Fits
  <2>3. ax'.result[c.activeId] = "live"
    BY <1>8, <2>1, <2>2
  <2> QED
    BY <1>7, <2>1, <2>2, <2>3 DEF Fits
<1>14. Kept(ax) => Kept(ax')
  <2> SUFFICES ASSUME Kept(ax), NEW j \in Id, ax'.result[j] = "live"
               PROVE  Waits(ax', j) \/ (ax'.active /\ ax'.activeId = j)
    BY DEF Kept
  <2>1. c.result[j] = "live" /\ j # ax.supId
    BY <1>8
  <2>2. CASE j = id
    BY <1>7, <2>2 DEF Waits
  <2>3. CASE j # id
    <3>1. Waits(c, j) \/ (c.active /\ c.activeId = j)
      BY <1>1, <1>4, <1>5, <2>1, <2>3 DEF Kept
    <3>2. j \notin {c.syncId, c.streamId, c.supId}
      BY <1>1, <1>5, <2>1 DEF Id
    <3> QED
      BY <1>7, <3>1, <3>2 DEF Waits
  <2> QED
    BY <2>2, <2>3
<1> QED
  BY <1>12, <1>13, <1>14 DEF Book, Books, Fits

\* sync_out gives a moving axis a velocity command of its own.  (A command that
\* the synchronization waited behind is dropped.)
LEMMA SyncOutBook ==
  ASSUME Book(ax), Safe(ax), NEW n \in Ticks, SyncOut(n)
  PROVE  Book(ax')
<1> DEFINE b == [ax EXCEPT !.sync = "none", !.phase = "idle", !.entry = "idle",
                       !.syncId = 0, !.activeId = 0,
                       !.result = Ended(ax, {ax.syncId}, "aborted")]
           hold == [NoCommand EXCEPT !.kind = "move_velocity", !.id = ax.nextId]
           live == NewId(b, "live")
           rest == [b EXCEPT !.status = RestStatus(ax), !.moving = FALSE]
<1>0. /\ Shape(ax) /\ ax.nextId \in Id /\ ax.nextId <= MaxId /\ ax.sync # "none"
      /\ ax.streamId = 0 /\ ax.supId = 0
  BY AxisAssumption DEF SyncOut, Book, Waiting, Counted, Ids, Id, Safe, OneWriter
<1>1. hold \in Command /\ hold.id = ax.nextId /\ hold.kind = "move_velocity"
  <2>1. ax.nextId \in 0 .. MaxId
    BY <1>0 DEF Id
  <2>2. NoCommand \in Command /\ "move_velocity" \in CommandKinds
    BY Values DEF NoCommand, Command, CommandKinds
  <2> QED
    BY <2>1, <2>2 DEF Command
<1>2. /\ Shape(b) /\ b.result = Ended(ax, {ax.syncId}, "aborted")
      /\ b.active = ax.active /\ b.queue = ax.queue /\ b.nextId = ax.nextId
      /\ b.activeId = 0 /\ b.syncId = 0 /\ b.streamId = 0 /\ b.supId = 0
  BY <1>0 DEF Shape, AxisFields
<1>3. ax' \in {start(live, hold, n, TRUE), rest}
  BY DEF SyncOut, sync_out
<1> HIDE DEF b, hold
<1>4. Book(b)
  BY <1>0, <1>2, DriverEnds, Values
<1>5. SameBooks(b, rest)
  BY <1>2 DEF SameBooks, BookFields, Shape, AxisFields
<1>6. /\ Waiting(live) /\ live.result[ax.nextId] = "live" /\ ~Waits(live, ax.nextId)
  BY <1>0, <1>2, <1>4, NewIdBook DEF Book
<1> HIDE DEF live, rest
<1>7. Fits(live, hold.id)
  BY <1>1, <1>6 DEF Fits, Waits
<1>8. \A ok : Startable(live, normalize(hold), ok)
  BY <1>1 DEF Startable, normalize, Command
<1>9. \A ok : Book(start(live, hold, n, ok))
  BY <1>1, <1>6, <1>7, <1>8, StartedBook
<1>10. Book(start(live, hold, n, TRUE))
  BY <1>9, Zenon
<1> QED
  BY <1>3, <1>4, <1>5, <1>10, BooksKept

\* A stream session is at work from stream_engage to stream_disengage.
LEMMA StreamBook ==
  ASSUME Book(ax), Safe(ax), (\E ok \in Feasible : StreamEngage(ok)) \/ StreamDisengage
  PROVE  Books(ax, ax', TRUE)
<1>0. Shape(ax) /\ Counted(ax)
  BY DEF Book, Waiting, Counted, Ids
<1>1. ASSUME NEW ok \in Feasible, StreamEngage(ok) PROVE Books(ax, ax', TRUE)
  <2> DEFINE b == abort_motion(ax)
             c == NewId(b, "live")
             id == ax.nextId
             d == [c EXCEPT !.moving = ax.moving, !.streamId = id,
                            !.status = "synchronized_motion"]
  <2>1. /\ ~b.active /\ b.queue = <<>> /\ b.sync = "none" /\ b.syncId = 0
        /\ b.streamId = 0 /\ b.supId = 0 /\ b.nextId = id /\ id <= MaxId
    BY <1>0, <1>1, AbortEffect DEF StreamEngage
  <2>2. Book(b) /\ (Kept(ax) => \A i \in Id : b.result[i] # "live")
    BY <1>0, AbortBook
  <2>3. ax' \in {b, d}
    BY <1>1 DEF StreamEngage, stream_engage
  <2> HIDE DEF b, id
  <2>4. /\ Waiting(c) /\ id \in Id /\ id # 0 /\ c.result[id] = "live"
        /\ \A f \in AxisFields \ {"nextId", "result"} : c[f] = b[f]
        /\ \A j \in Id \ {id} : c.result[j] = b.result[j]
    BY <2>1, <2>2, NewIdBook DEF Book
  <2> HIDE DEF c
  <2>5. /\ Shape(c) /\ ~c.active /\ c.queue = <<>> /\ c.sync = "none" /\ c.syncId = 0
        /\ c.streamId = 0 /\ c.supId = 0
    BY <2>1, <2>4 DEF AxisFields, Waiting, Counted, Ids
  <2>6. /\ Shape(d) /\ ~d.active /\ d.queue = <<>> /\ d.sync = "none" /\ d.syncId = 0
        /\ d.streamId = id /\ d.supId = 0 /\ d.result = c.result /\ d.nextId = c.nextId
        /\ d.activeId = c.activeId
    BY <2>5 DEF Shape, AxisFields
  <2> HIDE DEF d
  <2>7. Book(d)
    BY <2>4, <2>5, <2>6 DEF Book, Waiting, Counted, Ids, Live, Id
  <2>8. Kept(ax) => Kept(b) /\ Kept(d)
    BY <2>2, <2>4, <2>6 DEF Kept, Waits
  <2> QED
    BY <2>2, <2>3, <2>7, <2>8 DEF Books
<1>2. CASE StreamDisengage
  <2>1. /\ Shape(ax') /\ ax'.result = Ended(ax, {ax.streamId}, "done") /\ ax.streamId # 0
        /\ ax'.active = ax.active /\ ax'.queue = ax.queue /\ ax'.nextId = ax.nextId
        /\ ax'.activeId = ax.activeId /\ ax'.syncId = ax.syncId /\ ax'.streamId = 0
        /\ ax'.supId = ax.supId /\ ax'.sync = ax.sync
    BY <1>0, <1>2 DEF StreamDisengage, stream_disengage, Shape, AxisFields
  <2>2. /\ ax.supId = 0 /\ ax.syncId = 0 /\ ax.activeId \in 0 .. MaxId
    BY <2>1 DEF Safe, OneWriter, Book, Waiting, Counted, Ids
  <2> QED
    BY <2>1, <2>2, DriverEnds DEF Books
<1> QED
  BY <1>1, <1>2

\* An offset ends, and its id with it.
OffsetEnds(a, b, r) ==
    b = [a EXCEPT !.supId = 0, !.supLeft = 0, !.supHalting = FALSE, !.supDone = 0,
                  !.result = Ended(a, {a.supId}, r)]

\* The offset that ends was the only other driver.
LEMMA OffsetEndBook ==
  ASSUME NEW a, Book(a), a.streamId = 0, a.syncId = 0, NEW r \in {"aborted", "error"},
         NEW b, OffsetEnds(a, b, r)
  PROVE  Books(a, b, TRUE)
<1>0. Shape(a) /\ a.activeId \in 0 .. MaxId /\ (a.sync = "none" => a.syncId = 0)
  BY DEF Book, Waiting, Counted, Ids
<1>1. /\ Shape(b) /\ b.result = Ended(a, {a.supId}, r)
      /\ b.active = a.active /\ b.queue = a.queue /\ b.nextId = a.nextId
      /\ b.activeId = a.activeId /\ b.syncId = a.syncId /\ b.streamId = a.streamId
      /\ b.supId = 0 /\ b.sync = a.sync
  BY <1>0 DEF OffsetEnds, Shape, AxisFields
<1>2. r \in {"done", "aborted", "error"}
  OBVIOUS
<1>3. /\ b.syncId = IF a.syncId = a.supId THEN 0 ELSE a.syncId
      /\ b.streamId = IF a.streamId = a.supId THEN 0 ELSE a.streamId
      /\ b.supId = IF a.supId = a.supId THEN 0 ELSE a.supId
      /\ b.sync = "none" => b.syncId = 0
      /\ b.activeId \in 0 .. MaxId /\ b.activeId \in {a.activeId, 0}
  BY <1>0, <1>1
<1>4. Book(b) /\ (Kept(a) /\ (b.active => b.activeId = a.activeId) => Kept(b))
  BY <1>1, <1>2, <1>3, DriverEnds
<1> QED
  BY <1>1, <1>4 DEF Books

\* submit_superimposed: the offset is at work under its new id, and the one it
\* replaces ends.
LEMMA OffsetStartBook ==
  ASSUME NEW a, Book(a), a.nextId <= MaxId, a.streamId = 0, a.sync = "none", NEW n
  PROVE  Books(a, submit_superimposed(a, n), TRUE)
<1> DEFINE z == submit_superimposed(a, n)
<1>0. /\ Shape(a) /\ Counted(a) /\ a.activeId \in 0 .. MaxId
  BY DEF Book, Waiting, Counted, Ids
<1> DEFINE id == a.nextId
           b == NewId(a, "live")
<1>1. Waiting(a) /\ a.nextId <= MaxId /\ a.streamId = 0 /\ a.sync = "none" /\ a.syncId = 0
  BY DEF Book, Waiting
<1>2. z = [b EXCEPT !.supId = id, !.supLeft = n, !.supHalting = FALSE, !.supDone = 0,
                      !.result = Ended(b, {a.supId}, "aborted")]
  BY DEF submit_superimposed
<1> HIDE DEF b, id, z
<1>3. /\ Waiting(b) /\ id \in Id /\ id # 0 /\ b.result[id] = "live" /\ ~Waits(b, id)
      /\ \A f \in AxisFields \ {"nextId", "result"} : b[f] = a[f]
      /\ \A j \in Id \ {id} : b.result[j] = a.result[j]
      /\ \A j \in Id : Waits(b, j) <=> Waits(a, j)
      /\ \A j : Fits(a, j) /\ j \in 0 .. MaxId => Fits(b, j) /\ j # id
  BY <1>1, NewIdBook DEF b, id
<1>4. /\ Shape(b) /\ b.active = a.active /\ b.activeId = a.activeId /\ b.queue = a.queue
      /\ b.sync = "none" /\ b.syncId = 0 /\ b.streamId = 0 /\ b.supId = a.supId
      /\ b.result \in [Id -> Results]
  BY <1>1, <1>3 DEF AxisFields, Waiting, Counted, Ids
<1>5. /\ Shape(z) /\ z.active = b.active /\ z.activeId = b.activeId
      /\ z.queue = b.queue /\ z.sync = "none" /\ z.syncId = 0 /\ z.streamId = 0
      /\ z.supId = id /\ z.nextId = b.nextId /\ z.result = Ended(b, {a.supId}, "aborted")
  BY <1>2, <1>4 DEF Shape, AxisFields
<1>6. /\ z.result \in [Id -> Results]
      /\ \A j \in Id : z.result[j] = "live" <=> b.result[j] = "live" /\ j # a.supId
      /\ \A j \in Id : z.result[j] = "unused" <=> b.result[j] = "unused"
  BY <1>4, <1>5, EndedFacts DEF Results
<1>7. /\ b.active => Fits(b, b.activeId) /\ b.activeId # id
      /\ id # a.supId
      /\ \A k \in DOMAIN b.queue : b.queue[k].id # id
      /\ \A j \in 0 .. MaxId : j # 0 => j \in Id
  BY <1>0, <1>3, <1>4, AxisAssumption DEF Book, Waits, Id
<1>8. \A k \in DOMAIN b.queue :
        /\ b.queue[k].id \in 0 .. MaxId /\ Live(b, b.queue[k].id)
        /\ b.queue[k].id # 0 => b.queue[k].id # a.supId
  BY <1>3, <1>4, QueueElements DEF Waiting, Counted, Ids
<1>9. Waiting(z)
  <2>1. Counted(z)
    <3>1. id \in 0 .. MaxId /\ 0 \in 0 .. MaxId /\ Counted(b)
      BY <1>3, Values DEF Id, Waiting
    <3> QED
      BY <1>5, <1>6, <3>1 DEF Counted, Ids
  <2>2. \A k \in DOMAIN b.queue : Live(z, b.queue[k].id)
    BY <1>6, <1>7, <1>8 DEF Live
  <2>3. Live(z, id) /\ Live(z, 0)
    BY <1>3, <1>6, <1>7 DEF Live
  <2> QED
    BY <1>3, <1>5, <1>7, <1>8, <2>1, <2>2, <2>3 DEF Waiting
<1>10. ASSUME z.active, z.activeId # 0
       PROVE  Fits(z, z.activeId)
  <2>1. b.active /\ z.activeId = b.activeId /\ b.activeId \in Id
    BY <1>0, <1>4, <1>5, <1>7, <1>10
  <2>2. /\ b.result[b.activeId] = "live" /\ \A k \in DOMAIN b.queue : b.queue[k].id # b.activeId
        /\ b.activeId \notin {id, a.supId, 0}
    BY <1>4, <1>5, <1>7, <1>10, <2>1 DEF Fits
  <2>3. z.result[b.activeId] = "live"
    BY <1>6, <2>1, <2>2
  <2> QED
    BY <1>5, <2>1, <2>2, <2>3 DEF Fits
<1>11. Kept(a) => Kept(z)
  <2> SUFFICES ASSUME Kept(a), NEW j \in Id, z.result[j] = "live", j # id
               PROVE  Waits(z, j) \/ (z.active /\ z.activeId = j)
    BY <1>5 DEF Kept, Waits
  <2>1. a.result[j] = "live" /\ j # a.supId
    BY <1>3, <1>6
  <2>2. Waits(a, j) \/ (a.active /\ a.activeId = j)
    BY <2>1 DEF Kept
  <2>3. j # 0
    BY DEF Id
  <2> QED
    BY <1>1, <1>4, <1>5, <2>1, <2>2, <2>3 DEF Waits
<1> QED
  BY <1>9, <1>10, <1>11 DEF Book, Books, Fits, z

\* The offset of a superimposed command has an id of its own.
LEMMA SuperimposedBook ==
  ASSUME Book(ax), Safe(ax),
         \/ \E n \in Ticks : SubmitSuperimposed(n)
         \/ \E rest \in BOOLEAN, n \in Ticks : HaltSuperimposed(rest, n)
         \/ \E n \in Ticks, ok \in Feasible : UpdateSuperimposed(n, ok)
  PROVE  Books(ax, ax', TRUE)
<1>0. /\ Shape(ax) /\ Counted(ax) /\ ax.activeId \in 0 .. MaxId
      /\ ax.supId # 0 => ax.streamId = 0 /\ ax.syncId = 0
  BY DEF Book, Waiting, Counted, Ids, Safe, OneWriter
<1>1. ASSUME NEW b, NEW r \in {"aborted", "error"}, ax.supId # 0, OffsetEnds(ax, b, r)
      PROVE  Books(ax, b, TRUE)
  BY <1>0, <1>1, OffsetEndBook
<1>2. ASSUME NEW b, NEW n, NEW halting, NEW done,
             \/ b = [ax EXCEPT !.supLeft = n, !.supHalting = TRUE, !.supDone = 0]
             \/ b = [ax EXCEPT !.supLeft = n]
      PROVE  Books(ax, b, TRUE)
  <2>1. SameBooks(ax, b)
    BY <1>0, <1>2 DEF SameBooks, BookFields, Shape, AxisFields
  <2> QED
    BY <2>1, BooksKept DEF Books
<1>3. ASSUME NEW rest \in BOOLEAN, NEW n \in Ticks, HaltSuperimposed(rest, n)
      PROVE  Books(ax, ax', TRUE)
  BY <1>1, <1>2, <1>3 DEF HaltSuperimposed, halt_superimposed, OffsetEnds
<1>4. ASSUME NEW n \in Ticks, NEW ok \in Feasible, UpdateSuperimposed(n, ok)
      PROVE  Books(ax, ax', TRUE)
  BY <1>1, <1>2, <1>4 DEF UpdateSuperimposed, abort_superimposed, OffsetEnds
<1>5. ASSUME NEW n \in Ticks, SubmitSuperimposed(n) PROVE Books(ax, ax', TRUE)
  BY <1>5, OffsetStartBook DEF SubmitSuperimposed
<1> QED
  BY <1>3, <1>4, <1>5

-----------------------------------------------------------------------------
(* The line: what waits behind the active command.                          *)

\* The segments of an acceleration profile lie in the queue without an id, while
\* the profile is active; every other command has an id.
Segments(a) ==
    IF a.active /\ a.cmd.kind = "acceleration_profile"
    THEN Len(a.queue) = 1 /\ a.queue[1].id = 0
    ELSE /\ a.active => a.activeId # 0
         /\ \A k \in DOMAIN a.queue :
               a.queue[k].id # 0 /\ a.queue[k].kind # "acceleration_profile"

Line(a) == Shape(a) /\ a.queue \in Seq(Command) /\ Plannable(a) /\ Segments(a)

SameLine(a, b) ==
    /\ Shape(b)
    /\ b.active = a.active /\ b.cmd = a.cmd /\ b.queue = a.queue /\ b.override = a.override
    /\ a.active => b.activeId = a.activeId
    /\ b.stopLock \in {a.stopLock, 0}

Emptied(a, b) == Shape(b) /\ ~b.active /\ b.queue = <<>> /\ b.override = a.override

\* What moves no command leaves the line alone, or clears it.
Quiet(a, b) == SameLine(a, b) \/ Emptied(a, b)

\* What leaves the line alone, and what clears it, keeps it.
LEMMA LineKept ==
  ASSUME NEW a, Line(a), NEW b, Quiet(a, b)
  PROVE  Line(b)
<1>1. CASE Emptied(a, b)
  BY <1>1 DEF Emptied, Line, Plannable, Segments
<1>2. CASE SameLine(a, b)
  <2>1. b.queue \in Seq(Command) /\ Plannable(b) /\ Shape(b)
    BY <1>2 DEF SameLine, Line, Plannable
  <2>2. Segments(b)
    <3>1. /\ b.active = a.active /\ b.cmd = a.cmd /\ b.queue = a.queue
          /\ a.active => b.activeId = a.activeId
      BY <1>2 DEF SameLine
    <3> QED
      BY <3>1 DEF Line, Segments
  <2> QED
    BY <2>1, <2>2 DEF Line
<1> QED
  BY <1>1, <1>2 DEF Quiet

\* The next command of the line has an id, and can be started.
LEMMA NextLine ==
  ASSUME PlansSucceed, NEW a, Line(a), ~(a.active /\ a.cmd.kind = "acceleration_profile"),
         NEW n, NEW ok \in Feasible
  PROVE  Line(start_next_queued(a, n, ok))
<1> DEFINE b == start_next_queued(a, n, ok)
           c == Head(a.queue)
<1>1. CASE a.queue = <<>>
  BY <1>1 DEF start_next_queued
<1>2. CASE a.queue # <<>>
  <2>0. Shape(a) /\ a.queue \in Seq(Command) /\ Plannable(a)
    BY DEF Line
  <2>1. /\ Shape(b) /\ b.activeId = c.id /\ b.queue = Tail(a.queue)
        /\ b.override = a.override /\ b.active /\ b.cmd = normalize(c)
    <3>1. /\ Shape(b) /\ b.activeId = c.id /\ b.queue = Tail(a.queue)
          /\ b.override = a.override
          /\ (b.active /\ b.cmd = normalize(c)) \/ ~(Plannable(a) /\ ok)
      BY <1>2, <2>0, NextEffect
    <3>2. ok
      BY DEF PlansSucceed
    <3> QED
      BY <2>0, <3>1, <3>2
  <2>2. /\ c \in Command /\ c = a.queue[1] /\ 1 \in DOMAIN a.queue
        /\ Tail(a.queue) \in Seq(Command)
        /\ \A k \in DOMAIN Tail(a.queue) :
              k + 1 \in DOMAIN a.queue /\ Tail(a.queue)[k] = a.queue[k + 1]
    BY <1>2, <2>0, TailFacts
  <2>3. \A k \in DOMAIN a.queue :
           a.queue[k].id # 0 /\ a.queue[k].kind # "acceleration_profile"
    BY DEF Line, Segments
  <2>4. normalize(c).kind # "acceleration_profile"
    BY <2>2, <2>3 DEF normalize, Command
  <2> HIDE DEF b, c
  <2> QED
    BY <2>0, <2>1, <2>2, <2>3, <2>4 DEF Line, Plannable, Segments, b
<1> QED
  BY <1>1, <1>2

\* The line behind a place that was vacated.
LEMMA VacatedLine ==
  ASSUME NEW a, Line(a), a.cmd.kind # "acceleration_profile", NEW b, Vacated(a, b)
  PROVE  Line(b)
  BY DEF Line, Vacated, Plannable, Segments

\* However the active command ends, the line goes on.
LEMMA EndsLine ==
  ASSUME PlansSucceed, NEW a, Line(a), a.active, a.cmd.kind # "acceleration_profile",
         NEW n, NEW ok \in Feasible
  PROVE  /\ Line(finish_active(a, n, ok))
         /\ Line(fail_command(a, n, ok))
         /\ Line(blend_into_next(a, n, ok))
<1>0. Shape(a)
  BY DEF Line
<1>1. Line(finish_active(a, n, ok))
  <2>1. PICK b : Vacated(a, b) /\ finish_active(a, n, ok) \in {b, start_next_queued(b, n, ok)}
    BY <1>0, FinishEffect
  <2>2. Line(b) /\ ~b.active
    BY <2>1, VacatedLine DEF Vacated
  <2> QED
    BY <2>1, <2>2, NextLine
<1>2. Line(fail_command(a, n, ok))
  <2>1. PICK b : /\ Vacated(a, b)
                 /\ fail_command(a, n, ok) =
                       [start_next_queued(b, n, ok) EXCEPT
                          !.moving = start_next_queued(b, n, ok).active /\ @]
    BY <1>0, FailEffect
  <2> DEFINE c == start_next_queued(b, n, ok)
             d == [c EXCEPT !.moving = c.active /\ @]
  <2>2. Line(b) /\ ~b.active
    BY <2>1, VacatedLine DEF Vacated
  <2>3. Line(c)
    BY <2>2, NextLine
  <2> HIDE DEF c
  <2>4. SameLine(c, d)
    BY <2>3 DEF Line, SameLine, Shape, AxisFields
  <2> QED
    BY <2>1, <2>3, <2>4, LineKept DEF c, Quiet
<1>3. Line(blend_into_next(a, n, ok))
  <2> DEFINE b == [a EXCEPT !.lastDone = a.activeId, !.result = Ended(a, {a.activeId}, "done")]
  <2>1. SameLine(a, b)
    BY <1>0 DEF SameLine, Shape, AxisFields
  <2>2. blend_into_next(a, n, ok) = start_next_queued(b, n, ok)
    BY DEF blend_into_next
  <2> HIDE DEF b
  <2>3. Line(b) /\ b.cmd = a.cmd
    BY <2>1, LineKept DEF SameLine, Quiet
  <2> QED
    BY <2>2, <2>3, NextLine
<1> QED
  BY <1>1, <1>2, <1>3

\* abort_motion clears the line.
LEMMA AbortClears ==
  ASSUME NEW a, Shape(a)
  PROVE  /\ Emptied(a, abort_motion(a)) /\ Emptied(a, trigger_error(a))
         /\ \A status : Emptied(a, [abort_motion(a) EXCEPT !.status = status])
         /\ \A power, status :
              Emptied(a, [abort_motion(a) EXCEPT !.powered = power, !.status = status])
<1>1. ASSUME NEW d, Shape(d), d.override = a.override
      PROVE  LET b == abort_motion(d) IN
             /\ Emptied(a, b)
             /\ \A status : Emptied(a, [b EXCEPT !.status = status])
             /\ \A status : Emptied(a, [b EXCEPT !.error = TRUE, !.status = status])
             /\ \A power, status : Emptied(a, [b EXCEPT !.powered = power, !.status = status])
  <2> DEFINE b == abort_motion(d)
  <2>1. Emptied(a, b)
    BY <1>1, AbortEffect DEF Emptied
  <2> HIDE DEF b
  <2> QED
    BY <2>1 DEF Emptied, Shape, AxisFields, b
<1> DEFINE r == record_command_error(a, OwnedIds(a) \cup ({a.activeId} \ {0}))
<1>2. Shape(r) /\ r.override = a.override
  BY DEF record_command_error, Shape, AxisFields
<1>3. trigger_error(a) = [abort_motion(r) EXCEPT !.error = TRUE, !.status = "errorstop"]
  BY DEF trigger_error
<1> HIDE DEF r
<1>4. Emptied(a, trigger_error(a))
  <2> DEFINE b == abort_motion(r)
  <2>1. \A status : Emptied(a, [b EXCEPT !.error = TRUE, !.status = status])
    BY <1>1, <1>2
  <2>2. trigger_error(a) = [b EXCEPT !.error = TRUE, !.status = "errorstop"]
    BY <1>3
  <2> HIDE DEF b
  <2> QED
    BY <2>1, <2>2
<1>5. LET b == abort_motion(a) IN
      /\ Emptied(a, b)
      /\ \A status : Emptied(a, [b EXCEPT !.status = status])
      /\ \A power, status : Emptied(a, [b EXCEPT !.powered = power, !.status = status])
  BY <1>1
<1> QED
  BY <1>4, <1>5

\* What a period comes to: nothing happens to the line, or the active command
\* finishes, or a successor that blends takes over.
LEMMA CycleForms ==
  ASSUME NEW a, Safe(a), NEW in
  PROVE  \/ Quiet(a, cycle(a, in))
         \/ /\ a.active
            /\ \E t : \E d :
                 /\ SameLine(a, t) /\ SameLine(d, cycle(a, in))
                 /\ \/ /\ a.cmd.kind # "acceleration_profile"
                       /\ d = finish_active(t, in.n, in.ok)
                    \/ /\ a.queue # <<>> /\ a.cmd.kind = "move_absolute"
                       /\ d = blend_into_next(t, in.n, in.ok)
<1>0. Shape(a)
  BY DEF Safe
<1>1. CASE a.status = "errorstop"
  BY <1>0, <1>1 DEF cycle, Quiet, SameLine
<1>2. CASE a.status # "errorstop" /\ a.streamId # 0
  <2> DEFINE b == [a EXCEPT !.moving = in.m]
  <2>1. SameLine(a, b)
    BY <1>0 DEF SameLine, Shape, AxisFields
  <2>2. cycle(a, in) = b
    BY <1>2 DEF cycle
  <2> QED
    BY <2>1, <2>2 DEF Quiet
<1>3. CASE a.status # "errorstop" /\ a.streamId = 0 /\ SyncOwnsCycle(a)
  <2> DEFINE b == sync_cycle(a, in.outcome, in.m)
  <2>0. ~a.active
    BY <1>3 DEF Safe, OneWriter, SyncOwnsCycle
  <2>1. Quiet(a, b)
    <3>1. CASE in.outcome \notin {"wait", "approach", "engage", "fail"}
      <4>1. b = trigger_error(a)
        BY <3>1 DEF sync_cycle
      <4> QED
        BY <1>0, <4>1, AbortClears DEF Quiet
    <3>2. CASE in.outcome \in {"wait", "approach", "engage", "fail"}
      <4>1. SameLine(a, b)
        BY <1>0, <2>0, <3>2 DEF sync_cycle, fail_sync_command, record_command_error, SameLine,
                                Shape, AxisFields
      <4> QED
        BY <4>1 DEF Quiet
    <3> QED
      BY <3>1, <3>2
  <2>2. cycle(a, in) = b
    BY <1>3 DEF cycle
  <2> QED
    BY <2>1, <2>2
<1>4. CASE a.status # "errorstop" /\ a.streamId = 0 /\ ~SyncOwnsCycle(a)
  <2> DEFINE d == cycle_base_motion(a, in.m, in.blend, in.n, in.ok)
             b == cycle_superimposed(d, in.m2)
  <2>1. cycle(a, in) = b
    BY <1>4 DEF cycle
  <2>2. Shape(d)
    BY <1>4, BaseSafe DEF Safe
  <2> HIDE DEF d
  <2>3. SameLine(d, b)
    BY <2>2 DEF cycle_superimposed, SameLine, Shape, AxisFields
  <2> HIDE DEF b
  <2>4. \A t : Moved(a, t) => SameLine(a, t)
    BY DEF Moved, SameLine, AxisFields
  <2>5. CASE d = a
    BY <2>1, <2>3, <2>5 DEF Quiet
  <2>6. CASE d # a
    <3>1. a.active
      BY <1>0, <2>6, BaseForms DEF d
    <3>2. PICK t : /\ Moved(a, t)
                   /\ \/ d = t
                      \/ /\ a.cmd.kind # "acceleration_profile"
                         /\ d = finish_active(t, in.n, in.ok)
                      \/ /\ a.queue # <<>> /\ a.cmd.kind = "move_absolute"
                         /\ d = blend_into_next(t, in.n, in.ok)
      BY <1>0, <2>6, BaseForms DEF d
    <3>3. CASE d = t
      <4>1. SameLine(a, b)
        BY <2>3, <2>4, <3>1, <3>2, <3>3 DEF SameLine
      <4> QED
        BY <2>1, <4>1 DEF Quiet
    <3>4. CASE d # t
      BY <2>1, <2>3, <2>4, <3>1, <3>2, <3>4
    <3> QED
      BY <3>3, <3>4
  <2> QED
    BY <2>5, <2>6
<1> QED
  BY <1>1, <1>2, <1>3, <1>4

\* A period in which plans succeed keeps the line.
LEMMA CycleLine ==
  ASSUME PlansSucceed, NEW a, Line(a), Safe(a), NEW in, in.ok \in Feasible
  PROVE  Line(cycle(a, in))
<1>1. CASE Quiet(a, cycle(a, in))
  BY <1>1, LineKept
<1>2. CASE ~Quiet(a, cycle(a, in))
  <2>1. a.active
    BY <1>2, CycleForms
  <2>2. PICK t, d : /\ SameLine(a, t) /\ SameLine(d, cycle(a, in))
                    /\ \/ /\ a.cmd.kind # "acceleration_profile"
                          /\ d = finish_active(t, in.n, in.ok)
                       \/ /\ a.queue # <<>> /\ a.cmd.kind = "move_absolute"
                          /\ d = blend_into_next(t, in.n, in.ok)
    BY <1>2, CycleForms
  <2>3. Line(t) /\ t.active /\ t.cmd.kind # "acceleration_profile"
    BY <2>1, <2>2, LineKept DEF Quiet, SameLine
  <2>4. Line(d)
    BY <2>2, <2>3, EndsLine
  <2> QED
    BY <2>2, <2>4, LineKept DEF Quiet
<1> QED
  BY <1>1, <1>2

\* The calls that move no command clear the line or leave it alone.
LEMMA OtherCallsQuiet ==
  ASSUME Shape(ax), PlansSucceed,
         \/ \E enabled \in BOOLEAN : SetPower(enabled) \/ SetPowerFeedback(enabled)
         \/ DisableDirection \/ TriggerError \/ ResetError \/ FinishHoming \/ FinishHomingNow
         \/ ReleaseStop
         \/ \E n \in Ticks : SetOverride(n)
         \/ \E kind, mode, entry : Synchronize(kind, mode, entry)
         \/ (\E ok \in Feasible : StreamEngage(ok)) \/ StreamDisengage
         \/ \E n \in Ticks : SubmitSuperimposed(n)
         \/ \E rest \in BOOLEAN, n \in Ticks : HaltSuperimposed(rest, n)
         \/ \E n \in Ticks, ok \in Feasible : UpdateSuperimposed(n, ok)
  PROVE  Quiet(ax, ax')
<1>1. ASSUME NEW enabled \in BOOLEAN, SetPower(enabled) PROVE Quiet(ax, ax')
  BY <1>1, AbortClears DEF SetPower, set_power, Quiet
<1>2. ASSUME NEW available \in BOOLEAN, SetPowerFeedback(available) PROVE Quiet(ax, ax')
  <2> DEFINE b == [ax EXCEPT !.feedback = available]
             c == [b EXCEPT !.powered = FALSE]
  <2>1. SameLine(ax, b) /\ Shape(c) /\ c.override = ax.override
    BY DEF SameLine, Shape, AxisFields
  <2>2. ax' \in {b, trigger_error(c)}
    BY <1>2 DEF SetPowerFeedback, set_power_feedback
  <2> HIDE DEF b, c
  <2>3. Emptied(ax, trigger_error(c))
    BY <2>1, AbortClears DEF Emptied
  <2> QED
    BY <2>1, <2>2, <2>3 DEF Quiet
<1>3. CASE DisableDirection
  BY <1>3, AbortClears DEF DisableDirection, disable_direction, Quiet
<1>4. CASE TriggerError
  BY <1>4, AbortClears DEF TriggerError, Quiet
<1>5. CASE FinishHomingNow
  BY <1>5, AbortClears DEF FinishHomingNow, finish_homing_now, Quiet
<1>6. CASE ResetError
  BY <1>6 DEF ResetError, reset_error, Quiet, SameLine, Shape, AxisFields
<1>7. CASE FinishHoming
  BY <1>7 DEF FinishHoming, Quiet, SameLine, Shape, AxisFields
<1>8. CASE ReleaseStop
  BY <1>8 DEF ReleaseStop, release_stop, Quiet, SameLine, Shape, AxisFields
<1>9. ASSUME NEW n \in Ticks, SetOverride(n) PROVE Quiet(ax, ax')
  BY <1>9 DEF SetOverride, PlansSucceed
<1>10. ASSUME NEW b, Emptied(ax, b) \/ b = ax, NEW d, SameLine(b, d)
      PROVE  Quiet(ax, d)
  BY <1>10 DEF Emptied, SameLine, Quiet
<1>11. Emptied(ax, abort_motion(ax))
  BY AbortClears
<1>12. ASSUME NEW kind, NEW mode, NEW entry, Synchronize(kind, mode, entry) PROVE Quiet(ax, ax')
  <2> DEFINE b == IF mode = "aborting" THEN abort_motion(ax) ELSE ax
  <2>1. Emptied(ax, b) \/ b = ax
    BY <1>11
  <2>2. SameLine(b, ax')
    <3>1. ax' = [NewId(b, "live") EXCEPT
                   !.supId = 0, !.supLeft = 0, !.supHalting = FALSE, !.supDone = 0,
                   !.result = Ended(NewId(b, "live"), {ax.supId}, "aborted"),
                   !.sync = kind, !.syncId = b.nextId, !.entry = entry,
                   !.phase = IF b.active THEN "queued" ELSE entry]
      BY <1>12 DEF Synchronize, begin_sync
    <3>2. Shape(b)
      BY <2>1 DEF Emptied
    <3> HIDE DEF b
    <3> QED
      BY <3>1, <3>2 DEF NewId, SameLine, Shape, AxisFields
  <2> HIDE DEF b
  <2> QED
    BY <1>10, <2>1, <2>2
<1>13. ASSUME NEW ok \in Feasible, StreamEngage(ok) PROVE Quiet(ax, ax')
  <2> DEFINE b == abort_motion(ax)
  <2>1. Emptied(ax, b)
    BY <1>11
  <2>2. ax' \in {b, [NewId(b, "live") EXCEPT !.moving = ax.moving, !.streamId = ax.nextId,
                                             !.status = "synchronized_motion"]}
    BY <1>13 DEF StreamEngage, stream_engage
  <2> HIDE DEF b
  <2>3. ax' # b => SameLine(b, ax')
    <3>1. PICK g : g = NewId(b, "live")
      OBVIOUS
    <3>2. /\ Shape(g) /\ g.active = b.active /\ g.cmd = b.cmd /\ g.queue = b.queue
          /\ g.override = b.override /\ g.activeId = b.activeId /\ g.stopLock = b.stopLock
      BY <2>1, <3>1 DEF Emptied, NewId, Shape, AxisFields
    <3>3. ax' # b => ax' = [g EXCEPT !.moving = ax.moving, !.streamId = ax.nextId,
                                     !.status = "synchronized_motion"]
      BY <2>2, <3>1
    <3> QED
      BY <3>2, <3>3 DEF SameLine, Shape, AxisFields
  <2>4. ax' # b => Quiet(ax, ax')
    BY <1>10, <2>1, <2>3
  <2> QED
    BY <2>1, <2>4 DEF Quiet
<1>14. CASE StreamDisengage
  <2>1. SameLine(ax, ax')
    BY <1>14 DEF StreamDisengage, stream_disengage, SameLine, Shape, AxisFields
  <2> QED
    BY <2>1 DEF Quiet
<1>15. ASSUME NEW n \in Ticks, SubmitSuperimposed(n) PROVE Quiet(ax, ax')
  <2> DEFINE b == NewId(ax, "live")
  <2>1. SameLine(ax, b)
    BY DEF NewId, SameLine, Shape, AxisFields
  <2>2. ax' = [b EXCEPT !.supId = ax.nextId, !.supLeft = n, !.supHalting = FALSE, !.supDone = 0,
                        !.result = Ended(b, {ax.supId}, "aborted")]
    BY <1>15 DEF SubmitSuperimposed, submit_superimposed
  <2> HIDE DEF b
  <2> QED
    BY <2>1, <2>2 DEF Quiet, SameLine, Shape, AxisFields
<1>16. ASSUME NEW rest \in BOOLEAN, NEW n \in Ticks, HaltSuperimposed(rest, n)
       PROVE  Quiet(ax, ax')
  BY <1>16 DEF HaltSuperimposed, halt_superimposed, Quiet, SameLine, Shape, AxisFields
<1>17. ASSUME NEW n \in Ticks, NEW ok \in Feasible, UpdateSuperimposed(n, ok)
       PROVE  Quiet(ax, ax')
  BY <1>17 DEF UpdateSuperimposed, abort_superimposed, Quiet, SameLine, Shape, AxisFields
<1> QED
  BY <1>1, <1>2, <1>3, <1>4, <1>9, <1>12, <1>13, <1>14, <1>15, <1>6, <1>7, <1>8, <1>16, <1>17,
     <1>5

\* What an accepted or refused command c comes to, when plans succeed; live is
\* the axis after the id was given out.
Submitted(a, b, in, c, live, n, ok) ==
    /\ c.id = a.nextId /\ c.id # 0 /\ c.kind = in.kind /\ c.mode = in.mode
    /\ c.lock = in.lock /\ c.homing = in.homing /\ c.inside
    /\ c.kind # "acceleration_profile"
    /\ Shape(live)
    /\ \A f \in AxisFields \ {"nextId", "result"} : live[f] = a[f]
    /\ \/ /\ c.kind = "torque"
          /\ b = [abort_motion(live) EXCEPT !.active = TRUE, !.cmd = c, !.activeId = c.id,
                                            !.status = "continuous_motion"]
       \/ b = live
       \/ /\ c.mode = "aborting"
          /\ b = start([abort_motion(live) EXCEPT !.moving = a.moving], c, n, ok)
       \/ c.mode # "aborting" /\ ~a.active /\ b = start(live, c, n, ok)
       \/ /\ c.mode # "aborting" /\ a.active /\ a.cmd.kind # "acceleration_profile"
          /\ b = [live EXCEPT !.queue = Append(@, c)]

\* When plans succeed, the targets of all commands are inside the limits.
LEMMA CommandsPlannable ==
  ASSUME PlansSucceed, NEW in \in Commands
  PROVE  in \in CommandInput /\ in.inside = TRUE
  BY AxisAssumption DEF PlansSucceed, CommandInput

\* A command that is submitted is started, put at the end of the line, or refused.
LEMMA SubmitForms ==
  ASSUME PlansSucceed, Line(ax), Book(ax), NEW in \in CommandInput, in.inside = TRUE,
         NEW n \in Ticks, NEW ok \in Feasible, Submit(in, n, ok)
  PROVE  \E c \in Command : \E live : Submitted(ax, ax', in, c, live, n, ok)
<1> DEFINE id == ax.nextId
           c == [kind |-> in.kind, mode |-> in.mode, inside |-> in.inside,
                 lock |-> in.lock, homing |-> in.homing, timed |-> in.timed, id |-> id]
           new(r) == NewId(ax, r)
<1>0. /\ Shape(ax) /\ id \in Id /\ id # 0 /\ ax.override
  BY AxisAssumption DEF Book, Waiting, Counted, Ids, Submit, Id, Line, Plannable
<1>1. c \in Command /\ c.kind # "acceleration_profile" /\ in.inside /\ c.kind \in CommandKinds
  BY <1>0, AxisAssumption DEF Command, CommandInput, CommandKinds, Id, PlansSucceed
<1>2. \A r : Shape(new(r)) /\ \A f \in AxisFields \ {"nextId", "result"} : new(r)[f] = ax[f]
  BY <1>0 DEF NewId, Shape, AxisFields
<1>3. ok
  BY DEF PlansSucceed
<1>4. Startable(ax, c, ok)
  BY <1>0, <1>1, <1>3 DEF Startable
<1>5. ax' = submit_impl(ax, in, n, ok).ax
  BY DEF Submit
<1>6. \/ /\ c.kind = "torque"
         /\ ax' = [abort_motion(new("live")) EXCEPT
                     !.active = TRUE, !.cmd = c, !.activeId = id, !.status = "continuous_motion"]
      \/ ax' = new("rejected")
      \/ /\ c.mode = "aborting"
         /\ ax' = start([abort_motion(new("live")) EXCEPT !.moving = new("live").moving], c, n, ok)
      \/ c.mode # "aborting" /\ ~ax.active /\ ax' = start(new("live"), c, n, ok)
      \/ /\ c.mode # "aborting" /\ ax.active /\ ax.cmd.kind # "acceleration_profile"
         /\ ax' = [new("live") EXCEPT !.queue = Append(@, c)]
  BY <1>1, <1>4, <1>5 DEF submit_impl
<1>7. \A r : new(r).moving = ax.moving
  BY <1>2 DEF AxisFields
<1>8. /\ c.id = ax.nextId /\ c.kind = in.kind /\ c.mode = in.mode
      /\ c.lock = in.lock /\ c.homing = in.homing /\ c.inside
  BY <1>1
<1> HIDE DEF c, new
<1>9. CASE ax' = new("rejected")
  BY <1>0, <1>1, <1>2, <1>8, <1>9 DEF Submitted
<1>10. CASE ax' # new("rejected")
  <2> USE <1>1
  <2> WITNESS c \in Command
  <2> WITNESS new("live")
  <2>1. id = c.id
    BY <1>8
  <2> HIDE DEF id
  <2> QED
    BY <1>0, <1>1, <1>2, <1>6, <1>7, <1>8, <1>10, <2>1 DEF Submitted
<1> QED
  BY <1>9, <1>10

\* start, when the command can be started.
LEMMA StartActive ==
  ASSUME NEW a, Shape(a), NEW c \in Command, NEW n, NEW ok, Startable(a, normalize(c), ok)
  PROVE  LET b == start(a, c, n, ok) IN
         /\ Shape(b) /\ b.activeId = c.id /\ b.queue = a.queue /\ b.override = a.override
         /\ b.active /\ b.cmd = normalize(c)
  BY StartEffect

\* A command in the place of the active one.
LEMMA StartLine ==
  ASSUME PlansSucceed, NEW a, Line(a), ~a.active,
         NEW c \in Command, c.id # 0, c.inside, c.kind # "acceleration_profile",
         NEW n, NEW ok \in Feasible
  PROVE  LET b == start(a, c, n, ok) IN
         Line(b) /\ b.active /\ b.cmd = normalize(c) /\ b.activeId = c.id
<1> DEFINE b == start(a, c, n, ok)
<1>0. Shape(a) /\ a.override
  BY DEF Line, Plannable
<1>1. ok
  BY DEF PlansSucceed
<1>2. Startable(a, normalize(c), ok) /\ normalize(c).kind # "acceleration_profile"
  BY <1>0, <1>1 DEF Startable, normalize, Command
<1>3. /\ Shape(b) /\ b.activeId = c.id /\ b.queue = a.queue /\ b.override = a.override
      /\ b.active /\ b.cmd = normalize(c)
  BY <1>0, <1>2, StartActive
<1> HIDE DEF b
<1>4. Line(b)
  BY <1>2, <1>3 DEF Line, Plannable, Segments
<1> QED
  BY <1>3, <1>4 DEF b

\* A command that is submitted keeps the line.
LEMMA SubmitLine ==
  ASSUME PlansSucceed, Line(ax), Book(ax), NEW in \in CommandInput, in.inside = TRUE,
         NEW n \in Ticks, NEW ok \in Feasible, Submit(in, n, ok)
  PROVE  Line(ax')
<1>0. Shape(ax) /\ ax.queue \in Seq(Command)
  BY DEF Line
<1>1. PICK c \in Command : \E live : Submitted(ax, ax', in, c, live, n, ok)
  BY SubmitForms
<1>2. PICK live :
         /\ c.id # 0 /\ c.inside
         /\ c.kind # "acceleration_profile"
         /\ Shape(live)
         /\ \A f \in AxisFields \ {"nextId", "result"} : live[f] = ax[f]
         /\ \/ ax' = [abort_motion(live) EXCEPT
                           !.active = TRUE, !.cmd = c, !.activeId = c.id,
                           !.status = "continuous_motion"]
            \/ ax' = live
            \/ ax' = start([abort_motion(live) EXCEPT !.moving = ax.moving], c, n, ok)
            \/ ~ax.active /\ ax' = start(live, c, n, ok)
            \/ /\ ax.active /\ ax.cmd.kind # "acceleration_profile"
               /\ ax' = [live EXCEPT !.queue = Append(@, c)]
  BY <1>1 DEF Submitted
<1>3. SameLine(ax, live)
  BY <1>2 DEF SameLine, AxisFields
<1>4. Line(live) /\ live.active = ax.active /\ live.cmd = ax.cmd /\ live.queue = ax.queue
  BY <1>3, LineKept DEF SameLine, Quiet
<1> DEFINE d == abort_motion(live)
           e == [d EXCEPT !.moving = ax.moving]
<1>5. Emptied(live, d)
  BY <1>2, AbortClears
<1> HIDE DEF d
<1>6. Emptied(live, e)
  BY <1>5 DEF Emptied, Shape, AxisFields
<1> HIDE DEF e
<1>7. Line(d) /\ Line(e) /\ ~d.active /\ ~e.active /\ d.queue = <<>> /\ Shape(d)
  BY <1>4, <1>5, <1>6, LineKept DEF Emptied, Quiet
<1>8. CASE ax' = [abort_motion(live) EXCEPT !.active = TRUE, !.cmd = c, !.activeId = c.id,
                                            !.status = "continuous_motion"]
  <2>1. ax' = [d EXCEPT !.active = TRUE, !.cmd = c, !.activeId = c.id,
                        !.status = "continuous_motion"]
    BY <1>8 DEF d
  <2>2. /\ Shape(ax') /\ ax'.active = TRUE /\ ax'.cmd = c /\ ax'.activeId = c.id
        /\ ax'.queue = <<>> /\ ax'.override = d.override
    BY <1>7, <2>1 DEF Shape, AxisFields
  <2>3. d.override
    BY <1>7 DEF Line, Plannable
  <2>4. <<>> \in Seq(Command) /\ DOMAIN <<>> = {}
    OBVIOUS
  <2> QED
    BY <1>2, <2>2, <2>3, <2>4 DEF Line, Plannable, Segments
<1>9. CASE ax' = start([abort_motion(live) EXCEPT !.moving = ax.moving], c, n, ok)
  BY <1>2, <1>7, <1>9, StartLine DEF e, d
<1>10. CASE ~ax.active /\ ax' = start(live, c, n, ok)
  BY <1>2, <1>4, <1>10, StartLine
<1>11. CASE /\ ax.active /\ ax.cmd.kind # "acceleration_profile"
            /\ ax' = [live EXCEPT !.queue = Append(@, c)]
  <2> DEFINE q == Append(live.queue, c)
  <2>1. /\ q \in Seq(Command)
        /\ \A k \in DOMAIN q : q[k] = c \/ (k \in DOMAIN live.queue /\ q[k] = live.queue[k])
    BY <1>0, <1>4
  <2>2. /\ Shape(ax') /\ ax'.queue = q
        /\ \A f \in AxisFields \ {"queue"} : ax'[f] = live[f]
    BY <1>2, <1>11 DEF Shape, AxisFields
  <2> HIDE DEF q
  <2>3. /\ ax'.active = live.active /\ ax'.cmd = live.cmd /\ ax'.activeId = live.activeId
        /\ ax'.override = live.override
    BY <2>2 DEF AxisFields
  <2> QED
    BY <1>2, <1>4, <1>11, <2>1, <2>2, <2>3 DEF Line, Plannable, Segments
<1> QED
  BY <1>2, <1>4, <1>8, <1>9, <1>10, <1>11

\* The calls that move commands.
LEMMA CommandCallsLine ==
  ASSUME PlansSucceed, Line(ax), Book(ax),
         \/ \E in \in Commands, n \in Ticks, ok \in Feasible : Submit(in, n, ok)
         \/ SubmitAccelerationProfile
         \/ \E inside \in BOOLEAN, n \in Ticks, ok \in Feasible : UpdateTarget(inside, n, ok)
  PROVE  Line(ax')
<1>0. Shape(ax) /\ ax.queue \in Seq(Command)
  BY DEF Line
<1>1. ASSUME NEW in \in Commands, NEW n \in Ticks, NEW ok \in Feasible, Submit(in, n, ok)
      PROVE  Line(ax')
  BY <1>1, SubmitLine, CommandsPlannable
<1>2. CASE SubmitAccelerationProfile
  <2> DEFINE live == NewId(ax, "live")
             e == abort_motion(live)
             segment == [NoCommand EXCEPT !.kind = "acceleration_profile"]
  <2>1. segment \in Command /\ segment.id = 0 /\ segment.inside
    BY Values DEF NoCommand, Command, CommandKinds
  <2>2. Shape(live) /\ live.override = ax.override
    BY <1>0 DEF NewId, Shape, AxisFields
  <2> HIDE DEF live
  <2>3. Emptied(live, e)
    BY <2>2, AbortClears
  <2>4. ax' = [e EXCEPT !.queue = <<segment>>, !.active = TRUE, !.activeId = ax.nextId,
                        !.cmd = [segment EXCEPT !.id = ax.nextId],
                        !.status = "continuous_motion"]
    BY <1>2 DEF SubmitAccelerationProfile, submit_acceleration_profile, live
  <2>5. [segment EXCEPT !.id = ax.nextId].kind = "acceleration_profile"
    BY DEF NoCommand
  <2> HIDE DEF e, segment
  <2>6. /\ Shape(ax') /\ ax'.active /\ ax'.cmd.kind = "acceleration_profile"
        /\ ax'.queue = <<segment>> /\ ax'.override = ax.override
    BY <2>2, <2>3, <2>4, <2>5 DEF Emptied, Shape, AxisFields
  <2>7. /\ ax'.queue \in Seq(Command) /\ Len(ax'.queue) = 1 /\ ax'.queue[1] = segment
        /\ DOMAIN ax'.queue = {1}
    BY <2>1, <2>6
  <2> QED
    BY <2>1, <2>6, <2>7 DEF Line, Plannable, Segments
<1>3. ASSUME NEW inside \in BOOLEAN, NEW n \in Ticks, NEW ok \in Feasible,
             UpdateTarget(inside, n, ok)
      PROVE  Line(ax')
  <2> DEFINE b == [ax EXCEPT !.left = n, !.holding = FALSE]
  <2>1. SameLine(ax, b)
    BY <1>0 DEF SameLine, Shape, AxisFields
  <2>2. /\ ax.active /\ ax' \in {b, fail_command(ax, n, ok)}
        /\ ax.cmd.kind # "acceleration_profile"
    BY <1>3 DEF UpdateTarget, update_active_target
  <2> HIDE DEF b
  <2> QED
    BY <2>1, <2>2, LineKept, EndsLine DEF Quiet
<1> QED
  BY <1>1, <1>2, <1>3

-----------------------------------------------------------------------------

\* Every step of the axis keeps the books; Kept needs what follows in the queue
\* to be startable, and that nobody calls sync_out.
LEMMA NextStepBook ==
  ASSUME Book(ax), Safe(ax), Next
  PROVE  /\ Book(ax')
         /\ PlansSucceed /\ NoSyncOut /\ Plannable(ax) /\ Kept(ax) => Kept(ax')
<1>1. ASSUME NEW mode \in Modes, GearIn(mode) \/ CamIn(mode) \/ CombineIn(mode)
      PROVE  Books(ax, ax', TRUE)
  BY <1>1, SynchronizeBook DEF GearIn, CamIn, CombineIn
<1>2. ASSUME NEW in \in CycleInput(ax), ax' = cycle(ax, in)
      PROVE  Books(ax, ax', PlansSucceed /\ Plannable(ax))
  <2>1. in.ok \in Feasible
    BY DEF CycleInput
  <2>2. Books(ax, ax', Follows(ax, in.ok))
    BY <1>2, CycleBook
  <2>3. PlansSucceed => in.ok
    BY <2>1 DEF PlansSucceed
  <2> QED
    BY <2>2, <2>3 DEF Books, Follows
<1>3. ASSUME NEW inside \in BOOLEAN, NEW n \in Ticks, NEW ok \in Feasible,
             UpdateTarget(inside, n, ok)
      PROVE  Books(ax, ax', PlansSucceed /\ Plannable(ax))
  <2>1. PlansSucceed \in BOOLEAN /\ (PlansSucceed => ok)
    BY DEF PlansSucceed
  <2> QED
    BY <1>3, <2>1, ActiveCallsBook
<1>4. ASSUME NEW n \in Ticks, SyncOut(n)
      PROVE  Book(ax') /\ ~NoSyncOut
  BY <1>4, SyncOutBook DEF SyncOut, NoSyncOut
<1>5. ASSUME ReleaseStop \/ \E n \in Ticks : SetOverride(n)
      PROVE  Books(ax, ax', Plannable(ax))
  <2>1. Books(ax, ax', TRUE /\ Plannable(ax))
    BY <1>5, ActiveCallsBook
  <2> QED
    BY <2>1 DEF Books
<1> QED
  BY <1>1, <1>2, <1>3, <1>4, <1>5, PowerCallsBook, SubmitBook, ProfileBook, StreamBook,
     SuperimposedBook, AxisAssumption
  DEF Next, Books, Cycle

\* The books are right in every state, whatever is called and planned.
LEMMA BooksRight == Spec => [](Safe(ax) /\ Book(ax))
<1>1. Init => Safe(ax) /\ Book(ax)
  <2>1. Init => Shape(ax) /\ PowerSafe(ax) /\ OneWriter(ax)
    BY DEF Init, AxisInit, PowerSafe, OneWriter, Shape, AxisFields, has_standalone_motion
  <2>2. Init => Book(ax)
    <3>1. /\ <<>> \in Seq(Command) /\ DOMAIN <<>> = {}
          /\ [i \in Id |-> "unused"] \in [Id -> Results] /\ 1 \in 1 .. MaxId + 1
          /\ \A i \in Id : [j \in Id |-> "unused"][i] = "unused"
      BY AxisAssumption DEF Results
    <3>2. Init => /\ Shape(ax) /\ ~ax.active /\ ax.activeId = 0 /\ ax.queue = <<>>
                  /\ ax.syncId = 0 /\ ax.streamId = 0 /\ ax.supId = 0 /\ ax.nextId = 1
                  /\ ax.result = [i \in Id |-> "unused"]
      BY DEF Init, AxisInit, Shape, AxisFields
    <3> QED
      BY <3>1, <3>2, Values DEF Book, Waiting, Counted, Ids, Live
  <2> QED
    BY <2>1, <2>2 DEF Safe
<1>2. ASSUME AxisInv, AxisInv', Safe(ax) /\ Book(ax), [Next]_ax
      PROVE  (Safe(ax) /\ Book(ax))'
  BY <1>2, NextStepBook DEF AxisInv
<1> QED
  BY <1>1, <1>2, AxisSafe, PTL DEF Spec

\* What the axis works on, or will work on, is live: an id with a final result,
\* whether done, taken over, failed or refused, is never worked on again.  This
\* holds for every set of commands and calls and every outcome of planning.
THEOREM WorkIsLive == Spec => [](\A i \in OwnedIds(ax) : ax.result[i] = "live")
<1>1. ASSUME Book(ax)
      PROVE  \A i \in OwnedIds(ax) : ax.result[i] = "live"
  BY <1>1 DEF Book, Waiting, Fits, Live, OwnedIds, QueueIds
<1>2. Safe(ax) /\ Book(ax) => \A i \in OwnedIds(ax) : ax.result[i] = "live"
  BY <1>1
<1> QED
  BY <1>2, BooksRight, PTL

\* The line, step by step.
LEMMA NextStepLine ==
  ASSUME PlansSucceed, NoSyncOut, Line(ax), Safe(ax), Book(ax), Next
  PROVE  Line(ax')
<1>1. ASSUME NEW mode \in Modes, GearIn(mode) \/ CamIn(mode) \/ CombineIn(mode)
      PROVE  Line(ax')
  <2>1. \E kind, m, entry : Synchronize(kind, m, entry)
    BY <1>1 DEF GearIn, CamIn, CombineIn
  <2> QED
    BY <2>1, OtherCallsQuiet, LineKept DEF Line
<1>2. ASSUME NEW in \in CycleInput(ax), ax' = cycle(ax, in)
      PROVE  Line(ax')
  BY <1>2, CycleLine DEF CycleInput
<1>3. ASSUME NEW n \in Ticks, SyncOut(n)
      PROVE  Line(ax')
  BY <1>3 DEF SyncOut, NoSyncOut
<1> QED
  BY <1>1, <1>2, <1>3, OtherCallsQuiet, LineKept, CommandCallsLine DEF Next, Cycle, Line

\* While plans succeed and nobody calls sync_out, the line stays startable and
\* no live id is forgotten.
LEMMA LineRight ==
  ASSUME PlansSucceed, NoSyncOut
  PROVE  Spec => [](Line(ax) /\ Kept(ax))
<1>1. Init => Line(ax) /\ Kept(ax)
  <2>1. /\ <<>> \in Seq(Command) /\ DOMAIN <<>> = {}
        /\ \A i \in Id : [j \in Id |-> "unused"][i] # "live"
    OBVIOUS
  <2>2. Init => /\ Shape(ax) /\ ~ax.active /\ ax.queue = <<>> /\ ax.override
                /\ ax.result = [i \in Id |-> "unused"]
    BY DEF Init, AxisInit, Shape, AxisFields
  <2>3. Init => Line(ax)
    BY <2>1, <2>2 DEF Line, Plannable, Segments
  <2>4. Init => Kept(ax)
    BY <2>1, <2>2 DEF Kept
  <2> QED
    BY <2>3, <2>4
<1>2. ASSUME Safe(ax) /\ Book(ax), Line(ax) /\ Kept(ax), [Next]_ax
      PROVE  (Line(ax) /\ Kept(ax))'
  BY <1>2, NextStepLine, NextStepBook DEF Line
<1> QED
  BY <1>1, <1>2, BooksRight, PTL DEF Spec

\* EveryCommandAccounted: if every plan succeeds and nobody calls sync_out, an id
\* that is live is at work in the axis, and what is at work is live.  (A queued
\* command whose plan fails when its turn comes, and a command that sync_out
\* drops, stay live in the history and are never heard of again.)
THEOREM AllAccounted ==
  ASSUME PlansSucceed, NoSyncOut
  PROVE  Spec => []EveryCommandAccounted
<1>1. ASSUME Book(ax), Kept(ax)
      PROVE  EveryCommandAccounted
  <2> SUFFICES ASSUME NEW i \in Id
               PROVE  ax.result[i] = "live" <=> i \in OwnedIds(ax)
    BY DEF EveryCommandAccounted
  <2>1. ax.result[i] = "live" => i \in OwnedIds(ax)
    BY <1>1, OwnedPlaces DEF Kept
  <2>2. i \in OwnedIds(ax) => ax.result[i] = "live"
    BY <1>1 DEF Book, Waiting, Fits, Live, OwnedIds, QueueIds
  <2> QED
    BY <2>1, <2>2
<1>2. (Safe(ax) /\ Book(ax)) /\ (Line(ax) /\ Kept(ax)) => EveryCommandAccounted
  BY <1>1
<1> QED
  BY <1>2, BooksRight, LineRight, PTL

-----------------------------------------------------------------------------
(* The order in which commands run.                                         *)

\* The line is sorted by id, behind the active command.
Sorted(a) ==
    /\ \A j, k \in DOMAIN a.queue : j < k => a.queue[j].id < a.queue[k].id
    /\ \A k \in DOMAIN a.queue :
          a.active /\ a.queue[k].id # 0 => a.activeId < a.queue[k].id
    /\ \A k \in DOMAIN a.queue : a.queue[k].kind # "stop"
    /\ a.stopLock # 0 => a.queue = <<>>

Ordered(a) == Sorted(a) /\ (a.queue # <<>> => a.active)

\* What leaves the line alone, and what clears it, keeps its order.
LEMMA OrderKept ==
  ASSUME NEW a, Ordered(a), NEW b, Quiet(a, b)
  PROVE  Ordered(b)
<1>1. CASE Emptied(a, b)
  BY <1>1 DEF Emptied, Ordered, Sorted
<1>2. CASE SameLine(a, b)
  <2>1. /\ b.active = a.active /\ b.queue = a.queue
        /\ a.active => b.activeId = a.activeId
        /\ b.stopLock \in {a.stopLock, 0}
    BY <1>2 DEF SameLine
  <2> QED
    BY <2>1 DEF Ordered, Sorted
<1> QED
  BY <1>1, <1>2 DEF Quiet

\* The next command of the line comes before all others of it.
LEMMA NextOrder ==
  ASSUME PlansSucceed, NEW a, Line(a), ~(a.active /\ a.cmd.kind = "acceleration_profile"),
         Sorted(a), NEW n, NEW ok \in Feasible
  PROVE  Ordered(start_next_queued(a, n, ok))
<1> DEFINE b == start_next_queued(a, n, ok)
           c == Head(a.queue)
<1>1. CASE a.queue = <<>>
  BY <1>1 DEF start_next_queued, Ordered
<1>2. CASE a.queue # <<>>
  <2>0. Shape(a) /\ a.queue \in Seq(Command) /\ Plannable(a)
    BY DEF Line
  <2>1. /\ b.activeId = c.id /\ b.queue = Tail(a.queue) /\ b.active
        /\ b.stopLock = IF c.kind = "stop" /\ c.lock THEN c.id ELSE a.stopLock
    <3>1. /\ b.activeId = c.id /\ b.queue = Tail(a.queue)
          /\ b.active \/ ~(Plannable(a) /\ ok)
          /\ b.stopLock = IF c.kind = "stop" /\ c.lock THEN c.id ELSE a.stopLock
      BY <1>2, <2>0, NextEffect
    <3>2. ok
      BY DEF PlansSucceed
    <3> QED
      BY <2>0, <3>1, <3>2
  <2>2. /\ c \in Command /\ c = a.queue[1] /\ 1 \in DOMAIN a.queue
        /\ Tail(a.queue) \in Seq(Command)
        /\ \A k \in DOMAIN Tail(a.queue) :
              k + 1 \in DOMAIN a.queue /\ Tail(a.queue)[k] = a.queue[k + 1]
    BY <1>2, <2>0, TailFacts
  <2>3. \A k \in DOMAIN Tail(a.queue) : k \in Nat \ {0}
    BY <2>2
  <2>4. b.stopLock = 0
    BY <1>2, <2>1, <2>2 DEF Sorted
  <2> HIDE DEF b, c
  <2>5. \A k \in DOMAIN b.queue : b.queue[k].kind # "stop" /\ c.id < b.queue[k].id
    <3> SUFFICES ASSUME NEW k \in DOMAIN Tail(a.queue)
                 PROVE  Tail(a.queue)[k].kind # "stop" /\ c.id < Tail(a.queue)[k].id
      BY <2>1
    <3>1. 1 < k + 1
      BY <2>3
    <3> QED
      BY <2>2, <3>1 DEF Sorted
  <2>6. ASSUME NEW j \in DOMAIN b.queue, NEW k \in DOMAIN b.queue, j < k
        PROVE  b.queue[j].id < b.queue[k].id
    <3>1. j + 1 < k + 1
      BY <2>1, <2>3, <2>6
    <3> QED
      BY <2>1, <2>2, <3>1 DEF Sorted
  <2> QED
    BY <2>1, <2>4, <2>5, <2>6 DEF Ordered, Sorted, b
<1> QED
  BY <1>1, <1>2

\* However the active command ends, the line goes on in order; MC_Stop holds it
\* only when nothing waits.
LEMMA EndsOrder ==
  ASSUME PlansSucceed, NEW a, Line(a), Ordered(a), a.active, a.cmd.kind # "acceleration_profile",
         NEW n, NEW ok \in Feasible
  PROVE  /\ Ordered(finish_active(a, n, ok))
         /\ Ordered(fail_command(a, n, ok))
         /\ Ordered(blend_into_next(a, n, ok))
<1>0. Shape(a) /\ a.activeId # 0
  BY DEF Line, Segments
<1>1. Ordered(finish_active(a, n, ok))
  <2> DEFINE locking == a.cmd.kind = "stop" /\ a.cmd.lock
             locked == locking /\ a.stopLock = a.activeId /\ ~a.stopRelease
  <2>1. PICK b : /\ Vacated(a, b)
                 /\ b.stopLock = IF locking /\ ~locked THEN 0 ELSE a.stopLock
                 /\ finish_active(a, n, ok) = IF locked THEN b ELSE start_next_queued(b, n, ok)
    BY <1>0, FinishEffect
  <2>2. Line(b) /\ ~b.active /\ b.queue = a.queue
    BY <2>1, VacatedLine DEF Vacated
  <2>3. Sorted(b)
    BY <2>1, <2>2 DEF Ordered, Sorted
  <2>4. CASE locked
    BY <1>0, <2>1, <2>2, <2>3, <2>4 DEF Ordered, Sorted
  <2>5. CASE ~locked
    BY <2>1, <2>2, <2>3, <2>5, NextOrder
  <2> QED
    BY <2>4, <2>5
<1>2. Ordered(fail_command(a, n, ok))
  <2>1. PICK b : /\ Vacated(a, b) /\ b.stopLock = a.stopLock
                 /\ fail_command(a, n, ok) =
                       [start_next_queued(b, n, ok) EXCEPT
                          !.moving = start_next_queued(b, n, ok).active /\ @]
    BY <1>0, FailEffect
  <2> DEFINE c == start_next_queued(b, n, ok)
             d == [c EXCEPT !.moving = c.active /\ @]
  <2>2. Line(b) /\ ~b.active /\ b.queue = a.queue
    BY <2>1, VacatedLine DEF Vacated
  <2>3. Sorted(b)
    BY <2>1, <2>2 DEF Ordered, Sorted
  <2>4. Line(c) /\ Ordered(c)
    BY <2>2, <2>3, NextLine, NextOrder
  <2> HIDE DEF c
  <2>5. SameLine(c, d)
    BY <2>4 DEF Line, SameLine, Shape, AxisFields
  <2> QED
    BY <2>1, <2>4, <2>5, OrderKept DEF c, Quiet
<1>3. Ordered(blend_into_next(a, n, ok))
  <2> DEFINE b == [a EXCEPT !.lastDone = a.activeId, !.result = Ended(a, {a.activeId}, "done")]
  <2>1. SameLine(a, b)
    BY <1>0 DEF SameLine, Shape, AxisFields
  <2>2. blend_into_next(a, n, ok) = start_next_queued(b, n, ok)
    BY DEF blend_into_next
  <2> HIDE DEF b
  <2>3. Line(b) /\ Ordered(b) /\ b.cmd = a.cmd
    BY <2>1, LineKept, OrderKept DEF SameLine, Quiet
  <2> QED
    BY <2>2, <2>3, NextOrder DEF Ordered
<1> QED
  BY <1>1, <1>2, <1>3

\* A period keeps the order.
LEMMA CycleOrder ==
  ASSUME PlansSucceed, NEW a, Line(a), Ordered(a), Safe(a), NEW in, in.ok \in Feasible
  PROVE  Ordered(cycle(a, in))
<1>1. CASE Quiet(a, cycle(a, in))
  BY <1>1, OrderKept
<1>2. CASE ~Quiet(a, cycle(a, in))
  <2>1. a.active
    BY <1>2, CycleForms
  <2>2. PICK t, d : /\ SameLine(a, t) /\ SameLine(d, cycle(a, in))
                    /\ \/ /\ a.cmd.kind # "acceleration_profile"
                          /\ d = finish_active(t, in.n, in.ok)
                       \/ /\ a.queue # <<>> /\ a.cmd.kind = "move_absolute"
                          /\ d = blend_into_next(t, in.n, in.ok)
    BY <1>2, CycleForms
  <2>3. Line(t) /\ Ordered(t) /\ t.active /\ t.cmd.kind # "acceleration_profile"
    BY <2>1, <2>2, LineKept, OrderKept DEF Quiet, SameLine
  <2>4. Ordered(d)
    BY <2>2, <2>3, EndsOrder
  <2> QED
    BY <2>2, <2>4, OrderKept DEF Quiet
<1> QED
  BY <1>1, <1>2

\* A new command goes to the end of the line, by its id.
LEMMA CommandCallsOrder ==
  ASSUME PlansSucceed, StopsTakeOver, Line(ax), Ordered(ax), Book(ax),
         \/ \E in \in Commands, n \in Ticks, ok \in Feasible : Submit(in, n, ok)
         \/ SubmitAccelerationProfile
         \/ \E inside \in BOOLEAN, n \in Ticks, ok \in Feasible : UpdateTarget(inside, n, ok)
  PROVE  Ordered(ax')
<1>0. Shape(ax) /\ ax.queue \in Seq(Command)
  BY DEF Line
<1>1. ASSUME NEW in \in Commands, NEW n \in Ticks, NEW ok \in Feasible, Submit(in, n, ok)
      PROVE  Ordered(ax')
  <2>1. PICK c \in Command : \E live : Submitted(ax, ax', in, c, live, n, ok)
    BY <1>1, SubmitForms, CommandsPlannable
  <2>2. PICK live :
           /\ c.id = ax.nextId /\ Shape(live) /\ c.kind = in.kind /\ c.mode = in.mode
           /\ \A f \in AxisFields \ {"nextId", "result"} : live[f] = ax[f]
           /\ \/ ax' = [abort_motion(live) EXCEPT
                             !.active = TRUE, !.cmd = c, !.activeId = c.id,
                             !.status = "continuous_motion"]
              \/ ax' = live
              \/ ax' = start([abort_motion(live) EXCEPT !.moving = ax.moving], c, n, ok)
              \/ ~ax.active /\ ax' = start(live, c, n, ok)
              \/ /\ c.mode # "aborting" /\ ax.active
                 /\ ax' = [live EXCEPT !.queue = Append(@, c)]
    BY <2>1 DEF Submitted
  <2>3. SameLine(ax, live) /\ live.queue = ax.queue /\ live.active = ax.active
    BY <2>2 DEF SameLine, AxisFields
  <2> DEFINE d == abort_motion(live)
             e == [d EXCEPT !.moving = ax.moving]
  <2>4. Shape(d) /\ d.queue = <<>> /\ d.stopLock = 0
    BY <2>2, AbortEffect
  <2> HIDE DEF d
  <2>5. Shape(e) /\ e.queue = <<>>
    BY <2>4 DEF Shape, AxisFields
  <2> HIDE DEF e
  <2>6. \A b : b.queue = <<>> => Ordered(b)
    BY DEF Ordered, Sorted
  <2>7. CASE ax' = [abort_motion(live) EXCEPT !.active = TRUE, !.cmd = c, !.activeId = c.id,
                                              !.status = "continuous_motion"]
    <3>1. ax' = [d EXCEPT !.active = TRUE, !.cmd = c, !.activeId = c.id,
                          !.status = "continuous_motion"]
      BY <2>7 DEF d
    <3>2. ax'.queue = <<>>
      BY <2>4, <3>1 DEF Shape, AxisFields
    <3> QED
      BY <2>6, <3>2
  <2>8. CASE ax' = start([abort_motion(live) EXCEPT !.moving = ax.moving], c, n, ok)
    <3>1. ax' = start(e, c, n, ok)
      BY <2>8 DEF e, d
    <3>2. ax'.queue = <<>>
      BY <2>5, <3>1, StartEffect
    <3> QED
      BY <2>6, <3>2
  <2>9. CASE ~ax.active /\ ax' = start(live, c, n, ok)
    <3>1. ax'.queue = live.queue
      BY <2>2, <2>9, StartEffect
    <3>2. ax.queue = <<>>
      BY <2>9 DEF Ordered
    <3> QED
      BY <2>3, <2>6, <3>1, <3>2
  <2>10. CASE /\ c.mode # "aborting" /\ ax.active
              /\ ax' = [live EXCEPT !.queue = Append(@, c)]
    <3> DEFINE q == Append(ax.queue, c)
               m == Len(ax.queue) + 1
    <3>1. /\ m \in Nat /\ DOMAIN q = 1 .. m /\ q[m] = c
          /\ \A k \in DOMAIN q : k # m => k \in DOMAIN ax.queue /\ q[k] = ax.queue[k]
      BY <1>0
    <3>2. /\ ax'.queue = q /\ ax'.active = ax.active /\ ax'.activeId = ax.activeId
          /\ ax'.stopLock = ax.stopLock
      <4>1. /\ ax'.queue = q
            /\ \A f \in AxisFields \ {"queue"} : ax'[f] = live[f]
        BY <2>2, <2>3, <2>10 DEF Shape, AxisFields
      <4> QED
        BY <2>2, <4>1 DEF AxisFields
    <3> HIDE DEF q, m
    <3>3. c.kind # "stop" /\ ax.stopLock = 0
      BY <1>1, <2>2, <2>10 DEF StopsTakeOver, Submit, submit_admissibility
    <3>4. \A i \in 0 .. MaxId : Live(ax, i) => i < c.id
      <4>1. \A i \in Id : ax.result[i] = "live" => ax.result[i] # "unused"
        OBVIOUS
      <4>2. ax.nextId \in 1 .. MaxId + 1 /\ \A i \in Id : i >= ax.nextId => ax.result[i] = "unused"
        BY DEF Book, Waiting, Counted, Ids
      <4> QED
        BY <2>2, <4>1, <4>2, AxisAssumption DEF Live, Id
    <3>5. /\ \A k \in DOMAIN ax.queue : ax.queue[k].id < c.id
          /\ ax.active => ax.activeId < c.id
      <4>1. \A k \in DOMAIN ax.queue : ax.queue[k].id \in 0 .. MaxId /\ Live(ax, ax.queue[k].id)
        BY <1>0, QueueElements DEF Book, Waiting
      <4>2. ax.activeId \in 0 .. MaxId /\ (ax.active => Live(ax, ax.activeId))
        BY DEF Book, Fits, Live, Waiting, Counted, Ids
      <4> QED
        BY <3>4, <4>1, <4>2
    <3>6. ASSUME NEW j \in DOMAIN q, NEW k \in DOMAIN q, j < k
          PROVE  q[j].id < q[k].id
      <4>1. j # m
        BY <3>1, <3>6
      <4>2. CASE k = m
        BY <3>1, <3>5, <4>1, <4>2
      <4>3. CASE k # m
        BY <3>1, <3>6, <4>1, <4>3 DEF Ordered, Sorted
      <4> QED
        BY <4>2, <4>3
    <3>7. \A k \in DOMAIN q :
             q[k].kind # "stop" /\ (ax.active /\ q[k].id # 0 => ax.activeId < q[k].id)
      BY <3>1, <3>3, <3>5 DEF Ordered, Sorted
    <3>8. Sorted(ax')
      BY <3>2, <3>3, <3>6, <3>7 DEF Sorted
    <3> QED
      BY <2>10, <3>2, <3>8 DEF Ordered
  <2> QED
    BY <2>2, <2>3, <2>7, <2>8, <2>9, <2>10, OrderKept DEF Quiet
<1>2. CASE SubmitAccelerationProfile
  <2> DEFINE live == NewId(ax, "live")
             e == abort_motion(live)
             segment == [NoCommand EXCEPT !.kind = "acceleration_profile"]
  <2>1. segment.id = 0 /\ segment.kind = "acceleration_profile"
    BY DEF NoCommand
  <2>2. Shape(live)
    BY <1>0 DEF NewId, Shape, AxisFields
  <2> HIDE DEF live
  <2>3. Shape(e) /\ e.stopLock = 0
    BY <2>2, AbortEffect
  <2>4. ax' = [e EXCEPT !.queue = <<segment>>, !.active = TRUE, !.activeId = ax.nextId,
                        !.cmd = [segment EXCEPT !.id = ax.nextId],
                        !.status = "continuous_motion"]
    BY <1>2 DEF SubmitAccelerationProfile, submit_acceleration_profile, live
  <2> HIDE DEF e, segment
  <2>5. ax'.active /\ ax'.queue = <<segment>> /\ ax'.stopLock = 0
    BY <2>3, <2>4 DEF Shape, AxisFields
  <2>6. DOMAIN ax'.queue = {1} /\ ax'.queue[1] = segment
    BY <2>5
  <2> QED
    BY <2>1, <2>5, <2>6 DEF Ordered, Sorted
<1>3. ASSUME NEW inside \in BOOLEAN, NEW n \in Ticks, NEW ok \in Feasible,
             UpdateTarget(inside, n, ok)
      PROVE  Ordered(ax')
  <2> DEFINE b == [ax EXCEPT !.left = n, !.holding = FALSE]
  <2>1. SameLine(ax, b)
    BY <1>0 DEF SameLine, Shape, AxisFields
  <2>2. /\ ax.active /\ ax' \in {b, fail_command(ax, n, ok)}
        /\ ax.cmd.kind # "acceleration_profile"
    BY <1>3 DEF UpdateTarget, update_active_target
  <2> HIDE DEF b
  <2> QED
    BY <2>1, <2>2, OrderKept, EndsOrder DEF Quiet
<1> QED
  BY <1>1, <1>2, <1>3

\* The order, step by step.
LEMMA NextStepOrder ==
  ASSUME PlansSucceed, NoSyncOut, StopsTakeOver,
         Line(ax), Ordered(ax), Safe(ax), Book(ax), Next
  PROVE  Ordered(ax')
<1>1. ASSUME NEW mode \in Modes, GearIn(mode) \/ CamIn(mode) \/ CombineIn(mode)
      PROVE  Ordered(ax')
  <2>1. \E kind, m, entry : Synchronize(kind, m, entry)
    BY <1>1 DEF GearIn, CamIn, CombineIn
  <2> QED
    BY <2>1, OtherCallsQuiet, OrderKept DEF Line
<1>2. ASSUME NEW in \in CycleInput(ax), ax' = cycle(ax, in)
      PROVE  Ordered(ax')
  BY <1>2, CycleOrder DEF CycleInput
<1>3. ASSUME NEW n \in Ticks, SyncOut(n)
      PROVE  Ordered(ax')
  BY <1>3 DEF SyncOut, NoSyncOut
<1> QED
  BY <1>1, <1>2, <1>3, OtherCallsQuiet, OrderKept, CommandCallsOrder DEF Next, Cycle, Line

\* QueueInOrder: if every plan succeeds, nobody calls sync_out and stop commands
\* take over, commands run in the order in which they were accepted: what waits is
\* sorted by id, behind the active command.  (A buffered stop is started only
\* after the commands before it, holds the axis, and is not in this order with
\* the stops that are submitted under its lock; behind a command that could not
\* be started the line waits, and the next one that is submitted overtakes it.)
THEOREM RunInOrder ==
  ASSUME PlansSucceed, NoSyncOut, StopsTakeOver
  PROVE  Spec => []QueueInOrder
<1>1. Init => Ordered(ax)
  <2>1. Init => ax.queue = <<>>
    BY DEF Init, AxisInit
  <2> QED
    BY <2>1 DEF Ordered, Sorted
<1>2. ASSUME Safe(ax) /\ Book(ax), Line(ax) /\ Kept(ax), Ordered(ax), [Next]_ax
      PROVE  Ordered(ax)'
  BY <1>2, NextStepOrder
<1>3. Ordered(ax) => QueueInOrder
  BY DEF Ordered, Sorted, QueueInOrder
<1> QED
  BY <1>1, <1>2, <1>3, BooksRight, LineRight, PTL DEF Spec

-----------------------------------------------------------------------------
(* Who moves the axis.                                                      *)

\* What can move the axis when no offset is superimposed.
Drives(a) == a.active \/ a.queue # <<>> \/ a.sync # "none" \/ a.streamId # 0

\* Motion, and a state that means motion, have something that drives the axis.
Driven(a) ==
    /\ Shape(a)
    /\ a.supId = 0
    /\ a.status \in {"discrete_motion", "continuous_motion", "synchronized_motion"}
          => Drives(a)
    /\ a.status = "stopping" => a.active \/ a.stopLock # 0 \/ a.sync # "none"
    /\ a.moving => Drives(a)

\* The axis rests in a state without motion.
Rests(a) ==
    /\ Shape(a)
    /\ a.supId = 0
    /\ a.status \in {"disabled", "standstill", "homing", "errorstop"}
    /\ ~a.moving

\* An axis that rests, and one with an active command, is driven as it has to be.
LEMMA RestsDriven ==
  ASSUME NEW a, Shape(a), Rests(a) \/ (a.active /\ a.supId = 0)
  PROVE  Driven(a)
  BY DEF Rests, Driven, Drives

\* abort_motion and trigger_error put the axis to rest, in the state they choose.
LEMMA AbortRests ==
  ASSUME NEW a, Shape(a)
  PROVE  /\ Rests(trigger_error(a))
         /\ \A power, status :
              status \in {"disabled", "standstill", "homing", "errorstop"} =>
                /\ Rests([abort_motion(a) EXCEPT !.status = status])
                /\ Rests([abort_motion(a) EXCEPT !.powered = power, !.status = status])
<1>1. ASSUME NEW d, Shape(d), ~d.moving, d.supId = 0
      PROVE  /\ Rests([d EXCEPT !.error = TRUE, !.status = "errorstop"])
             /\ \A power, status :
                  status \in {"disabled", "standstill", "homing", "errorstop"} =>
                    /\ Rests([d EXCEPT !.status = status])
                    /\ Rests([d EXCEPT !.powered = power, !.status = status])
  BY <1>1 DEF Rests, Shape, AxisFields
<1>2. Shape(abort_motion(a)) /\ ~abort_motion(a).moving /\ abort_motion(a).supId = 0
  BY AbortEffect
<1> DEFINE r == record_command_error(a, OwnedIds(a) \cup ({a.activeId} \ {0}))
<1>3. Shape(r)
  BY DEF record_command_error, Shape, AxisFields
<1>4. trigger_error(a) = [abort_motion(r) EXCEPT !.error = TRUE, !.status = "errorstop"]
  BY DEF trigger_error
<1> HIDE DEF r
<1>5. Shape(abort_motion(r)) /\ ~abort_motion(r).moving /\ abort_motion(r).supId = 0
  BY <1>3, AbortEffect
<1>6. Rests(trigger_error(a))
  BY <1>1, <1>4, <1>5
<1> QED
  BY <1>1, <1>2, <1>6

\* The next command of the line is started, or there is none.
LEMMA NextDriven ==
  ASSUME PlansSucceed, NEW a, Line(a), a.supId = 0, NEW n, NEW ok \in Feasible
  PROVE  LET b == start_next_queued(a, n, ok) IN
         b = a \/ (Shape(b) /\ b.active /\ b.supId = 0)
<1> DEFINE b == start_next_queued(a, n, ok)
<1>1. CASE a.queue = <<>>
  BY <1>1 DEF start_next_queued
<1>2. CASE a.queue # <<>>
  <2>1. /\ Shape(b) /\ b.supId = a.supId
        /\ b.active \/ ~(Plannable(a) /\ ok)
    BY <1>2, NextEffect DEF Line
  <2>2. ok
    BY DEF PlansSucceed
  <2> QED
    BY <2>1, <2>2 DEF Line
<1> QED
  BY <1>1, <1>2

\* However the active command ends, its successor drives the axis, or the axis
\* rests, or MC_Stop goes on holding it.
LEMMA EndsDriven ==
  ASSUME PlansSucceed, NEW a, Line(a), a.active, a.cmd.kind # "acceleration_profile",
         a.supId = 0, NEW n, NEW ok \in Feasible
  PROVE  /\ Driven(finish_active(a, n, ok))
         /\ Driven(fail_command(a, n, ok))
         /\ Driven(blend_into_next(a, n, ok))
<1>0. Shape(a) /\ a.activeId # 0
  BY DEF Line, Segments
<1>1. Driven(finish_active(a, n, ok))
  <2> DEFINE locking == a.cmd.kind = "stop" /\ a.cmd.lock
             locked == locking /\ a.stopLock = a.activeId /\ ~a.stopRelease
  <2>1. PICK b : /\ Vacated(a, b) /\ ~b.moving
                 /\ b.status = IF locked THEN "stopping"
                               ELSE IF a.cmd.homing THEN "homing" ELSE RestStatus(a)
                 /\ b.stopLock = IF locking /\ ~locked THEN 0 ELSE a.stopLock
                 /\ finish_active(a, n, ok) = IF locked THEN b ELSE start_next_queued(b, n, ok)
    BY <1>0, FinishEffect
  <2>2. Line(b) /\ b.supId = 0 /\ Shape(b)
    BY <2>1, VacatedLine DEF Vacated
  <2>3. CASE locked
    BY <1>0, <2>1, <2>2, <2>3 DEF Driven
  <2>4. CASE ~locked
    <3>1. Rests(b)
      BY <2>1, <2>2, <2>4 DEF Rests, RestStatus
    <3> QED
      BY <2>1, <2>2, <2>4, <3>1, NextDriven, RestsDriven
  <2> QED
    BY <2>3, <2>4
<1>2. Driven(fail_command(a, n, ok))
  <2>1. PICK b : /\ Vacated(a, b)
                 /\ b.status = (IF a.cmd.homing THEN "homing" ELSE RestStatus(a))
                 /\ fail_command(a, n, ok) =
                       [start_next_queued(b, n, ok) EXCEPT
                          !.moving = start_next_queued(b, n, ok).active /\ @]
    BY <1>0, FailEffect
  <2> DEFINE c == start_next_queued(b, n, ok)
             d == [c EXCEPT !.moving = c.active /\ @]
  <2>2. Line(b) /\ b.supId = 0 /\ Shape(b) /\ ~b.active
    BY <2>1, VacatedLine DEF Vacated
  <2>3. c = b \/ (Shape(c) /\ c.active /\ c.supId = 0)
    BY <2>2, NextDriven
  <2> HIDE DEF c
  <2>4. Shape(d) /\ (Rests(d) \/ (d.active /\ d.supId = 0))
    BY <2>1, <2>2, <2>3 DEF Rests, RestStatus, Shape, AxisFields
  <2> HIDE DEF d
  <2> QED
    BY <2>1, <2>4, RestsDriven DEF c, d
<1>3. Driven(blend_into_next(a, n, ok))
  <2> DEFINE b == [a EXCEPT !.lastDone = a.activeId, !.result = Ended(a, {a.activeId}, "done")]
  <2>1. SameLine(a, b) /\ b.supId = 0 /\ Shape(b)
    BY <1>0 DEF SameLine, Shape, AxisFields
  <2>2. blend_into_next(a, n, ok) = start_next_queued(b, n, ok)
    BY DEF blend_into_next
  <2> HIDE DEF b
  <2>3. Line(b) /\ b.active
    BY <2>1, LineKept DEF SameLine, Quiet
  <2> QED
    BY <2>1, <2>2, <2>3, NextDriven, RestsDriven
<1> QED
  BY <1>1, <1>2, <1>3

\* A period leaves the motion with its owner.
LEMMA CycleDriven ==
  ASSUME PlansSucceed, NEW a, Line(a), Driven(a), NEW in, in.ok \in Feasible
  PROVE  Driven(cycle(a, in))
<1>0. Shape(a) /\ a.supId = 0
  BY DEF Driven
<1>1. CASE a.status = "errorstop"
  BY <1>1 DEF cycle
<1>2. CASE a.status # "errorstop" /\ a.streamId # 0
  <2>1. cycle(a, in) = [a EXCEPT !.moving = in.m]
    BY <1>2 DEF cycle
  <2> QED
    BY <1>2, <2>1 DEF Driven, Drives, Shape, AxisFields
<1>3. CASE a.status # "errorstop" /\ a.streamId = 0 /\ SyncOwnsCycle(a)
  <2> DEFINE b == sync_cycle(a, in.outcome, in.m)
  <2>1. cycle(a, in) = b
    BY <1>3 DEF cycle
  <2>2. CASE in.outcome \notin {"wait", "approach", "engage", "fail"}
    <3>1. b = trigger_error(a)
      BY <2>2 DEF sync_cycle
    <3> QED
      BY <1>0, <2>1, <3>1, AbortRests, RestsDriven DEF Rests
  <2>3. CASE in.outcome \in {"wait", "approach", "engage"}
    <3>1. a.sync # "none"
      BY <1>3 DEF SyncOwnsCycle
    <3>2. Shape(b) /\ b.sync = a.sync /\ b.supId = 0 /\ b.status \in {a.status, "synchronized_motion"}
      BY <1>0, <2>3 DEF sync_cycle, Shape, AxisFields
    <3> QED
      BY <2>1, <3>1, <3>2 DEF Driven, Drives
  <2>4. CASE in.outcome = "fail"
    <3>1. b = fail_sync_command(a)
      BY <2>4 DEF sync_cycle
    <3>2. Rests(b)
      BY <1>0, <3>1 DEF fail_sync_command, record_command_error, RestStatus, Rests, Shape, AxisFields
    <3> QED
      BY <2>1, <3>2, RestsDriven DEF Rests
  <2> QED
    BY <2>2, <2>3, <2>4
<1>4. CASE a.status # "errorstop" /\ a.streamId = 0 /\ ~SyncOwnsCycle(a)
  <2> DEFINE d == cycle_base_motion(a, in.m, in.blend, in.n, in.ok)
  <2>1. cycle(a, in) = cycle_superimposed(d, in.m2)
    BY <1>4 DEF cycle
  <2>2. Driven(d)
    <3>1. CASE d = a
      BY <3>1
    <3>2. CASE d # a
      <4>1. a.active
        BY <1>0, <3>2, BaseForms
      <4>2. PICK t : /\ Moved(a, t)
                     /\ \/ d = t
                        \/ /\ a.cmd.kind # "acceleration_profile"
                           /\ d = finish_active(t, in.n, in.ok)
                        \/ /\ a.queue # <<>> /\ a.cmd.kind = "move_absolute"
                           /\ d = blend_into_next(t, in.n, in.ok)
        BY <1>0, <3>2, BaseForms
      <4>3. SameLine(a, t) /\ t.active /\ t.supId = 0 /\ Shape(t) /\ t.cmd = a.cmd
        BY <1>0, <4>1, <4>2 DEF Moved, SameLine, AxisFields
      <4>4. Line(t)
        BY <4>3, LineKept DEF Quiet
      <4> HIDE DEF d
      <4> QED
        BY <4>2, <4>3, <4>4, EndsDriven, RestsDriven
    <3> QED
      BY <3>1, <3>2
  <2> HIDE DEF d
  <2>3. cycle_superimposed(d, in.m2) = d
    BY <2>2 DEF cycle_superimposed, Driven
  <2> QED
    BY <2>1, <2>2, <2>3
<1> QED
  BY <1>1, <1>2, <1>3, <1>4

\* The calls that move no command.
LEMMA OtherCallsDriven ==
  ASSUME Driven(ax), Book(ax), PlansSucceed,
         \/ \E enabled \in BOOLEAN : SetPower(enabled) \/ SetPowerFeedback(enabled)
         \/ DisableDirection \/ TriggerError \/ ResetError \/ FinishHoming \/ FinishHomingNow
         \/ ReleaseStop
         \/ \E n \in Ticks : SetOverride(n)
         \/ \E kind, entry : kind # "none" /\ \E mode : Synchronize(kind, mode, entry)
         \/ (\E ok \in Feasible : StreamEngage(ok)) \/ StreamDisengage
         \/ \E rest \in BOOLEAN, n \in Ticks : HaltSuperimposed(rest, n)
         \/ \E n \in Ticks, ok \in Feasible : UpdateSuperimposed(n, ok)
  PROVE  Driven(ax')
<1>0. Shape(ax) /\ ax.supId = 0
  BY DEF Driven
<1>1. ASSUME NEW enabled \in BOOLEAN, SetPower(enabled) PROVE Driven(ax')
  BY <1>0, <1>1, AbortRests, RestsDriven DEF SetPower, set_power, Rests
<1>2. ASSUME NEW available \in BOOLEAN, SetPowerFeedback(available) PROVE Driven(ax')
  <2> DEFINE b == [ax EXCEPT !.feedback = available]
             c == [b EXCEPT !.powered = FALSE]
  <2>1. Driven(b) /\ Shape(c)
    BY <1>0 DEF Driven, Drives, Shape, AxisFields
  <2>2. ax' \in {b, trigger_error(c)}
    BY <1>2 DEF SetPowerFeedback, set_power_feedback
  <2> HIDE DEF b, c
  <2> QED
    BY <2>1, <2>2, AbortRests, RestsDriven DEF Rests
<1>3. CASE DisableDirection
  BY <1>0, <1>3, AbortRests, RestsDriven DEF DisableDirection, disable_direction, Rests
<1>4. CASE TriggerError
  BY <1>0, <1>4, AbortRests, RestsDriven DEF TriggerError, Rests
<1>5. CASE FinishHomingNow
  BY <1>0, <1>5, AbortRests, RestsDriven DEF FinishHomingNow, finish_homing_now, RestStatus, Rests
<1>6. CASE ResetError
  BY <1>0, <1>6 DEF ResetError, reset_error, RestStatus, Driven, Drives, Shape, AxisFields
<1>7. CASE FinishHoming
  BY <1>0, <1>7 DEF FinishHoming, RestStatus, Driven, Drives, Shape, AxisFields
<1>8. CASE ReleaseStop
  BY <1>0, <1>8 DEF ReleaseStop, release_stop, RestStatus, Driven, Drives, Shape, AxisFields
<1>9. ASSUME NEW n \in Ticks, SetOverride(n) PROVE Driven(ax')
  BY <1>9 DEF SetOverride, PlansSucceed
<1>10. ASSUME NEW kind, NEW entry, kind # "none", NEW mode, Synchronize(kind, mode, entry)
       PROVE  Driven(ax')
  <2> DEFINE b == IF mode = "aborting" THEN abort_motion(ax) ELSE ax
             c == NewId(b, "live")
  <2>1. ax' = [c EXCEPT !.supId = 0, !.supLeft = 0, !.supHalting = FALSE, !.supDone = 0,
                        !.result = Ended(c, {ax.supId}, "aborted"),
                        !.sync = kind, !.syncId = b.nextId, !.entry = entry,
                        !.phase = IF b.active THEN "queued" ELSE entry]
    BY <1>10 DEF Synchronize, begin_sync
  <2>2. Shape(b)
    BY <1>0, AbortEffect
  <2> HIDE DEF b
  <2>3. Shape(c)
    BY <2>2, NewIdShape
  <2> HIDE DEF c
  <2>4. Shape(ax') /\ ax'.supId = 0 /\ ax'.sync = kind
    BY <2>1, <2>3 DEF Shape, AxisFields
  <2> QED
    BY <1>10, <2>4 DEF Driven, Drives
<1>11. ASSUME NEW ok \in Feasible, StreamEngage(ok) PROVE Driven(ax')
  <2> DEFINE b == abort_motion(ax)
             c == NewId(b, "live")
  <2>1. ax' = [c EXCEPT !.moving = ax.moving, !.streamId = ax.nextId,
                        !.status = "synchronized_motion"]
    BY <1>11 DEF StreamEngage, stream_engage, PlansSucceed
  <2>2. Shape(b) /\ b.supId = 0
    BY <1>0, AbortEffect
  <2>3. ax.nextId # 0
    BY DEF Book, Waiting, Counted, Ids
  <2> HIDE DEF b
  <2>4. Shape(c) /\ c.supId = 0
    BY <2>2, NewIdShape DEF AxisFields
  <2> HIDE DEF c
  <2>5. Shape(ax') /\ ax'.supId = 0 /\ ax'.streamId = ax.nextId /\ ax'.status = "synchronized_motion"
    BY <2>1, <2>4 DEF Shape, AxisFields
  <2> QED
    BY <2>3, <2>5 DEF Driven, Drives
<1>12. CASE StreamDisengage
  <2>1. Rests(ax')
    BY <1>0, <1>12 DEF StreamDisengage, stream_disengage, RestStatus, Rests, Shape, AxisFields
  <2> QED
    BY <2>1, RestsDriven DEF Rests
<1>13. ASSUME NEW rest \in BOOLEAN, NEW n \in Ticks, HaltSuperimposed(rest, n)
       PROVE  Driven(ax')
  BY <1>0, <1>13 DEF HaltSuperimposed
<1>14. ASSUME NEW n \in Ticks, NEW ok \in Feasible, UpdateSuperimposed(n, ok)
       PROVE  Driven(ax')
  BY <1>0, <1>14 DEF UpdateSuperimposed
<1> QED
  BY <1>1, <1>2, <1>3, <1>4, <1>5, <1>6, <1>7, <1>8, <1>9, <1>10, <1>11, <1>12, <1>13, <1>14

\* The calls that move commands: the axis has an active command, or it is as it was.
LEMMA CommandCallsDriven ==
  ASSUME PlansSucceed, Line(ax), Book(ax), Driven(ax),
         \/ \E in \in Commands, n \in Ticks, ok \in Feasible : Submit(in, n, ok)
         \/ SubmitAccelerationProfile
         \/ \E inside \in BOOLEAN, n \in Ticks, ok \in Feasible : UpdateTarget(inside, n, ok)
  PROVE  Driven(ax')
<1>0. Shape(ax) /\ ax.supId = 0
  BY DEF Driven
<1>1. ASSUME NEW in \in Commands, NEW n \in Ticks, NEW ok \in Feasible, Submit(in, n, ok)
      PROVE  Driven(ax')
  <2>1. PICK c \in Command : \E live : Submitted(ax, ax', in, c, live, n, ok)
    BY <1>1, SubmitForms, CommandsPlannable
  <2>2. PICK live :
           /\ c.inside /\ Shape(live)
           /\ \A f \in AxisFields \ {"nextId", "result"} : live[f] = ax[f]
           /\ \/ ax' = [abort_motion(live) EXCEPT
                             !.active = TRUE, !.cmd = c, !.activeId = c.id,
                             !.status = "continuous_motion"]
              \/ ax' = live
              \/ ax' = start([abort_motion(live) EXCEPT !.moving = ax.moving], c, n, ok)
              \/ ~ax.active /\ ax' = start(live, c, n, ok)
              \/ ax.active /\ ax' = [live EXCEPT !.queue = Append(@, c)]
    BY <2>1 DEF Submitted
  <2>3. /\ live.supId = 0 /\ live.active = ax.active /\ live.override = ax.override
        /\ Driven(live)
    BY <1>0, <2>2 DEF Driven, Drives, AxisFields
  <2> DEFINE d == abort_motion(live)
             e == [d EXCEPT !.moving = ax.moving]
  <2>4. Shape(d) /\ d.supId = 0 /\ d.override = ax.override
    BY <2>2, <2>3, AbortEffect
  <2> HIDE DEF d
  <2>5. Shape(e) /\ e.supId = 0 /\ e.override = ax.override
    BY <2>4 DEF Shape, AxisFields
  <2> HIDE DEF e
  <2>6. ASSUME NEW b, Shape(b), b.supId = 0, b.override = ax.override
        PROVE  Driven(start(b, c, n, ok))
    <3>1. Startable(b, normalize(c), ok)
      BY <2>2, <2>6 DEF Startable, normalize, Command, PlansSucceed, Line, Plannable
    <3>2. /\ Shape(start(b, c, n, ok)) /\ start(b, c, n, ok).active
          /\ start(b, c, n, ok).supId = 0
      BY <2>6, <3>1, StartEffect
    <3> QED
      BY <3>2, RestsDriven
  <2>7. CASE ax' = [abort_motion(live) EXCEPT !.active = TRUE, !.cmd = c, !.activeId = c.id,
                                              !.status = "continuous_motion"]
    <3>1. ax' = [d EXCEPT !.active = TRUE, !.cmd = c, !.activeId = c.id,
                          !.status = "continuous_motion"]
      BY <2>7 DEF d
    <3>2. Shape(ax') /\ ax'.active /\ ax'.supId = 0
      BY <2>4, <3>1 DEF Shape, AxisFields
    <3> QED
      BY <3>2, RestsDriven
  <2>8. CASE ax' = start([abort_motion(live) EXCEPT !.moving = ax.moving], c, n, ok)
    BY <2>5, <2>6, <2>8 DEF e, d
  <2>9. CASE ~ax.active /\ ax' = start(live, c, n, ok)
    BY <2>2, <2>3, <2>6, <2>9
  <2>10. CASE ax.active /\ ax' = [live EXCEPT !.queue = Append(@, c)]
    <3>1. Shape(ax') /\ ax'.active /\ ax'.supId = 0
      BY <2>2, <2>3, <2>10 DEF Shape, AxisFields
    <3> QED
      BY <3>1, RestsDriven
  <2> QED
    BY <2>2, <2>3, <2>7, <2>8, <2>9, <2>10
<1>2. CASE SubmitAccelerationProfile
  <2> DEFINE live == NewId(ax, "live")
             e == abort_motion(live)
             segment == [NoCommand EXCEPT !.kind = "acceleration_profile"]
  <2>1. Shape(live)
    BY <1>0, NewIdShape
  <2> HIDE DEF live
  <2>2. Shape(e) /\ e.supId = 0
    BY <2>1, AbortEffect
  <2>3. ax' = [e EXCEPT !.queue = <<segment>>, !.active = TRUE, !.activeId = ax.nextId,
                        !.cmd = [segment EXCEPT !.id = ax.nextId],
                        !.status = "continuous_motion"]
    BY <1>2 DEF SubmitAccelerationProfile, submit_acceleration_profile, live
  <2> HIDE DEF e, segment
  <2>4. Shape(ax') /\ ax'.active /\ ax'.supId = 0
    BY <2>2, <2>3 DEF Shape, AxisFields
  <2> QED
    BY <2>4, RestsDriven
<1>3. ASSUME NEW inside \in BOOLEAN, NEW n \in Ticks, NEW ok \in Feasible,
             UpdateTarget(inside, n, ok)
      PROVE  Driven(ax')
  <2> DEFINE b == [ax EXCEPT !.left = n, !.holding = FALSE]
  <2>1. Driven(b)
    BY <1>0 DEF Driven, Drives, Shape, AxisFields
  <2>2. /\ ax.active /\ ax' \in {b, fail_command(ax, n, ok)}
        /\ ax.cmd.kind # "acceleration_profile"
    BY <1>3 DEF UpdateTarget, update_active_target
  <2> HIDE DEF b
  <2> QED
    BY <1>0, <2>1, <2>2, EndsDriven
<1> QED
  BY <1>1, <1>2, <1>3

\* MotionHasOwner: if every plan succeeds, nobody calls sync_out and no offset is
\* superimposed, an axis whose set point moves, or whose state means motion, has a
\* command, a synchronization or a stream that moves it, and an axis in Stopping
\* has a stop that runs or holds it.  (An offset that is halted at rest leaves the
\* axis in DiscreteMotion; an aborting command that is refused after it took over
\* leaves the state and the velocity of what it aborted; sync_out takes the id from
\* a running stop, which then finishes without its lock.)
THEOREM MotionOwned ==
  ASSUME PlansSucceed, NoSyncOut, "superimposed" \notin Calls
  PROVE  Spec => []MotionHasOwner
<1>1. Init => Driven(ax)
  <2>1. Init => Shape(ax) /\ ax.supId = 0 /\ ax.status = "disabled" /\ ~ax.moving
    BY DEF Init, AxisInit, Shape, AxisFields
  <2> QED
    BY <2>1, RestsDriven DEF Rests
<1>2. ASSUME Line(ax), Book(ax), Driven(ax), Next
      PROVE  Driven(ax')
  <2>1. ASSUME NEW mode \in Modes, GearIn(mode) \/ CamIn(mode) \/ CombineIn(mode)
        PROVE  Driven(ax')
    <3>1. \E kind, entry : kind # "none" /\ \E m : Synchronize(kind, m, entry)
      BY <2>1 DEF GearIn, CamIn, CombineIn
    <3> QED
      BY <1>2, <3>1, OtherCallsDriven
  <2>2. ASSUME NEW in \in CycleInput(ax), ax' = cycle(ax, in)
        PROVE  Driven(ax')
    BY <1>2, <2>2, CycleDriven DEF CycleInput
  <2>3. ASSUME NEW n \in Ticks, SyncOut(n) \/ SubmitSuperimposed(n)
        PROVE  Driven(ax')
    BY <2>3 DEF SyncOut, NoSyncOut, SubmitSuperimposed
  <2> QED
    BY <1>2, <2>1, <2>2, <2>3, OtherCallsDriven, CommandCallsDriven DEF Next, Cycle
<1>3. ASSUME Safe(ax) /\ Book(ax), Line(ax) /\ Kept(ax), Driven(ax), [Next]_ax
      PROVE  Driven(ax)'
  BY <1>2, <1>3
<1>4. Driven(ax) => MotionHasOwner
  BY DEF Driven, Drives, MotionHasOwner, has_standalone_motion
<1> QED
  BY <1>1, <1>3, <1>4, BooksRight, LineRight, PTL DEF Spec

-----------------------------------------------------------------------------
(* The lock of MC_Stop.                                                     *)

\* The lock holds the axis for the stop command that took it.
LockedByStop(a) ==
    /\ a.status = "stopping"
    /\ a.streamId = 0
    /\ a.active => a.activeId = a.stopLock /\ a.cmd.kind = "stop" /\ a.cmd.lock

\* No stop waits in the queue: none can take the lock from there.
NoStopWaits(a) == \A k \in DOMAIN a.queue : a.queue[k].kind # "stop"

LockHolds(a) ==
    /\ Shape(a)
    /\ a.queue \in Seq(Command)
    /\ a.sync = "none" /\ a.supId = 0
    /\ NoStopWaits(a)
    /\ a.stopLock # 0 => LockedByStop(a)

\* What the lock looks at is the same in a and b.
SameLock(a, b) ==
    /\ Shape(b)
    /\ \A f \in {"sync", "supId", "queue", "stopLock", "streamId", "active", "activeId", "cmd",
                 "status"} : b[f] = a[f]

\* The lock depends on these fields only.
LEMMA LockKept ==
  ASSUME NEW a, LockHolds(a), NEW b, SameLock(a, b)
  PROVE  LockHolds(b)
<1>1. /\ Shape(b) /\ b.sync = a.sync /\ b.supId = a.supId /\ b.queue = a.queue
      /\ b.stopLock = a.stopLock /\ b.streamId = a.streamId /\ b.active = a.active
      /\ b.activeId = a.activeId /\ b.cmd = a.cmd /\ b.status = a.status
  BY DEF SameLock
<1> QED
  BY <1>1 DEF LockHolds, NoStopWaits, LockedByStop

\* After abort_motion nothing holds the lock, whatever is set besides.
LEMMA AbortUnlocks ==
  ASSUME NEW a, Shape(a)
  PROVE  /\ LockHolds(abort_motion(a)) /\ abort_motion(a).stopLock = 0
         /\ LockHolds(trigger_error(a))
<1>1. ASSUME NEW d, Shape(d)
      PROVE  LockHolds(abort_motion(d)) /\ abort_motion(d).stopLock = 0
  <2> DEFINE b == abort_motion(d)
  <2>1. /\ Shape(b) /\ b.queue = <<>> /\ b.sync = "none" /\ b.supId = 0 /\ b.stopLock = 0
    BY <1>1, AbortEffect
  <2> HIDE DEF b
  <2>2. LockHolds(b)
    BY <2>1, Values DEF LockHolds, NoStopWaits
  <2> QED
    BY <2>1, <2>2 DEF b
<1> DEFINE r == record_command_error(a, OwnedIds(a) \cup ({a.activeId} \ {0}))
<1>2. Shape(r)
  BY DEF record_command_error, Shape, AxisFields
<1>3. trigger_error(a) = [abort_motion(r) EXCEPT !.error = TRUE, !.status = "errorstop"]
  BY DEF trigger_error
<1> HIDE DEF r
<1>4. LockHolds(abort_motion(r)) /\ abort_motion(r).stopLock = 0
  BY <1>1, <1>2
<1>5. LockHolds(trigger_error(a))
  <2> DEFINE b == abort_motion(r)
  <2>1. LockHolds(b) /\ b.stopLock = 0 /\ trigger_error(a) = [b EXCEPT !.error = TRUE, !.status = "errorstop"]
    BY <1>3, <1>4
  <2> HIDE DEF b
  <2> QED
    BY <2>1 DEF LockHolds, NoStopWaits, Shape, AxisFields
<1> QED
  BY <1>1, <1>5

\* An axis that is not locked may go to any state, and take any command.
LEMMA UnlockedFree ==
  ASSUME NEW a, LockHolds(a), a.stopLock = 0,
         NEW b, Shape(b), b.stopLock = 0, b.sync = a.sync, b.supId = a.supId, b.queue = a.queue
  PROVE  LockHolds(b)
  BY DEF LockHolds, NoStopWaits

\* A command that is no stop does not take the lock, whether it can start or not;
\* a stop that takes it is active and in Stopping.
LEMMA StartLock ==
  ASSUME NEW a, LockHolds(a), a.stopLock = 0, NEW c \in Command, NEW n, NEW ok,
         c.kind = "stop" => ~c.homing /\ a.streamId = 0
  PROVE  LockHolds(start(a, c, n, ok))
<1> DEFINE b == start(a, c, n, ok)
<1>1. /\ Shape(b) /\ b.activeId = c.id /\ b.queue = a.queue /\ b.sync = a.sync
      /\ b.streamId = a.streamId /\ b.supId = a.supId
      /\ b.stopLock = IF c.kind = "stop" /\ c.lock THEN c.id ELSE a.stopLock
      /\ c.kind = "stop" /\ ~c.homing => b.active /\ b.status = "stopping"
      /\ Startable(a, normalize(c), ok) => b.cmd = normalize(c)
  BY StartEffect DEF LockHolds
<1>2. c.kind = "stop" => /\ Startable(a, normalize(c), ok)
                         /\ normalize(c).kind = "stop" /\ normalize(c).lock = c.lock
  BY DEF Startable, normalize, Command
<1> HIDE DEF b
<1>3. CASE c.kind = "stop" /\ c.lock
  <2>1. b.status = "stopping" /\ b.cmd.kind = "stop" /\ b.cmd.lock
    BY <1>1, <1>2, <1>3
  <2> QED
    BY <1>1, <1>3, <2>1 DEF LockHolds, NoStopWaits, LockedByStop, b
<1>4. CASE ~(c.kind = "stop" /\ c.lock)
  BY <1>1, <1>4, UnlockedFree DEF b
<1> QED
  BY <1>3, <1>4

\* The next command of the queue is no stop: it leaves an unlocked axis unlocked.
LEMMA NextLock ==
  ASSUME NEW a, LockHolds(a), a.stopLock = 0, NEW n, NEW ok
  PROVE  LET b == start_next_queued(a, n, ok) IN LockHolds(b) /\ b.stopLock = 0
<1> DEFINE b == start_next_queued(a, n, ok)
           c == Head(a.queue)
<1>1. CASE a.queue = <<>>
  BY <1>1 DEF start_next_queued
<1>2. CASE a.queue # <<>>
  <2>1. c = a.queue[1] /\ 1 \in DOMAIN a.queue
    BY <1>2, TailFacts DEF LockHolds
  <2>2. c.kind # "stop"
    BY <2>1 DEF LockHolds, NoStopWaits
  <2>3. /\ Shape(b) /\ b.queue = Tail(a.queue) /\ b.sync = a.sync /\ b.supId = a.supId
        /\ b.stopLock = IF c.kind = "stop" /\ c.lock THEN c.id ELSE a.stopLock
    BY <1>2, NextEffect DEF LockHolds
  <2>4. /\ Tail(a.queue) \in Seq(Command)
        /\ \A k \in DOMAIN Tail(a.queue) :
              k + 1 \in DOMAIN a.queue /\ Tail(a.queue)[k] = a.queue[k + 1]
    BY <1>2, TailFacts DEF LockHolds
  <2> HIDE DEF b, c
  <2>5. NoStopWaits(b)
    BY <2>3, <2>4 DEF NoStopWaits, LockHolds
  <2> QED
    BY <2>2, <2>3, <2>4, <2>5 DEF LockHolds, b
<1> QED
  BY <1>1, <1>2

\* A stop that ends keeps the lock until it is released; what ends otherwise does
\* not hold it.
LEMMA EndsLock ==
  ASSUME NEW a, LockHolds(a), a.active, NEW n, NEW ok
  PROVE  /\ LockHolds(finish_active(a, n, ok))
         /\ a.cmd.kind # "stop" => /\ LockHolds(fail_command(a, n, ok))
                                   /\ LockHolds(blend_into_next(a, n, ok))
<1>0. Shape(a)
  BY DEF LockHolds
<1>1. LockHolds(finish_active(a, n, ok))
  <2> DEFINE locking == a.cmd.kind = "stop" /\ a.cmd.lock
             locked == locking /\ a.stopLock = a.activeId /\ ~a.stopRelease
  <2>1. PICK b : /\ Vacated(a, b)
                 /\ b.status = IF locked THEN "stopping"
                               ELSE IF a.cmd.homing THEN "homing" ELSE RestStatus(a)
                 /\ b.stopLock = IF locking /\ ~locked THEN 0 ELSE a.stopLock
                 /\ finish_active(a, n, ok) = IF locked THEN b ELSE start_next_queued(b, n, ok)
    BY <1>0, FinishEffect
  <2>2. /\ Shape(b) /\ ~b.active /\ b.queue = a.queue /\ b.sync = a.sync
        /\ b.supId = a.supId /\ b.streamId = a.streamId
    BY <2>1 DEF Vacated
  <2>3. CASE locked
    <3>1. b.stopLock # 0 => LockedByStop(b)
      BY <2>1, <2>2, <2>3 DEF LockHolds, LockedByStop
    <3>2. LockHolds(b)
      BY <2>2, <3>1 DEF LockHolds, NoStopWaits
    <3> QED
      BY <2>1, <2>3, <3>2
  <2>4. CASE ~locked
    <3>1. b.stopLock = 0
      BY <2>1, <2>4 DEF LockHolds, LockedByStop
    <3>2. LockHolds(b)
      BY <2>2, <3>1 DEF LockHolds, NoStopWaits
    <3> QED
      BY <2>1, <2>4, <3>1, <3>2, NextLock
  <2> QED
    BY <2>3, <2>4
<1>2. a.cmd.kind # "stop" => a.stopLock = 0
  BY DEF LockHolds, LockedByStop
<1>3. ASSUME a.cmd.kind # "stop" PROVE LockHolds(fail_command(a, n, ok))
  <2>1. PICK b : /\ Vacated(a, b) /\ b.stopLock = a.stopLock
                 /\ fail_command(a, n, ok) =
                       [start_next_queued(b, n, ok) EXCEPT
                          !.moving = start_next_queued(b, n, ok).active /\ @]
    BY <1>0, FailEffect
  <2> DEFINE c == start_next_queued(b, n, ok)
             d == [c EXCEPT !.moving = c.active /\ @]
  <2>2. LockHolds(b) /\ b.stopLock = 0
    BY <1>2, <1>3, <2>1 DEF Vacated, LockHolds, NoStopWaits
  <2>3. LockHolds(c)
    BY <2>2, NextLock
  <2> HIDE DEF c
  <2>4. SameLock(c, d)
    BY <2>3 DEF LockHolds, SameLock, Shape, AxisFields
  <2> QED
    BY <2>1, <2>3, <2>4, LockKept DEF c
<1>4. ASSUME a.cmd.kind # "stop" PROVE LockHolds(blend_into_next(a, n, ok))
  <2> DEFINE b == [a EXCEPT !.lastDone = a.activeId, !.result = Ended(a, {a.activeId}, "done")]
  <2>1. SameLock(a, b)
    BY <1>0 DEF SameLock, Shape, AxisFields
  <2>2. blend_into_next(a, n, ok) = start_next_queued(b, n, ok)
    BY DEF blend_into_next
  <2> HIDE DEF b
  <2>3. LockHolds(b) /\ b.stopLock = 0
    BY <1>2, <1>4, <2>1, LockKept DEF SameLock
  <2> QED
    BY <2>2, <2>3, NextLock
<1> QED
  BY <1>1, <1>3, <1>4

\* A period keeps the lock.
LEMMA CycleLock ==
  ASSUME NEW a, LockHolds(a), NEW in
  PROVE  LockHolds(cycle(a, in))
<1>0. Shape(a) /\ a.supId = 0 /\ ~SyncOwnsCycle(a)
  BY DEF LockHolds, SyncOwnsCycle
<1>1. CASE a.status = "errorstop"
  BY <1>1 DEF cycle
<1>2. CASE a.status # "errorstop" /\ a.streamId # 0
  <2>1. cycle(a, in) = [a EXCEPT !.moving = in.m]
    BY <1>2 DEF cycle
  <2>2. SameLock(a, cycle(a, in))
    BY <1>0, <2>1 DEF SameLock, Shape, AxisFields
  <2> QED
    BY <2>2, LockKept
<1>3. CASE a.status # "errorstop" /\ a.streamId = 0
  <2> DEFINE d == cycle_base_motion(a, in.m, in.blend, in.n, in.ok)
  <2>1. cycle(a, in) = cycle_superimposed(d, in.m2)
    BY <1>0, <1>3 DEF cycle
  <2>2. LockHolds(d)
    <3>1. CASE d = a
      BY <3>1
    <3>2. CASE d # a
      <4>1. a.active
        BY <1>0, <3>2, BaseForms
      <4>2. PICK t : /\ Moved(a, t)
                     /\ \/ d = t
                        \/ /\ a.cmd.kind # "acceleration_profile"
                           /\ d = finish_active(t, in.n, in.ok)
                        \/ /\ a.queue # <<>> /\ a.cmd.kind = "move_absolute"
                           /\ d = blend_into_next(t, in.n, in.ok)
        BY <1>0, <3>2, BaseForms
      <4>3. /\ Shape(t) /\ t.sync = a.sync /\ t.supId = a.supId /\ t.queue = a.queue
            /\ t.stopLock = a.stopLock /\ t.streamId = a.streamId /\ t.active = a.active
            /\ t.activeId = a.activeId /\ t.cmd = a.cmd
        BY <4>2 DEF Moved, AxisFields
      <4>4. a.stopLock # 0 => t.status = a.status
        <5>1. a.stopLock # 0 => a.cmd.kind = "stop"
          BY <4>1 DEF LockHolds, LockedByStop
        <5> QED
          BY <4>2, <5>1 DEF Moved
      <4>5. LockHolds(t)
        BY <4>3, <4>4 DEF LockHolds, NoStopWaits, LockedByStop
      <4> HIDE DEF d
      <4> QED
        BY <4>1, <4>2, <4>3, <4>5, EndsLock
    <3> QED
      BY <3>1, <3>2
  <2> HIDE DEF d
  <2>3. cycle_superimposed(d, in.m2) = d
    BY <2>2 DEF cycle_superimposed, LockHolds
  <2> QED
    BY <2>1, <2>2, <2>3
<1> QED
  BY <1>1, <1>2, <1>3

\* What a submitted command c comes to, whether its plan succeeds or not.  b is
\* the axis after the id was given out, live or rejected.
Outcome(b, in, c, n, ok) ==
    LET from == IF c.mode = "aborting"
                THEN [abort_motion(b) EXCEPT !.moving = b.moving] ELSE b
    IN  /\ c.kind = in.kind /\ c.mode = in.mode /\ c.homing = in.homing
        /\ \/ ax' = [abort_motion(b) EXCEPT !.active = TRUE, !.cmd = c, !.activeId = c.id,
                                            !.status = "continuous_motion"]
           \/ ax' = b
           \/ ax' = from /\ c.kind # "stop"
           \/ ax' = start(from, c, n, ok)
           \/ c.mode # "aborting" /\ ax' = [b EXCEPT !.queue = Append(@, c)]

\* A submitted command has one of these outcomes.
LEMMA SubmitOutcomes ==
  ASSUME NEW in \in Commands, NEW n \in Ticks, NEW ok \in Feasible, ax.nextId \in Id,
         Submit(in, n, ok)
  PROVE  \E c \in Command : \E r \in {"live", "rejected"} : Outcome(NewId(ax, r), in, c, n, ok)
<1> DEFINE c == [kind |-> in.kind, mode |-> in.mode, inside |-> in.inside, lock |-> in.lock,
                 homing |-> in.homing, timed |-> in.timed, id |-> ax.nextId]
<1>1. c \in Command
  BY AxisAssumption DEF Command, CommandInput, CommandKinds, Id
<1>2. c.kind = in.kind /\ c.mode = in.mode /\ c.homing = in.homing /\ c.id = ax.nextId
  OBVIOUS
<1>3. ax' = submit_impl(ax, in, n, ok).ax
  BY DEF Submit
<1> DEFINE F(b) == IF c.mode = "aborting"
                   THEN [abort_motion(b) EXCEPT !.moving = b.moving] ELSE b
<1>4. \E r \in {"live", "rejected"} :
         LET b == NewId(ax, r) IN
         \/ ax' = [abort_motion(b) EXCEPT !.active = TRUE, !.cmd = c, !.activeId = ax.nextId,
                                          !.status = "continuous_motion"]
         \/ ax' = b
         \/ ax' = F(b) /\ c.kind # "stop"
         \/ ax' = start(F(b), c, n, ok)
         \/ c.mode # "aborting" /\ ax' = [b EXCEPT !.queue = Append(@, c)]
  <2> DEFINE live == NewId(ax, "live")
             dead == NewId(ax, "rejected")
  <2>1. \/ ax' = [abort_motion(live) EXCEPT !.active = TRUE, !.cmd = c, !.activeId = ax.nextId,
                                            !.status = "continuous_motion"]
        \/ ax' = dead
        \/ ax' = F(dead) /\ c.kind # "stop"
        \/ ax' = start(F(live), c, n, ok)
        \/ ax' = start(F(dead), c, n, ok)
        \/ c.mode # "aborting" /\ ax' = [live EXCEPT !.queue = Append(@, c)]
    BY <1>3 DEF submit_impl, normalize
  <2> HIDE DEF F, c
  <2> QED
    BY <2>1
<1> HIDE DEF c
<1> QED
  BY <1>1, <1>2, <1>4 DEF Outcome

\* A submitted command respects the lock.
LEMMA SubmitLock ==
  ASSUME StopsTakeOver, StopsDoNotHome, LockHolds(ax), ax.nextId \in Id,
         NEW in \in Commands, NEW n \in Ticks, NEW ok \in Feasible, Submit(in, n, ok)
  PROVE  LockHolds(ax')
<1>0. Shape(ax) /\ ax.queue \in Seq(Command)
  BY DEF LockHolds
<1>1. PICK c \in Command : \E r \in {"live", "rejected"} : Outcome(NewId(ax, r), in, c, n, ok)
  BY SubmitOutcomes
<1> PICK r \in {"live", "rejected"} : Outcome(NewId(ax, r), in, c, n, ok)
  BY <1>1
<1>2. /\ c.kind = "stop" => c.mode = "aborting" /\ ~c.homing
      /\ ax.stopLock # 0 => c.kind = "stop"
  BY DEF Outcome, StopsTakeOver, StopsDoNotHome, Submit, submit_admissibility
<1> DEFINE b == NewId(ax, r)
           d == abort_motion(b)
           e == [d EXCEPT !.moving = b.moving]
<1>3. SameLock(ax, b)
  BY <1>0, NewIdShape DEF SameLock, AxisFields
<1>4. LockHolds(b) /\ Shape(b) /\ b.stopLock = ax.stopLock /\ b.queue = ax.queue
  BY <1>3, LockKept DEF SameLock
<1>5. LockHolds(d) /\ Shape(d) /\ d.stopLock = 0 /\ d.streamId = 0
  BY <1>4, AbortUnlocks, AbortEffect
<1>6. \/ ax' = [d EXCEPT !.active = TRUE, !.cmd = c, !.activeId = c.id,
                         !.status = "continuous_motion"]
      \/ ax' = b
      \/ ax' = (IF c.mode = "aborting" THEN e ELSE b) /\ c.kind # "stop"
      \/ ax' = start(IF c.mode = "aborting" THEN e ELSE b, c, n, ok)
      \/ c.mode # "aborting" /\ ax' = [b EXCEPT !.queue = Append(@, c)]
  BY DEF Outcome
<1> HIDE DEF d
<1>7. SameLock(d, e)
  BY <1>5 DEF SameLock, Shape, AxisFields
<1>8. LockHolds(e) /\ e.stopLock = 0 /\ e.streamId = 0
  BY <1>5, <1>7, LockKept DEF SameLock
<1> HIDE DEF b, e
<1>9. CASE ax' = [d EXCEPT !.active = TRUE, !.cmd = c, !.activeId = c.id,
                           !.status = "continuous_motion"]
  <2>1. /\ Shape(ax') /\ ax'.stopLock = 0 /\ ax'.sync = d.sync /\ ax'.supId = d.supId
        /\ ax'.queue = d.queue
    BY <1>5, <1>9 DEF Shape, AxisFields
  <2> QED
    BY <1>5, <2>1, UnlockedFree
<1>10. CASE ax' = b \/ ax' = e
  BY <1>4, <1>8, <1>10
<1>11. CASE ax' = start(e, c, n, ok)
  BY <1>2, <1>8, <1>11, StartLock
<1>12. CASE c.mode # "aborting" /\ ax' = start(b, c, n, ok)
  BY <1>2, <1>4, <1>12, StartLock
<1>13. CASE c.mode # "aborting" /\ ax' = [b EXCEPT !.queue = Append(@, c)]
  <2> DEFINE q == Append(ax.queue, c)
  <2>1. /\ q \in Seq(Command)
        /\ \A k \in DOMAIN q : q[k] = c \/ (k \in DOMAIN ax.queue /\ q[k] = ax.queue[k])
    BY <1>0
  <2>2. /\ Shape(ax') /\ ax'.queue = q /\ ax'.stopLock = b.stopLock /\ ax'.sync = b.sync
        /\ ax'.supId = b.supId
    BY <1>4, <1>13 DEF Shape, AxisFields
  <2> HIDE DEF q
  <2>3. c.kind # "stop" /\ ax'.stopLock = 0
    BY <1>2, <1>4, <1>13, <2>2
  <2>4. NoStopWaits(ax')
    BY <1>4, <2>1, <2>2, <2>3 DEF LockHolds, NoStopWaits
  <2> QED
    BY <1>4, <2>1, <2>2, <2>3, <2>4 DEF LockHolds
<1> QED
  BY <1>6, <1>9, <1>10, <1>11, <1>12, <1>13

\* The other calls.
LEMMA CallsLock ==
  ASSUME NoOtherDrivers, LockHolds(ax),
         \/ \E enabled \in BOOLEAN : SetPower(enabled) \/ SetPowerFeedback(enabled)
         \/ DisableDirection \/ TriggerError \/ ResetError \/ FinishHoming \/ FinishHomingNow
         \/ SubmitAccelerationProfile
         \/ ReleaseStop
         \/ \E inside \in BOOLEAN, n \in Ticks, ok \in Feasible : UpdateTarget(inside, n, ok)
         \/ \E n \in Ticks, ok \in Feasible : UpdateSuperimposed(n, ok)
         \/ \E n \in Ticks : SetOverride(n) \/ SyncOut(n) \/ SubmitSuperimposed(n)
         \/ \E mode \in Modes : GearIn(mode) \/ CamIn(mode) \/ CombineIn(mode)
         \/ \E ok \in Feasible : StreamEngage(ok)
         \/ StreamDisengage
         \/ \E rest \in BOOLEAN, n \in Ticks : HaltSuperimposed(rest, n)
  PROVE  LockHolds(ax')
<1>0. Shape(ax) /\ ax.sync = "none" /\ ax.supId = 0
  BY DEF LockHolds
<1> DEFINE d == abort_motion(ax)
<1>1. LockHolds(d) /\ Shape(d) /\ d.stopLock = 0
  BY <1>0, AbortUnlocks, AbortEffect
<1>2. ASSUME NEW b, LockHolds(b), b.stopLock = 0
      PROVE  \A power, status : /\ LockHolds([b EXCEPT !.powered = power, !.status = status])
                                /\ LockHolds([b EXCEPT !.status = status])
                                /\ LockHolds([b EXCEPT !.error = FALSE, !.status = status])
  BY <1>2 DEF LockHolds, NoStopWaits, Shape, AxisFields
<1>3. ASSUME NEW enabled \in BOOLEAN, SetPower(enabled) PROVE LockHolds(ax')
  <2> HIDE DEF d
  <2>1. ax' = [d EXCEPT !.powered = enabled,
                        !.status = IF enabled THEN "standstill" ELSE "disabled"]
    BY <1>3 DEF SetPower, set_power, d
  <2> QED
    BY <1>1, <1>2, <2>1
<1>4. ASSUME NEW available \in BOOLEAN, SetPowerFeedback(available) PROVE LockHolds(ax')
  <2> DEFINE b == [ax EXCEPT !.feedback = available]
             c == [b EXCEPT !.powered = FALSE]
  <2>1. SameLock(ax, b) /\ Shape(c)
    BY <1>0 DEF SameLock, Shape, AxisFields
  <2>2. ax' \in {b, trigger_error(c)}
    BY <1>4 DEF SetPowerFeedback, set_power_feedback
  <2> HIDE DEF b, c
  <2> QED
    BY <2>1, <2>2, LockKept, AbortUnlocks
<1>5. CASE DisableDirection \/ FinishHomingNow
  <2>1. PICK status : ax' = [d EXCEPT !.status = status]
    BY <1>5 DEF DisableDirection, disable_direction, FinishHomingNow, finish_homing_now
  <2> HIDE DEF d
  <2>2. LockHolds([d EXCEPT !.status = status])
    BY <1>1, <1>2
  <2> QED
    BY <2>1, <2>2
<1>6. CASE TriggerError
  BY <1>0, <1>6, AbortUnlocks DEF TriggerError
<1>7. CASE ResetError
  <2>1. ax.stopLock = 0
    BY <1>7 DEF ResetError, LockHolds, LockedByStop
  <2> QED
    BY <1>2, <1>7, <2>1 DEF ResetError, reset_error
<1>8. CASE FinishHoming
  <2>1. ax.stopLock = 0
    BY <1>8 DEF FinishHoming, LockHolds, LockedByStop
  <2> QED
    BY <1>2, <1>8, <2>1 DEF FinishHoming
<1>9. CASE SubmitAccelerationProfile
  <2> DEFINE live == NewId(ax, "live")
             e == abort_motion(live)
             segment == [NoCommand EXCEPT !.kind = "acceleration_profile"]
  <2>1. segment \in Command /\ segment.kind # "stop"
    BY Values DEF NoCommand, Command, CommandKinds
  <2>2. Shape(live)
    BY <1>0, NewIdShape
  <2> HIDE DEF live
  <2>3. LockHolds(e) /\ e.stopLock = 0
    BY <2>2, AbortUnlocks
  <2>4. ax' = [e EXCEPT !.queue = <<segment>>, !.active = TRUE, !.activeId = ax.nextId,
                        !.cmd = [segment EXCEPT !.id = ax.nextId],
                        !.status = "continuous_motion"]
    BY <1>9 DEF SubmitAccelerationProfile, submit_acceleration_profile, live
  <2> HIDE DEF e, segment
  <2>5. /\ Shape(ax') /\ ax'.queue = <<segment>> /\ ax'.stopLock = 0 /\ ax'.sync = e.sync
        /\ ax'.supId = e.supId
    BY <2>3, <2>4 DEF LockHolds, Shape, AxisFields
  <2>6. /\ ax'.queue \in Seq(Command) /\ DOMAIN ax'.queue = {1} /\ ax'.queue[1] = segment
    BY <2>1, <2>5
  <2> QED
    BY <2>1, <2>3, <2>5, <2>6 DEF LockHolds, NoStopWaits
<1>10. CASE ReleaseStop
  <2>1. CASE ax.active /\ ax.activeId = ax.stopLock
    <3>1. ax' = [ax EXCEPT !.stopRelease = TRUE]
      BY <1>10, <2>1 DEF ReleaseStop, release_stop
    <3>2. SameLock(ax, ax')
      BY <1>0, <3>1 DEF SameLock, Shape, AxisFields
    <3> QED
      BY <3>2, LockKept
  <2>2. CASE ~(ax.active /\ ax.activeId = ax.stopLock)
    BY <1>0, <1>10, <2>2 DEF ReleaseStop, release_stop, LockHolds, NoStopWaits, Shape, AxisFields
  <2> QED
    BY <2>1, <2>2
<1>11. ASSUME NEW inside \in BOOLEAN, NEW n \in Ticks, NEW ok \in Feasible,
              UpdateTarget(inside, n, ok)
       PROVE  LockHolds(ax')
  <2> DEFINE b == [ax EXCEPT !.left = n, !.holding = FALSE]
  <2>1. SameLock(ax, b)
    BY <1>0 DEF SameLock, Shape, AxisFields
  <2>2. ax.active /\ ax' \in {b, fail_command(ax, n, ok)} /\ ax.cmd.kind # "stop"
    BY <1>11 DEF UpdateTarget, update_active_target
  <2> HIDE DEF b
  <2> QED
    BY <2>1, <2>2, LockKept, EndsLock
<1>12. ASSUME NEW n \in Ticks, SetOverride(n) PROVE LockHolds(ax')
  <2>1. SameLock(ax, ax')
    BY <1>0, <1>12 DEF SetOverride, override_zero, override_positive, SameLock, Shape, AxisFields
  <2> QED
    BY <2>1, LockKept
<1>13. ASSUME NEW n \in Ticks, SyncOut(n) \/ SubmitSuperimposed(n) PROVE LockHolds(ax')
  BY <1>0, <1>13 DEF SyncOut, SubmitSuperimposed, NoOtherDrivers
<1>14. ASSUME NEW mode \in Modes, GearIn(mode) \/ CamIn(mode) \/ CombineIn(mode)
       PROVE  LockHolds(ax')
  BY <1>14 DEF GearIn, CamIn, CombineIn, NoOtherDrivers
<1>15. ASSUME NEW ok \in Feasible, StreamEngage(ok) PROVE LockHolds(ax')
  <2> DEFINE c == NewId(d, "live")
  <2>1. ax' \in {d, [c EXCEPT !.moving = ax.moving, !.streamId = ax.nextId,
                              !.status = "synchronized_motion"]}
    BY <1>15 DEF StreamEngage, stream_engage
  <2> HIDE DEF d
  <2>2. /\ Shape(c) /\ c.stopLock = 0 /\ c.sync = d.sync /\ c.supId = d.supId
        /\ c.queue = d.queue
    BY <1>1, NewIdShape DEF AxisFields
  <2> HIDE DEF c
  <2>3. ax' # d => /\ Shape(ax') /\ ax'.stopLock = 0 /\ ax'.sync = d.sync
                   /\ ax'.supId = d.supId /\ ax'.queue = d.queue
    BY <2>1, <2>2 DEF Shape, AxisFields
  <2> QED
    BY <1>1, <2>3, UnlockedFree
<1>16. CASE StreamDisengage
  <2>1. ax.stopLock = 0
    BY <1>16 DEF StreamDisengage, LockHolds, LockedByStop
  <2>2. /\ Shape(ax') /\ ax'.stopLock = 0 /\ ax'.sync = ax.sync /\ ax'.supId = ax.supId
        /\ ax'.queue = ax.queue
    BY <1>0, <1>16, <2>1 DEF StreamDisengage, stream_disengage, Shape, AxisFields
  <2> QED
    BY <2>1, <2>2, UnlockedFree
<1>17. ASSUME NEW n \in Ticks, NEW ok \in Feasible, UpdateSuperimposed(n, ok)
       PROVE  LockHolds(ax')
  BY <1>0, <1>17 DEF UpdateSuperimposed
<1>18. ASSUME NEW rest \in BOOLEAN, NEW n \in Ticks, HaltSuperimposed(rest, n)
       PROVE  LockHolds(ax')
  BY <1>0, <1>18 DEF HaltSuperimposed
<1> QED
  BY <1>3, <1>4, <1>5, <1>6, <1>7, <1>8, <1>9, <1>10, <1>11, <1>12, <1>13, <1>14, <1>15, <1>16,
     <1>17, <1>18

\* StopHoldsAxis: if stop commands take over and are not steps of homing, and
\* nobody synchronizes the axis or superimposes an offset, then while MC_Stop has
\* the lock the axis is in Stopping and nothing but the stop acts on it, whatever
\* is submitted, updated or scaled, and whether plans succeed or not.  (gear_in,
\* cam_in, combine_in and submit_superimposed do not test the lock; nor do a stream
\* and an acceleration profile, which end the stop and its lock with it.)
THEOREM StopHolds ==
  ASSUME StopsTakeOver, StopsDoNotHome, NoOtherDrivers
  PROVE  Spec => []StopHoldsAxis
<1>1. Init => LockHolds(ax)
  <2>1. Init => /\ Shape(ax) /\ ax.queue = <<>> /\ ax.sync = "none" /\ ax.supId = 0
                /\ ax.stopLock = 0
    BY DEF Init, AxisInit, Shape, AxisFields
  <2>2. <<>> \in Seq(Command) /\ DOMAIN <<>> = {}
    OBVIOUS
  <2> QED
    BY <2>1, <2>2 DEF LockHolds, NoStopWaits
<1>2. ASSUME Book(ax), LockHolds(ax), Next
      PROVE  LockHolds(ax')
  <2>1. ASSUME NEW in \in Commands, NEW n \in Ticks, NEW ok \in Feasible, Submit(in, n, ok)
        PROVE  LockHolds(ax')
    <3>1. ax.nextId \in Id
      BY <1>2, <2>1, AxisAssumption DEF Book, Waiting, Counted, Ids, Submit, Id
    <3> QED
      BY <1>2, <2>1, <3>1, SubmitLock
  <2>2. CASE Cycle
    BY <1>2, <2>2, CycleLock DEF Cycle
  <2> QED
    BY <1>2, <2>1, <2>2, CallsLock DEF Next
<1>3. ASSUME Safe(ax) /\ Book(ax), LockHolds(ax), [Next]_ax
      PROVE  LockHolds(ax)'
  BY <1>2, <1>3
<1>4. LockHolds(ax) => StopHoldsAxis
  BY DEF LockHolds, LockedByStop, StopHoldsAxis
<1> QED
  BY <1>1, <1>3, <1>4, BooksRight, PTL DEF Spec
=============================================================================
