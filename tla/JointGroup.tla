----------------------------- MODULE JointGroup -----------------------------
(***************************************************************************)
(* The joint stream group (core/stream/joint_group.h) over its member      *)
(* filters (core/stream/filter.h): frame sessions that accept and activate *)
(* a whole frame at once, watch its age for all joints together and ration *)
(* the slow replans of a cycle, and legacy sessions of independent joints. *)
(*                                                                         *)
(* One thread calls everything.  The loop of cycle() over the joints is    *)
(* one action per joint, in the code's rotated order (at, slow); callers   *)
(* see the group only between cycles (at = Idle).                          *)
(*                                                                         *)
(* Abstracted: positions, speeds and gains are real numbers, so a state_   *)
(* is whether its velocity is not zero, a profile is the number of cycles  *)
(* to its end and whether it ends moving, the solvers choose among all     *)
(* profiles of up to MaxProfile cycles or fail, and a timestamp is the age *)
(* it gives its target.  Counters that only report are left out, and so is *)
(* the saturation of the cycle counters at INT64_MAX.                      *)
(***************************************************************************)
EXTENDS Integers, FiniteSets

CONSTANTS
    MaxJoints,            \* JointStreamMaxJoints
    SlowReplansPerCycle,  \* full solves a cycle may run
    Configs,              \* the configurations a session may be opened with
    Stamps,               \* ages a producer's timestamp gives a target when pushed
    MaxProfile,           \* bound: longest profile a solver returns, in cycles
    MaxAge                \* bound: ages are counted up to here

Joints == 1..MaxJoints

\* StreamFilterConfig and JointStreamGroupConfig, as far as control reads them.
Config == [kind : {"legacy", "frame"}, mode : {"upsample", "direct"}, n : Joints,
           timeout : [Joints -> Nat \ {0}], extrapolation : [Joints -> Nat],
           ramp : Nat \ {0}, quintic : BOOLEAN]

ASSUME JointGroupAssumption ==
    /\ MaxJoints \in Nat \ {0}
    /\ SlowReplansPerCycle \in Nat \ {0}
    /\ MaxProfile \in Nat \ {0}
    /\ MaxAge \in Nat
    /\ Stamps \subseteq Int
    /\ \A a \in Stamps : a <= MaxAge
    /\ Configs \subseteq Config
    /\ \A c \in Configs, i \in Joints : c.timeout[i] < MaxAge

VARIABLES
    config,   \* the open configuration, or Unconfigured
    filters,  \* filters_: one record per joint
    ready,    \* member_reset_
    direct,   \* direct_states_: the joint's commanded velocity is not zero
    mixed,    \* mixed_: torque and gain ramp of a joint
    group,    \* the frame session: see Group below
    at, slow, \* progress of the loop of cycle(), and its slow replans so far
    waits     \* history: cycles in a row that deferred the joint's replan

vars == <<config, filters, ready, direct, mixed, group, at, slow, waits>>
-----------------------------------------------------------------------------
Unconfigured == [kind |-> "unconfigured", n |-> 0]
Idle == -1
NoProfile == [left |-> 0, coasts |-> FALSE, planned |-> FALSE]
Profiles == [left : 0..MaxProfile, coasts : BOOLEAN, planned : {TRUE}]

DropoutModes == {"extrapolating", "stopping", "stopped"}

\* StreamFilter1D: age is now_ - latest_timestamp_, faulty is filter_faults_ # 0.
Filter == [started : BOOLEAN, mode : DropoutModes \cup {"idle", "tracking"},
           moving : BOOLEAN, profile : Profiles \cup {NoProfile}, dirty : BOOLEAN,
           target : BOOLEAN, age : {a \in Int : a <= MaxAge}, tick : Nat, faulty : BOOLEAN]

Mixed == [tau : {"zero", "frame", "fading"}, target : {"safe", "frame"},
          tick : Nat, duration : Nat]

\* age is local_cycle_ - last_activation_cycle_, cycled is local_cycle_ # 0.
Group == [accepted : BOOLEAN, pending : BOOLEAN, active : BOOLEAN, dropping : BOOLEAN,
          cycled : BOOLEAN, age : 0..MaxAge, start : Nat]

NewFilter == [started |-> FALSE, mode |-> "idle", moving |-> FALSE, profile |-> NoProfile,
              dirty |-> FALSE, target |-> FALSE, age |-> 0, tick |-> 0, faulty |-> FALSE]
NewMixed == [tau |-> "zero", target |-> "safe", tick |-> 0, duration |-> 0]
NewGroup == [accepted |-> FALSE, pending |-> FALSE, active |-> FALSE, dropping |-> FALSE,
             cycled |-> FALSE, age |-> 0, start |-> 0]

Members == 1..config.n
\* Mutant: the longest member timeout becomes the group's.
LongestTimeout == CHOOSE t \in {config.timeout[i] : i \in Members} :
                      \A i \in Members : t >= config.timeout[i]

GroupTimeout == CHOOSE t \in {config.timeout[i] : i \in Members} :
                    \A i \in Members : t <= config.timeout[i]
Older(age) == IF age < MaxAge THEN age + 1 ELSE age
-----------------------------------------------------------------------------
\* The filter's own transitions.

EnterStopping(f) == [f EXCEPT !.mode = "stopping", !.dirty = TRUE]

CanConfigure(f) ==
    ~f.started /\ f.mode = "idle" /\ ~f.target /\ ~f.profile.planned /\ ~f.dirty

\* reset: a moving or accelerating start begins the controlled stop at once.
ResetFilter(moving, accelerating) ==
    LET f == [NewFilter EXCEPT !.started = TRUE, !.moving = moving]
    IN  IF moving \/ accelerating THEN EnterStopping(f) ELSE f

EndedFilter(f) == [f EXCEPT !.started = FALSE, !.mode = "idle", !.target = FALSE, !.age = 0,
                            !.profile = NoProfile, !.dirty = FALSE]

\* push_target: a timestamp not after the latest one is refused.
Newer(f, age) == f.target => age < f.age
Targeted(f, age) ==
    IF Newer(f, age)
    THEN [f EXCEPT !.target = TRUE, !.age = age, !.dirty = TRUE, !.mode = "tracking"]
    ELSE f

\* The first rung of the dropout ladder for a joint that moves.
Extrapolate(f) == [f EXCEPT !.mode = "extrapolating", !.tick = 0]

\* begin_dropout_from: also drops the target, the profile and the pending replan.
DroppedFrom(f, moving, accelerating, extrapolation) ==
    LET g == [f EXCEPT !.moving = moving, !.target = FALSE, !.age = 0,
                       !.profile = NoProfile, !.dirty = FALSE]
    IN  IF extrapolation > 0 /\ moving THEN Extrapolate(g)
        ELSE IF moving \/ accelerating THEN EnterStopping(g)
        ELSE [g EXCEPT !.mode = "stopped"]

\* cycle_with_replan_budget up to the replan: the clock, the filter's own
\* watchdog, the decaying synthetic target.
Watched(f, timeout, extrapolation) ==
    IF f.mode = "tracking" /\ f.age > timeout
    THEN IF extrapolation > 0 /\ f.moving THEN Extrapolate(f) ELSE EnterStopping(f)
    ELSE f

\* Mutant: the extrapolation ends without asking for the stop.
DecayedForever(f, extrapolation) ==
    IF f.mode # "extrapolating" THEN f
    ELSE [f EXCEPT !.tick = IF @ < extrapolation THEN @ + 1 ELSE @,
                   !.dirty = @ \/ f.tick < extrapolation]

Decayed(f, extrapolation) ==
    IF f.mode # "extrapolating" THEN f
    ELSE LET g == [f EXCEPT !.tick = @ + 1, !.dirty = TRUE]
         IN  IF g.tick >= extrapolation THEN EnterStopping(g) ELSE g

Entered(f, timeout, extrapolation) ==
    LET g == [f EXCEPT !.age = IF f.target THEN Older(@) ELSE @]
    IN  Decayed(Watched(g, timeout, extrapolation), extrapolation)

\* A coasting joint that would reach its envelope is given a replan to rest.
AtEnvelope(f) ==
    {f} \cup IF f.mode = "tracking" /\ f.profile.planned /\ f.profile.left = 0 /\ f.moving
             THEN {[f EXCEPT !.dirty = TRUE]} ELSE {}

\* Profiles a solve may return: a stop ends at rest.
Solved(f) == {[f EXCEPT !.dirty = FALSE, !.profile = p] :
                 p \in {q \in Profiles : q.left > 0 /\ (f.mode = "stopping" => ~q.coasts)}}
Unsolved(f) == [f EXCEPT !.dirty = FALSE, !.faulty = TRUE]

\* replan: <<result, filter>>.  A stop aims at rest: no rendezvous, no quintic.
Replan(f, quintic, allowed) ==
    IF ~f.dirty THEN {<<"none", f>>}
    ELSE {<<"fault", Unsolved(f)>>}
         \cup (IF quintic /\ f.mode # "stopping" THEN {"fast"} \X Solved(f) ELSE {})
         \cup (IF allowed THEN {"slow"} \X (Solved(f) \cup {Unsolved(f)})
               ELSE {<<"deferred", f>>})

\* Mutant: the profile is sampled past its end.
AdvancePastEnd(f) ==
    IF ~f.profile.planned THEN {f}
    ELSE {[f EXCEPT !.profile.left = @ - 1, !.moving = m] : m \in BOOLEAN}

\* advance and the coast-drift guard: the next sample of the profile, if any; a
\* sample that overflows drops the profile.
Advance(f) ==
    IF ~f.profile.planned THEN {f}
    ELSE {[f EXCEPT !.profile = NoProfile, !.faulty = TRUE]}
         \cup (IF f.profile.left > 1
               THEN {[f EXCEPT !.profile.left = @ - 1, !.moving = m] : m \in BOOLEAN}
               ELSE {[f EXCEPT !.profile.left = 0, !.moving = f.profile.coasts]})
         \cup (IF f.profile.left = 0 /\ f.mode = "tracking"
               THEN {[f EXCEPT !.moving = f.profile.coasts, !.dirty = TRUE]} ELSE {})

Settled(f) ==
    IF f.mode = "stopping" /\ f.profile.planned /\ f.profile.left = 0 /\ ~f.moving
    THEN [f EXCEPT !.mode = "stopped"] ELSE f
-----------------------------------------------------------------------------
\* The mixed fields.

\* Mutant: the ramp to the safe gains takes as long as an ordinary one.
RampOfFrames(m, target, duration) ==
    [m EXCEPT !.target = target, !.tick = 0,
              !.duration = IF target = "safe" THEN config.ramp ELSE duration]

Ramp(m, target, duration) == [m EXCEPT !.target = target, !.tick = 0, !.duration = duration]

AdvancedMixed(m, dropping, extrapolation) ==
    [m EXCEPT !.tau = IF dropping /\ m.tick < extrapolation
                      THEN IF m.tick + 1 < extrapolation THEN "fading" ELSE "zero"
                      ELSE IF dropping /\ extrapolation = 0 THEN "zero" ELSE @,
              !.tick = IF @ < m.duration THEN @ + 1 ELSE @]

\* The published gains are those the ramp leads to.
GainsReached(m) == m.tick = m.duration
-----------------------------------------------------------------------------
Init ==
    /\ config = Unconfigured
    /\ filters = [i \in Joints |-> NewFilter]
    /\ ready = [i \in Joints |-> FALSE]
    /\ direct = [i \in Joints |-> FALSE]
    /\ mixed = [i \in Joints |-> NewMixed]
    /\ group = NewGroup
    /\ at = Idle
    /\ slow = 0
    /\ waits = [i \in Joints |-> 0]

AllReset == \A i \in Members : ready[i]
IsFrame == config.kind = "frame"

ClearFrameRuntime ==
    /\ ready' = [i \in Joints |-> FALSE]
    /\ group' = NewGroup
    /\ waits' = [i \in Joints |-> 0]

\* configure and configure_frame: all members or none, and only while every
\* filter of the old and of the new session is idle.
Configure(c) ==
    /\ at = Idle
    /\ \A i \in 1..c.n \cup Members : CanConfigure(filters[i])
    /\ config' = c
    /\ direct' = [i \in Joints |-> FALSE]
    /\ mixed' = [i \in Joints |-> NewMixed]
    /\ ClearFrameRuntime
    /\ UNCHANGED <<filters, at, slow>>

EndSession ==
    /\ at = Idle
    /\ filters' = [i \in Joints |-> IF i \in Members THEN EndedFilter(filters[i]) ELSE filters[i]]
    /\ ClearFrameRuntime
    /\ UNCHANGED <<config, direct, mixed, at, slow>>

Reset(i, moving, accelerating) ==
    /\ at = Idle
    /\ i \in Members
    /\ IsFrame => ~group.accepted /\ ~group.cycled
    /\ filters' = [filters EXCEPT ![i] = ResetFilter(moving, accelerating)]
    /\ waits' = [waits EXCEPT ![i] = 0]
    /\ IF IsFrame
       THEN /\ ready' = [ready EXCEPT ![i] = TRUE]
            /\ direct' = [direct EXCEPT ![i] = moving]
            /\ mixed' = [mixed EXCEPT ![i] = NewMixed]
       ELSE UNCHANGED <<ready, direct, mixed>>
    /\ UNCHANGED <<config, group, at, slow>>

PushTarget(i, age) ==
    /\ at = Idle
    /\ config.kind = "legacy" /\ i \in Members
    /\ filters' = [filters EXCEPT ![i] = Targeted(@, age)]
    /\ UNCHANGED <<config, ready, direct, mixed, group, at, slow, waits>>

\* push_frame of a valid frame with a newer timestamp; any other changes nothing
\* but the count of rejected frames.
PushFrame ==
    /\ at = Idle
    /\ IsFrame /\ AllReset
    /\ group' = [group EXCEPT !.accepted = TRUE, !.pending = TRUE]
    /\ UNCHANGED <<config, filters, ready, direct, mixed, at, slow, waits>>
-----------------------------------------------------------------------------
\* cycle(), up to its loop over the joints.

CycleLegacy ==
    /\ at = Idle
    /\ config.kind = "legacy"
    /\ at' = 0
    /\ slow' = 0
    /\ UNCHANGED <<config, filters, ready, direct, mixed, group, waits>>

StartCycle ==
    /\ at = Idle
    /\ IsFrame /\ AllReset
    /\ slow' = 0
    /\ UNCHANGED <<config, ready, waits>>

\* activate_pending_frame: speeds holds the joints commanded to move.
Activate(speeds) ==
    /\ StartCycle
    /\ group.pending
    /\ group' = [group EXCEPT !.pending = FALSE, !.active = TRUE, !.dropping = FALSE,
                              !.cycled = TRUE, !.age = 0]
    /\ mixed' = [i \in Joints |->
                    IF i \in Members THEN [Ramp(mixed[i], "frame", config.ramp) EXCEPT !.tau = "frame"]
                    ELSE mixed[i]]
    /\ IF config.mode = "direct"
       THEN /\ direct' = [i \in Joints |-> IF i \in Members THEN i \in speeds ELSE direct[i]]
            /\ UNCHANGED filters
            /\ at' = config.n
       ELSE /\ filters' = [i \in Joints |->
                              IF i \in Members THEN Targeted(filters[i], -1) ELSE filters[i]]
            /\ UNCHANGED direct
            /\ at' = 0

TimedOut == group.active /\ ~group.dropping /\ Older(group.age) > GroupTimeout

\* begin_group_dropout: every joint leaves its own state in the same cycle.  A
\* direct frame's acceleration is zero by then; a filter may be turning round.
Dropout(turning) ==
    /\ StartCycle
    /\ ~group.pending /\ TimedOut
    /\ turning \subseteq {i \in Members : config.mode = "upsample" /\ filters[i].profile.planned
                                            /\ ~filters[i].moving}
    /\ group' = [group EXCEPT !.dropping = TRUE, !.cycled = TRUE, !.age = Older(@)]
    /\ filters' = [i \in Joints |->
                      IF i \notin Members THEN filters[i]
                      ELSE DroppedFrom(filters[i],
                                       IF config.mode = "direct" THEN direct[i] ELSE filters[i].moving,
                                       i \in turning, config.extrapolation[i])]
    /\ mixed' = [i \in Joints |->
                    IF i \in Members THEN Ramp(mixed[i], "safe", config.extrapolation[i])
                    ELSE mixed[i]]
    /\ at' = 0
    /\ UNCHANGED direct

\* A cycle without a new frame that does not begin a dropout.
Continue ==
    /\ StartCycle
    /\ ~group.pending /\ ~TimedOut
    /\ group' = [group EXCEPT !.cycled = TRUE, !.age = IF group.active THEN Older(@) ELSE @]
    /\ at' = IF config.mode = "upsample" \/ group.dropping THEN 0 ELSE config.n
    /\ UNCHANGED <<filters, direct, mixed>>

\* One joint of cycle_upsample_filters, cycle_direct_dropout or the legacy loop.
Rationed == IsFrame /\ config.mode = "upsample"
Current == ((group.start + at) % config.n) + 1
Allowed == Rationed => slow < SlowReplansPerCycle

CycleJoint(j, result, f) ==
    /\ filters' = [filters EXCEPT ![j] = f]
    /\ slow' = IF result = "slow" THEN slow + 1 ELSE slow
    /\ waits' = [waits EXCEPT ![j] = IF result = "deferred" THEN @ + 1 ELSE 0]
    /\ direct' = IF IsFrame /\ config.mode = "direct"
                 THEN [direct EXCEPT ![j] = f.moving] ELSE direct

CycleFilter ==
    /\ at \in 0..(config.n - 1)
    /\ LET j == Current
       IN  \E f \in AtEnvelope(Entered(filters[j], config.timeout[j], config.extrapolation[j])) :
           \E r \in Replan(f, config.quintic, Allowed) :
           \E g \in Advance(r[2]) : CycleJoint(j, r[1], Settled(g))
    /\ at' = at + 1
    /\ UNCHANGED <<config, ready, mixed, group>>

\* The rest of the cycle: the rotation, the mixed fields and the snapshot.
\* Mutant: the replan order always starts at the same joint.
StartNotRotated == group.start

NextStart == (group.start + SlowReplansPerCycle) % config.n

FinishCycle ==
    /\ config.n > 0 /\ at = config.n
    /\ at' = Idle
    /\ slow' = 0
    /\ IF Rationed THEN group' = [group EXCEPT !.start = NextStart] ELSE UNCHANGED group
    /\ mixed' = [i \in Joints |->
                    IF IsFrame /\ i \in Members
                    THEN AdvancedMixed(mixed[i], group.dropping, config.extrapolation[i])
                    ELSE mixed[i]]
    /\ UNCHANGED <<config, filters, ready, direct, waits>>

Cycle ==
    \/ CycleLegacy
    \/ \E speeds \in SUBSET (IF config.kind = "frame" /\ config.mode = "direct"
                             THEN Members ELSE {}) : Activate(speeds)
    \/ \E turning \in SUBSET Joints : Dropout(turning)
    \/ Continue
    \/ CycleFilter
    \/ FinishCycle

Next ==
    \/ \E c \in Configs : Configure(c)
    \/ EndSession
    \/ \E i \in Joints, moving, accelerating \in BOOLEAN : Reset(i, moving, accelerating)
    \/ \E i \in Joints, age \in Stamps : PushTarget(i, age)
    \/ PushFrame
    \/ Cycle

Spec == Init /\ [][Next]_vars

\* The executor calls cycle() every period and cycle() returns.
FairSpec == Spec /\ WF_vars(Cycle)
-----------------------------------------------------------------------------
TypeOK ==
    /\ config \in Configs \cup {Unconfigured}
    /\ filters \in [Joints -> Filter]
    /\ ready \in [Joints -> BOOLEAN]
    /\ direct \in [Joints -> BOOLEAN]
    /\ mixed \in [Joints -> Mixed]
    /\ group \in Group
    /\ at \in Idle..MaxJoints
    /\ slow \in Nat
    /\ waits \in [Joints -> Nat]

Between == at = Idle
DroppedOut(i) == filters[i].mode \in DropoutModes

\* The watchdog of a frame session acts for the whole group: between cycles the
\* group is dropping exactly when its last frame is older than the shortest
\* timeout of its members, and then every joint is on the dropout ladder and no
\* joint otherwise - no member's own watchdog ever fires first
\* (begin_group_dropout, joint_group.h:478; the stamp of an activated target, :472).
DropsTogether ==
    Between /\ IsFrame /\ group.active =>
        /\ group.dropping <=> group.age > GroupTimeout
        /\ group.dropping => \A i \in Members : DroppedOut(i)
        /\ ~group.dropping /\ config.mode = "upsample" =>
               \A i \in Members : filters[i].mode = "tracking"

\* Fairness of the replan ration: no joint is deferred in as many cycles in a row
\* as the rotation needs to come round (cycle_upsample_filters, joint_group.h:492).
ReplannedInTime ==
    IsFrame => \A i \in Members : waits[i] * SlowReplansPerCycle < config.n

\* A joint's torque is gone and its gains are the safe ones once its own
\* extrapolation window has passed since the dropout, whatever ramp the last
\* frame had left unfinished (advance_mixed_fields, joint_group.h:516).
SafeAfterDropout ==
    Between /\ IsFrame /\ group.dropping =>
        \A i \in Members :
            group.age >= GroupTimeout + config.extrapolation[i] =>
                /\ mixed[i].tau = "zero"
                /\ mixed[i].target = "safe" /\ GainsReached(mixed[i])

\* A dropout ends: the group recovers, or its session ends, or every joint comes
\* to rest, unless the joint's solver or its samples failed (filter.h:163, :363).
ComesToRest ==
    group.dropping ~>
        (Between /\ (\/ ~group.dropping
                     \/ \A i \in Members : filters[i].mode = "stopped" \/ filters[i].faulty))

=============================================================================
