----------------------------- MODULE AxisGroup ------------------------------
(***************************************************************************)
(* core/axis/group.h: a group of axes.  A coordinated path (MoveLinear) is *)
(* sampled by the group, which writes the set points of its members; a     *)
(* direct move (MoveDirect) is run by the members themselves, and the      *)
(* group only watches them.  Both share a queue with buffered halts, and   *)
(* MC_GroupStop, Halt, WaitTime, Interrupt, Continue, SetOverride, Power   *)
(* and Reset act on whatever is going on.                                  *)
(* A profile is the number of cycles it still takes.  Look-ahead windows,  *)
(* Cartesian paths, jogging, tracking, synchronization with other axes,    *)
(* homing and the queued writes of configuration are not modelled.         *)
(***************************************************************************)
EXTENDS Integers, Sequences, FiniteSets

CONSTANTS Member,        \* the axes of the group
          MaxId,         \* bound on command ids
          QueueCapacity, \* AxisGroup::QueueCapacity
          MaxTicks,      \* bound on the cycles of a profile or a wait
          Feasible,      \* whether a plan or a member's order succeeds
          Programs       \* sets of calls; a behaviour makes those of one of them

GroupCalls == {"linear", "direct", "halt", "stop", "wait", "interrupt", "override",
               "power", "power_race", "disable", "fault", "member_motion",
               "member_power", "wait_interrupted"}

ASSUME GroupAssumption ==
    /\ Member # {} /\ IsFiniteSet(Member)
    /\ MaxId \in Nat /\ QueueCapacity \in Nat \ {0} /\ MaxTicks \in Nat \ {0}
    /\ Feasible \subseteq BOOLEAN /\ Feasible # {}
    /\ Programs \subseteq SUBSET GroupCalls

VARIABLE gr \* the group and its members

Ticks == 1 .. MaxTicks
Modes == {"aborting", "buffered"}
GroupStatus == {"disabled", "standby", "moving", "stopping", "interrupted", "errorstop"}
\* idle: there is none, or it is completed or aborted.
WaitState == {"idle", "queued", "stopping", "active"}
MemberStatus == {"disabled", "standstill", "discrete_motion", "synchronized_motion", "errorstop"}

\* What becomes of a command that passed its checks: a target beyond a member's
\* limits; a profile that cannot be planned (an override of zero); a member that
\* refuses its order (a withdrawn feed enable, the lock of MC_Stop); a start.
Outcomes == IF FALSE \in Feasible THEN {"limited", "refused", "failed", "started"}
            ELSE {"started"}

\* Why the group is in ErrorStop: a member that failed or lost its power, a
\* direct move that a member refused, MC_GroupPower; or a command that took over
\* and could not start.  It is group_error_id_, and for the properties only.
Failures == {"none", "member", "start", "power", "takeover"}

\* own: the member runs a motion of its own, for a direct move (serves) or not
\* (0).  For the properties only: early, it began while a path of the group was
\* queued; ended, the direct move it served has ended at the member itself: at its
\* target, or by a call to the member.
MemberInit == [powered |-> TRUE, status |-> "standstill", own |-> FALSE, left |-> 0,
               serves |-> 0, early |-> FALSE, ended |-> FALSE]

GroupInit(calls) ==
    [calls |-> calls, status |-> "disabled", nextId |-> 1, queue |-> <<>>,
     active |-> FALSE,          \* active_: a coordinated path is sampled
     left |-> 0,                \* its cycles to the end, or to the stop
     moves |-> FALSE,           \* its velocity is not zero
     connector |-> FALSE,       \* it has taken over a moving path
     beyond |-> FALSE,          \* the override brakes past the end of the path
     direct |-> 0,              \* direct_active_, and the id
     directStopping |-> FALSE, directDone |-> 0, directAborted |-> 0,
     override |-> TRUE,         \* the velocity factor is positive
     paused |-> FALSE,          \* override_paused_
     interrupting |-> FALSE, interruptedPlain |-> FALSE,
     waitState |-> "idle", waitLeft |-> 0,
     halt |-> 0, haltLive |-> FALSE,
     failure |-> "none",
     members |-> [a \in Member |-> MemberInit]]

-----------------------------------------------------------------------------
(* The members.                                                             *)

Rest(x) == IF x.powered THEN "standstill" ELSE "disabled"
Faulty(x) == ~x.powered \/ x.status = "errorstop"

\* AxisModel::abort_motion
Abandoned(x) == [x EXCEPT !.own = FALSE, !.left = 0, !.serves = 0, !.early = FALSE,
                         !.ended = FALSE]

\* The same by a call to the member, which the group learns of by its status.
Severed(x) == [Abandoned(x) EXCEPT !.ended = x.ended \/ x.serves # 0]

clear_synchronized(x) ==
    IF x.status = "synchronized_motion" THEN [x EXCEPT !.status = Rest(x)] ELSE x

abort_group_owned_motion(x) ==
    [Abandoned(x) EXCEPT !.status = IF x.status = "errorstop" THEN @ ELSE Rest(x)]

set_synchronized_position(x) == [x EXCEPT !.status = "synchronized_motion"]

reset_error(x) == IF x.status = "errorstop" THEN [x EXCEPT !.status = Rest(x)] ELSE x

\* withdrawn: the feed enable of the direction in which the member moves is
\* withdrawn; what the group samples for it has no direction of its own.
set_power(x, enabled, withdrawn) ==
    IF enabled # x.powered
    THEN [Severed(x) EXCEPT !.powered = enabled,
                            !.status = IF enabled THEN "standstill" ELSE "disabled"]
    ELSE IF withdrawn /\ x.own
    THEN [Severed(x) EXCEPT !.status = "standstill"]
    ELSE x

trigger_error(x) == [Severed(x) EXCEPT !.status = "errorstop"]

\* submit_group_owned: a move for the direct command id, or a halt (id 0).
Driven(x, id, n) ==
    [x EXCEPT !.own = TRUE, !.left = n, !.serves = id, !.early = FALSE,
              !.ended = FALSE, !.status = "discrete_motion"]

\* AxisModel::cycle of a member.
MemberCycle(x) ==
    CASE ~x.own -> x
      [] x.own /\ x.left > 1 -> [x EXCEPT !.left = @ - 1]
      [] OTHER -> [Abandoned(x) EXCEPT !.status = "standstill", !.ended = x.serves # 0]

members_ready(s) ==
    \A a \in Member :
        LET x == s.members[a]
        IN  ~Faulty(x) /\ (s.status = "standby" => x.status = "standstill" /\ ~x.own)

AnyFaulty(s) == \E a \in Member : Faulty(s.members[a])

-----------------------------------------------------------------------------
(* Aborting.                                                                *)

set_group_error(s, failure) == [s EXCEPT !.status = "errorstop", !.failure = failure]

WaitPending(s) == s.waitState \in {"queued", "stopping", "active"}

abort_wait(s) == IF WaitPending(s) THEN [s EXCEPT !.waitState = "idle", !.waitLeft = 0] ELSE s
abort_halt(s) == [s EXCEPT !.haltLive = FALSE, !.halt = 0]

abort_direct_members(s) ==
    [s EXCEPT !.members = [a \in Member |-> abort_group_owned_motion(@[a])]]

clear_axes_synchronized(s) ==
    [s EXCEPT !.members = [a \in Member |-> clear_synchronized(@[a])]]

QueuedIds(s, kind) == {s.queue[i].id : i \in {j \in DOMAIN s.queue : s.queue[j].kind = kind}}

abort_queued_management(s) ==
    [s EXCEPT !.haltLive = @ /\ s.halt \notin QueuedIds(s, "halt")]

Latest(ids, default) ==
    IF ids = {} THEN default ELSE CHOOSE i \in ids : \A j \in ids : j <= i

abort_motion(s) ==
    LET dropped == QueuedIds(s, "direct") \cup ({s.direct} \ {0})
    IN  clear_axes_synchronized(
            [abort_queued_management(s) EXCEPT
                !.directAborted = Latest(dropped, @),
                !.direct = 0, !.directStopping = FALSE,
                !.active = FALSE, !.left = 0, !.moves = FALSE, !.connector = FALSE,
                !.beyond = FALSE, !.paused = FALSE,
                !.interrupting = FALSE, !.interruptedPlain = FALSE,
                !.queue = <<>>])

Standby(s) == [s EXCEPT !.status = "standby", !.failure = "none"]

Accepted(s) == [ok |-> TRUE, s |-> s]
Rejected(s) == [ok |-> FALSE, s |-> s]

-----------------------------------------------------------------------------
(* Starting.  d: the cycles each member needs; a path takes the longest.    *)
(* o: the outcome.                                                          *)

Longest(d) == CHOOSE n \in {d[a] : a \in Member} : \A a \in Member : d[a] <= n

start(s, n, connector, moves, o) ==
    IF o # "started" THEN Rejected([s EXCEPT !.connector = FALSE])
    ELSE Accepted([s EXCEPT !.active = TRUE, !.left = n, !.moves = moves,
                            !.connector = connector, !.beyond = FALSE,
                            !.status = "moving", !.failure = "none"])

\* A member that refuses its order ends the others, and not the queue.
start_direct(s, id, d, o) ==
    CASE members_ready(s) /\ o = "started" ->
           Accepted([s EXCEPT !.direct = id, !.directStopping = FALSE,
                              !.status = "moving", !.failure = "none",
                              !.members = [a \in Member |-> Driven(@[a], id, d[a])]])
      [] members_ready(s) /\ o = "failed" ->
           Rejected(set_group_error(abort_direct_members(s), "start"))
      [] OTHER -> Rejected(s)

\* execute_management of a buffered halt: it also clears what follows it.
execute_halt(s, id) ==
    [s EXCEPT !.queue = <<>>, !.halt = id, !.haltLive = TRUE]

\* A command that cannot start is forgotten.
start_next_queued(s, d, o) ==
    IF s.queue = <<>> THEN s
    ELSE LET next == Head(s.queue)
             t == [s EXCEPT !.queue = Tail(@)]
             direct == start_direct(t, next.id, d, o)
         IN  CASE next.kind = "motion" -> start(t, Longest(d), FALSE, FALSE, o).s
               [] next.kind = "halt" -> execute_halt(t, next.id)
               [] OTHER -> IF direct.ok THEN direct.s
                           ELSE [direct.s EXCEPT !.directAborted = next.id]

\* Mutant: the end of a path leaves the group moving.
finish_activeKeepsMoving(s, d, o) ==
    IF s.paused THEN s
    ELSE LET t == [s EXCEPT !.active = FALSE, !.connector = FALSE]
         IN  IF s.interrupting THEN t ELSE start_next_queued(clear_axes_synchronized(t), d, o)

finish_active(s, d, o) ==
    IF s.paused THEN s
    ELSE LET t == [s EXCEPT !.active = FALSE, !.connector = FALSE]
         IN  IF s.interrupting THEN t
             ELSE start_next_queued(Standby(clear_axes_synchronized(t)), d, o)

-----------------------------------------------------------------------------
(* The calls.  Each returns whether it was accepted, and the group after it. *)
(* n or d: the profile planned in the call; o: the outcome of a start; ok:      *)
(* whether a stop can be planned and each member halts.                         *)

\* Mutant: the queue takes one command too many.
PushedUnbounded(s, id, kind) == Accepted([s EXCEPT !.queue = Append(@, [id |-> id, kind |-> kind])])

Pushed(s, id, kind) ==
    IF Len(s.queue) = QueueCapacity THEN Rejected(s)
    ELSE Accepted([s EXCEPT !.queue = Append(@, [id |-> id, kind |-> kind])])

NewId(s) == [s EXCEPT !.nextId = @ + 1]

\* A command takes over: the one before it is gone, whatever becomes of the new.
TakenOver(s) ==
    [abort_motion(s) EXCEPT !.failure = IF s.status = "moving" THEN "takeover" ELSE @]

\* Mutant: an aborting direct move leaves the path it takes over.
submit_directOverPath(s, mode, d, o) ==
    LET t == NewId(s)
        r == start_direct(abort_direct_members(abort_halt(abort_wait(t))), s.nextId, d, o)
    IN  IF s.status \notin {"standby", "moving"} \/ ~members_ready(s) THEN Rejected(s)
        ELSE IF mode = "aborting" \/ (~s.active /\ s.direct = 0) THEN r
        ELSE Pushed(t, s.nextId, "direct")

submit_direct(s, mode, d, o) ==
    LET id == s.nextId
        t == NewId(s)
        cleared == TakenOver(abort_direct_members(abort_halt(abort_wait(t))))
    IN  CASE s.status \notin {"standby", "moving"} -> Rejected(s)
          [] s.status \in {"standby", "moving"} /\ (~members_ready(s) \/ o = "limited") ->
               Rejected(t)
          [] OTHER ->
               IF mode = "aborting" THEN start_direct(cleared, id, d, o)
               ELSE IF s.active \/ s.direct # 0 \/ WaitPending(s) THEN Pushed(t, id, "direct")
               ELSE start_direct(t, id, d, o)

\* A path may take over while a halt brakes; then it may even follow a direct
\* move.  captured: it starts from the velocity of the path it takes over, and
\* onward: which leads along the new one.
submit_linear(s, mode, n, captured, onward, o) ==
    LET takeover == s.haltLive /\ s.status = "stopping" /\ mode = "aborting"
        \* an interrupted path is forgotten before the command is accepted
        s1 == IF s.status = "interrupted"
              THEN [s EXCEPT !.interruptedPlain = FALSE, !.interrupting = FALSE] ELSE s
        t == NewId(s1)
        s2 == IF takeover /\ s.direct # 0 THEN abort_direct_members(t) ELSE t
        cleared == TakenOver(abort_wait(abort_halt(s2)))
    IN  IF \/ mode = "buffered" /\ (QueuedIds(s, "halt") # {} \/ s.status = "interrupted")
           \/ s.direct # 0 /\ ~takeover
        THEN Rejected(s)
        ELSE IF \/ s.status \notin {"standby", "moving", "interrupted"} /\ ~takeover
                \/ ~members_ready(s)
        THEN Rejected(s1)
        ELSE IF o = "limited" THEN Rejected(t)
        ELSE IF mode = "aborting"
        THEN start(cleared, n, captured /\ s.active, captured /\ onward /\ s.active /\ s.moves, o)
        ELSE IF s.active \/ WaitPending(s) THEN Pushed(t, s.nextId, "motion")
        ELSE start(t, n, FALSE, FALSE, o)

\* A member that cannot be halted makes an error of the group; one that refuses
\* its halt leaves the group in standby.
stop_direct_members(s, d, ok) ==
    LET dropped == abort_motion(abort_direct_members(s))
    IN  CASE AnyFaulty(s) -> Rejected(set_group_error(dropped, "member"))
          [] ~AnyFaulty(s) /\ ~ok -> Rejected(Standby(dropped))
          [] OTHER ->
               Accepted([s EXCEPT !.directStopping = TRUE, !.status = "stopping",
                                  !.members = [a \in Member |-> Driven(@[a], 0, d[a])]])

\* MC_GroupStop
stop(s, d, ok) ==
    LET stops == s.active /\ s.moves /\ ok
    IN  CASE s.status \in {"disabled", "errorstop"} -> Rejected(s)
          [] s.status \in {"standby", "stopping", "interrupted"} -> Accepted(s)
          [] OTHER ->
               IF s.direct # 0 THEN stop_direct_members(s, d, ok)
               ELSE IF stops
               THEN Accepted([s EXCEPT !.queue = <<>>, !.left = Longest(d), !.connector = FALSE,
                                       !.status = "stopping"])
               ELSE Accepted(Standby(abort_motion([s EXCEPT !.queue = <<>>])))

\* MC_GroupHalt
halt(s, mode, d, ok) ==
    LET queued == Pushed(NewId(s), s.nextId, "halt")
        stopped == stop(abort_queued_management(abort_wait(s)), d, ok)
        Live(t, id) == [t EXCEPT !.halt = id, !.haltLive = TRUE]
    IN  CASE s.status \in {"disabled", "errorstop"} -> Rejected(s)
          [] s.status \notin {"disabled", "errorstop"} /\ mode = "buffered" ->
               IF queued.ok THEN Accepted(Live(queued.s, s.nextId)) ELSE queued
          [] OTHER -> IF stopped.ok THEN Accepted(Live(NewId(stopped.s), s.nextId))
                      ELSE stopped

\* MC_GroupWaitTime
submit_wait(s, mode, w, d, ok) ==
    LET t == [NewId(s) EXCEPT !.waitLeft = w]
        stopped == stop(t, d, ok)
    IN  IF \/ s.status \in {"disabled", "errorstop"} \/ WaitPending(s)
           \/ mode = "buffered" /\ s.queue # <<>>
        THEN Rejected(s)
        ELSE IF mode = "buffered"
        THEN Accepted([t EXCEPT !.waitState =
                           IF s.status = "standby" THEN "active" ELSE "queued"])
        ELSE IF ~stopped.ok THEN stopped
        ELSE Accepted([stopped.s EXCEPT !.waitState =
                           IF stopped.s.status = "stopping"
                           THEN "stopping" ELSE "active"])

\* MC_GroupInterrupt
interrupt(s, n, ok) ==
    IF s.status # "moving" \/ s.direct # 0 \/ s.connector THEN Rejected(s)
    ELSE IF s.active /\ s.moves /\ ok
    THEN Accepted([s EXCEPT !.left = n, !.interrupting = TRUE, !.interruptedPlain = TRUE,
                            !.status = "stopping"])
    ELSE Accepted([s EXCEPT !.interruptedPlain = s.active, !.active = FALSE,
                            !.left = 0, !.moves = FALSE, !.status = "interrupted"])

\* MC_GroupContinue.  rest: some of the path is left.
continue_motion(s, rest, d, o) ==
    LET t == [s EXCEPT !.interruptedPlain = FALSE]
        resumes == s.interruptedPlain /\ rest /\ ~s.beyond
    IN  IF s.status # "interrupted" \/ (resumes /\ ~s.override)
        THEN Rejected(s)
        ELSE IF resumes
        THEN Accepted([t EXCEPT !.active = TRUE, !.left = Longest(d), !.moves = FALSE,
                                !.interrupting = FALSE, !.status = "moving"])
        ELSE Accepted(start_next_queued(clear_axes_synchronized(Standby(t)), d, o))

\* MC_GroupSetOverride: zero brakes the path and holds it.  beyond: the brake,
\* which starts again from the current acceleration, ends past the end of the
\* path; from there nothing is left to resume.
set_group_override(s, positive, n, ok, beyond) ==
    LET t == [s EXCEPT !.override = positive]
    IN  IF s.status \in {"disabled", "errorstop"} \/ s.direct # 0 \/ s.connector
        THEN Rejected(s)
        ELSE IF \/ s.override = positive \/ s.status # "moving" \/ ~s.active
                \/ s.beyond /\ s.left = 0
        THEN Accepted(t)
        ELSE IF ~ok THEN Rejected([s EXCEPT !.paused = @ /\ ~positive])
        ELSE IF positive
        THEN Accepted([t EXCEPT !.paused = FALSE, !.beyond = FALSE, !.left = n])
        ELSE Accepted([t EXCEPT !.paused = TRUE, !.beyond = beyond /\ s.moves,
                                !.left = IF s.moves THEN n ELSE 0])

\* MC_GroupPower.  switched: the members it comes to, all unless one has no
\* feedback of its power and the call returns there.
set_group_power(s, enabled, switched) ==
    LET t == [s EXCEPT !.members =
                  [a \in Member |-> IF a \in switched THEN set_power(@[a], enabled, FALSE)
                                    ELSE @[a]]]
    IN  CASE enabled /\ \E a \in Member : s.members[a].status = "errorstop" ->
               Rejected(set_group_error(s, "power"))
          [] enabled /\ \A a \in Member : s.members[a].status # "errorstop" ->
               IF switched = Member THEN Accepted(t) ELSE Rejected(set_group_error(t, "power"))
          [] OTHER -> Accepted(IF s.status # "disabled"
                               THEN set_group_error(abort_motion(t), "member") ELSE t)

disable(s) ==
    LET t == IF s.direct = 0 THEN s
             ELSE [abort_direct_members(s) EXCEPT !.directAborted = s.direct]
    IN  [abort_motion(t) EXCEPT !.status = "disabled", !.failure = "none"]

reset(s) ==
    Standby([s EXCEPT !.members = [a \in Member |-> reset_error(@[a])]])

-----------------------------------------------------------------------------
(* cycle(), and the members' cycles after it.                               *)

cycle_wait(s, d, o) ==
    IF s.waitLeft > 1 THEN [s EXCEPT !.waitLeft = @ - 1]
    ELSE start_next_queued([s EXCEPT !.waitLeft = 0, !.waitState = "idle"], d, o)

\* Mutant: the members of a direct move go on.
cycle_faultKeepsMembers(s) == set_group_error(abort_motion(s), "member")

\* A member without power or in ErrorStop ends whatever the group does.
cycle_fault(s) ==
    set_group_error(abort_motion(IF s.direct = 0 THEN s ELSE abort_direct_members(s)),
                    "member")

\* Mutant: a direct move that was stopped is reported done.
cycle_directAlwaysDone(s, d, o) ==
    IF \E a \in Member : s.members[a].status # "standstill" THEN s
    ELSE start_next_queued(Standby([s EXCEPT !.directDone = s.direct, !.direct = 0,
                                             !.directStopping = FALSE]), d, o)

cycle_direct(s, d, o) ==
    LET ended == IF s.directStopping THEN [s EXCEPT !.directAborted = s.direct]
                 ELSE [s EXCEPT !.directDone = s.direct]
    IN  IF \E a \in Member : s.members[a].status # "standstill" THEN s
        ELSE start_next_queued(Standby([ended EXCEPT !.direct = 0, !.directStopping = FALSE]), d, o)

cycle_idle(s, d, o) ==
    LET t == IF s.status # "stopping" THEN s
             ELSE [s EXCEPT !.status = IF s.interrupting THEN "interrupted" ELSE "standby",
                            !.interrupting = FALSE]
    IN  IF t.status = "standby" THEN start_next_queued(t, d, o) ELSE t

Tick(s) == [s EXCEPT !.left = IF @ = 0 THEN 0 ELSE @ - 1, !.moves = s.left > 1,
                     !.members = [a \in Member |-> set_synchronized_position(@[a])]]

cycle_path(s, d, o) ==
    LET t == Tick(s) IN IF t.left = 0 THEN finish_active(t, d, o) ELSE t

\* The wait comes before everything: while it lasts nothing else is looked at.
cycle(s, d, o) ==
    LET dwells == \/ s.waitState = "active"
                  \/ s.waitState \in {"queued", "stopping"} /\ s.status = "standby"
        t == IF dwells THEN [s EXCEPT !.waitState = "active"] ELSE s
    IN  CASE dwells -> cycle_wait(t, d, o)
          [] ~dwells /\ s.status \in {"errorstop", "disabled", "interrupted"} -> s
          [] OTHER -> IF AnyFaulty(s) THEN cycle_fault(s)
                      ELSE IF s.direct # 0 THEN cycle_direct(s, d, o)
                      ELSE IF s.active THEN cycle_path(s, d, o)
                      ELSE cycle_idle(s, d, o)

cycle_members(s) == [s EXCEPT !.members = [a \in Member |-> MemberCycle(@[a])]]

-----------------------------------------------------------------------------
(* The actions.  Some leave out the states in which the call changes nothing. *)

\* How long the profiles take, which matters only if they are planned.
Durations == [Member -> Ticks]
DurationsIf(planned) == IF planned THEN Durations ELSE {[a \in Member |-> 1]}
TicksIf(planned) == IF planned THEN Ticks ELSE {1}

Init == \E calls \in Programs : gr = GroupInit(calls)

Enable ==
    /\ gr.status = "disabled"
    /\ \A a \in Member : gr.members[a].powered
    /\ gr' = Standby(gr)

Disable == "disable" \in gr.calls /\ gr' = disable(gr)

\* MC_GroupPower(TRUE) is not called in the scan in which a member of a group
\* that moves fails, or loses its power.
SetGroupPower ==
    /\ "power" \in gr.calls
    /\ \E enabled \in BOOLEAN, switched \in SUBSET Member :
          /\ switched # Member => enabled /\ \E a \in Member \ switched : ~gr.members[a].powered
          /\ "power_race" \notin gr.calls =>
                \/ ~enabled \/ ~AnyFaulty(gr)
                \/ gr.status \in {"disabled", "standby", "errorstop"}
          /\ gr' = set_group_power(gr, enabled, switched).s

Reset == gr.status = "errorstop" /\ gr' = reset(gr)

SubmitLinear ==
    /\ "linear" \in gr.calls /\ gr.nextId <= MaxId
    /\ \E mode \in Modes, o \in Outcomes, captured, onward \in BOOLEAN :
          /\ (onward => captured) /\ (captured => gr.active)
          /\ \E n \in TicksIf(o = "started") :
                gr' = submit_linear(gr, mode, n, captured, onward, o).s

SubmitDirect ==
    /\ "direct" \in gr.calls /\ gr.nextId <= MaxId
    /\ \E mode \in Modes, o \in Outcomes :
          \E d \in DurationsIf(o = "started") : gr' = submit_direct(gr, mode, d, o).s

Stop ==
    /\ "stop" \in gr.calls /\ gr.status = "moving"
    /\ \E ok \in Feasible : \E d \in DurationsIf(ok) : gr' = stop(gr, d, ok).s

Halt ==
    /\ "halt" \in gr.calls /\ gr.nextId <= MaxId
    /\ \E mode \in Modes, ok \in Feasible : \E d \in DurationsIf(ok) :
          gr' = halt(gr, mode, d, ok).s

SubmitWait ==
    /\ "wait" \in gr.calls /\ gr.nextId <= MaxId
    \* its end would start what is queued over a path continued meanwhile
    /\ "wait_interrupted" \notin gr.calls => gr.status # "interrupted"
    /\ \E mode \in Modes, w \in Ticks, ok \in Feasible : \E d \in DurationsIf(ok) :
          gr' = submit_wait(gr, mode, w, d, ok).s

Interrupt ==
    /\ "interrupt" \in gr.calls /\ gr.status = "moving"
    /\ \E ok \in Feasible : \E n \in TicksIf(ok) : gr' = interrupt(gr, n, ok).s

ContinueMotion ==
    /\ "interrupt" \in gr.calls /\ gr.status = "interrupted"
    /\ \E rest \in BOOLEAN, o \in Outcomes :
          \E d \in DurationsIf(o = "started") : gr' = continue_motion(gr, rest, d, o).s

SetOverride ==
    /\ "override" \in gr.calls
    /\ \E positive, beyond \in BOOLEAN, ok \in Feasible :
          /\ beyond => ok /\ ~positive
          /\ \E n \in TicksIf(ok) : gr' = set_group_override(gr, positive, n, ok, beyond).s

\* A member fails; the feedback of its power may be what is lost.
MemberFault(a) ==
    /\ "fault" \in gr.calls
    /\ \E powered \in BOOLEAN :
          /\ powered => gr.members[a].powered
          /\ gr' = [gr EXCEPT !.members[a] =
                        [trigger_error(@) EXCEPT !.powered = powered]]

\* MC_Reset and MC_Power of a member.  Its group does not keep them from it.
MemberReset(a) ==
    /\ "fault" \in gr.calls /\ gr.members[a].status = "errorstop"
    /\ gr' = [gr EXCEPT !.members[a] = reset_error(@)]

MemberPower(a) ==
    /\ "member_power" \in gr.calls
    /\ \E enabled, withdrawn \in BOOLEAN :
          /\ enabled => gr.members[a].status # "errorstop"
          /\ withdrawn => gr.members[a].own
          /\ gr' = [gr EXCEPT !.members[a] = set_power(@, enabled, withdrawn)]

\* A member moves on its own while its group stands by (KB-068), be a path of
\* the group queued or not.
MemberMoves(a) ==
    /\ "member_motion" \in gr.calls
    /\ gr.status = "standby"
    /\ ~Faulty(gr.members[a]) /\ ~gr.members[a].own
    /\ \E n \in Ticks :
          gr' = [gr EXCEPT !.members[a] =
                    [Driven(@, 0, n) EXCEPT !.early = QueuedIds(gr, "motion") # {}]]

\* What is planned in a cycle is what was queued.
Cycle ==
    \E o \in IF gr.queue = <<>> THEN {"started"} ELSE Outcomes :
    \E d \in DurationsIf(gr.queue # <<>> /\ o = "started") :
        gr' = cycle_members(cycle(gr, d, o))

Next ==
    \/ Enable \/ Disable \/ SetGroupPower \/ Reset
    \/ SubmitLinear \/ SubmitDirect \/ Stop \/ Halt \/ SubmitWait
    \/ Interrupt \/ ContinueMotion \/ SetOverride
    \/ \E a \in Member : MemberFault(a) \/ MemberReset(a) \/ MemberPower(a) \/ MemberMoves(a)
    \/ Cycle

Spec == Init /\ [][Next]_gr

\* The cyclic task runs for ever.
FairSpec == Spec /\ WF_gr(Cycle)

-----------------------------------------------------------------------------
(* Properties.                                                              *)

\* A command in the queue, and what a member and the group are made of.
Command == [id : 1 .. MaxId, kind : {"motion", "direct", "halt"}]

MemberRecord ==
    [powered : BOOLEAN, status : MemberStatus, own : BOOLEAN, left : 0 .. MaxTicks,
     serves : 0 .. MaxId, early : BOOLEAN, ended : BOOLEAN]

GroupFields ==
    {"status", "nextId", "queue", "active", "left", "moves", "connector", "beyond",
     "direct", "directStopping", "directDone", "directAborted", "override", "paused",
     "interrupting", "interruptedPlain", "waitState", "waitLeft", "halt", "haltLive",
     "failure", "calls", "members"}

GroupTypes(s) ==
    /\ DOMAIN s = GroupFields
    /\ s.calls \in Programs
    /\ s.status \in GroupStatus
    /\ s.nextId \in 1 .. MaxId + 1
    /\ s.queue \in Seq(Command)
    /\ s.active \in BOOLEAN
    /\ s.left \in 0 .. MaxTicks
    /\ s.moves \in BOOLEAN
    /\ s.connector \in BOOLEAN
    /\ s.beyond \in BOOLEAN
    /\ s.direct \in 0 .. MaxId
    /\ s.directStopping \in BOOLEAN
    /\ s.directDone \in 0 .. MaxId
    /\ s.directAborted \in 0 .. MaxId
    /\ s.override \in BOOLEAN
    /\ s.paused \in BOOLEAN
    /\ s.interrupting \in BOOLEAN
    /\ s.interruptedPlain \in BOOLEAN
    /\ s.waitState \in WaitState
    /\ s.waitLeft \in 0 .. MaxTicks
    /\ s.halt \in 0 .. MaxId
    /\ s.haltLive \in BOOLEAN
    /\ s.failure \in Failures
    /\ s.members \in [Member -> MemberRecord]

\* Every field has its type, and the queue its capacity.
GroupTypeOK == GroupTypes(gr) /\ Len(gr.queue) <= QueueCapacity

\* One writer of the set points (KB-068): while the group samples a path no
\* member runs a motion of its own, save one that began while the path was
\* queued (start() does not look at the members); and a member that serves a
\* direct move serves the one the group watches.
OneWriter ==
    /\ ~(gr.active /\ gr.direct # 0)
    /\ gr.active => \A a \in Member : gr.members[a].own => gr.members[a].early
    /\ \A a \in Member : gr.members[a].serves # 0 => gr.direct = gr.members[a].serves

\* A direct move is reported done only when every member has reached its target
\* (a stop, a fault or a takeover in between makes it aborted), or was ended on
\* the way by a call to itself that the group takes for its arrival; and no move
\* is reported both.
DirectReportsTrue ==
    [][/\ gr'.directDone # gr.directDone =>
             gr'.directDone = gr.direct /\ \A a \in Member : gr.members[a].ended
       /\ gr'.directAborted # 0 => gr'.directAborted # gr'.directDone]_gr

\* A group in ErrorStop has given up its path: no member goes on with it, and a
\* reset resumes nothing (plcopen-motion-part4-linear-matrix.md:67).
ErrorStopDropsPath ==
    gr.status = "errorstop" =>
        /\ ~gr.active /\ gr.direct = 0 /\ gr.queue = <<>>
        /\ \A a \in Member : gr.members[a].serves = 0

\* What the code keeps of it: no path, no direct move and no member that goes on
\* with one in ErrorStop; what was queued is dropped with them when a member
\* failed, and kept when a member refused its order or MC_GroupPower failed.
ErrorEndsMotion ==
    gr.status = "errorstop" =>
        /\ ~gr.active /\ gr.direct = 0
        /\ \A a \in Member : gr.members[a].serves = 0
        /\ gr.failure = "member" => gr.queue = <<>>

\* A takeover that could not start has left the group moving, with nothing to move.
Stranded == gr.status = "moving" /\ ~gr.active /\ gr.direct = 0 /\ gr.failure = "takeover"

\* A group does not move for ever, whatever is called and whichever member
\* fails: it comes to rest, is interrupted or in ErrorStop again and again,
\* unless a zero override holds its path, or a refused takeover has stranded it,
\* at rest under the status of a motion; and these do not hold it either while a
\* member is out of order.
GroupComesToRest ==
    LET Rests == gr.status \notin {"moving", "stopping"}
    IN  /\ []<>(Rests \/ gr.paused \/ Stranded)
        /\ <>[]AnyFaulty(gr) => []<>Rests
=============================================================================
