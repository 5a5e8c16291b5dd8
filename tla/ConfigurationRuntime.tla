------------------------ MODULE ConfigurationRuntime ------------------------
(***************************************************************************)
(* core/st/configuration_runtime.h: one RESOURCE of the Structured Text    *)
(* runtime, with the part of ProcessImage and Instance that its scan uses. *)
(*                                                                         *)
(* boundary() releases the tasks that are due and applies what the host    *)
(* asked for since the last one; run() executes instructions, the open     *)
(* transaction first and then by priority.  A turn is one iteration of the *)
(* loop of run() with one instruction, so that the slices a host gives may *)
(* have any length.  The state is one record, rt; the members of           *)
(* ConfigurationRuntime change it as the code does, a set of tasks at a    *)
(* time where the code loops over tasks that do not affect each other.     *)
(*                                                                         *)
(* A located variable holds who wrote it in which release; local variables *)
(* are left out, and with them what a condition evaluates to: a "while"    *)
(* may go round again, a "check" may fail.  Forces, restored snapshots and *)
(* inputs do not occur, nor do SFC networks.                               *)
(***************************************************************************)
EXTENDS Naturals, Sequences, FiniteSets

CONSTANTS Task, Mapping, Var,
          NoTask,            \* invalid_task_owner
          Schedule,          \* tasks by priority, then order of declaration
          Mappings,          \* TaskInfo::mappings
          Program,           \* instructions of the program of a mapping
          Layout,            \* located outputs and memory of that program
          Interval,          \* interval_ticks; 0 for an event task
          Phase,             \* phase_ticks
          InstructionBudget, \* instruction_budget
          Debugged,          \* the task a debug session is attached to
          Breakpoints,       \* instructions it stops at
          TaskCalls,         \* which calls the host makes for which tasks
          Calls,             \* what else it does besides boundary and run
          MaxTick            \* bound on the boundaries

Op == {"store", "check", "while"}
TaskCallNames == {"wallclock", "reset", "restart"}
CallNames == {"resource_fault", "continue_", "step_in"}

\* The schedule names every task once, a mapping belongs to one task, a program
\* stores what it locates.
ASSUME RuntimeAssumption ==
    /\ NoTask \notin Task
    /\ Schedule \in Seq(Task)
    /\ \A t \in Task : \E i \in DOMAIN Schedule : Schedule[i] = t
    /\ \A i, j \in DOMAIN Schedule : Schedule[i] = Schedule[j] => i = j
    /\ Mappings \in [Task -> Seq(Mapping)]
    /\ \A m \in Mapping : \A t, u \in Task :
          (\E i \in DOMAIN Mappings[t] : Mappings[t][i] = m)
            /\ (\E i \in DOMAIN Mappings[u] : Mappings[u][i] = m) => t = u
    /\ Program \in [Mapping -> Seq([op : Op, var : Var])]
    /\ Layout \in [Mapping -> SUBSET Var]
    /\ \A m \in Mapping : \A i \in DOMAIN Program[m] : Program[m][i].var \in Layout[m]
    /\ Interval \in [Task -> Nat]
    /\ Phase \in [Task -> Nat]
    /\ InstructionBudget \in [Task -> Nat]
    /\ Debugged \in Task
    /\ Breakpoints \subseteq Mapping \X Nat
    /\ TaskCalls \subseteq TaskCallNames \X Task
    /\ Calls \subseteq CallNames
    /\ MaxTick \in Nat

VARIABLE rt

MappingsOf(t) == {Mappings[t][i] : i \in DOMAIN Mappings[t]}

\* Who wrote a variable, in the release of which tick; 0 is before the first.
Value == (Task \cup {NoTask}) \X (0 .. MaxTick)
InitialValue == <<NoTask, 0>>
InitialImage == [v \in Var |-> InitialValue]
NotParked == [is |-> FALSE, image |-> InitialImage, dirty |-> {}]
Nowhere == <<NoTask, 0>>  \* no instruction is skipped
Nothing == [v \in {} |-> InitialValue]

InitialTask ==
    [state |-> "idle", fault |-> "none", releases |-> 0, completed |-> 0,
     missed |-> 0, faults |-> 0, budget |-> 0, release_tick |-> 0,
     eligible_tick |-> 0, cursor |-> 1, transaction |-> FALSE, level |-> FALSE,
     wallclock |-> FALSE, reset |-> FALSE, restart |-> FALSE]

InitialInstance == [state |-> "idle", pc |-> 1, fault |-> FALSE, vars |-> InitialImage]

\* load(), and the history: what each task wrote in its release, and how many
\* of its releases the host gave up.
Init ==
    rt = [tick |-> 0,
          tasks |-> [t \in Task |-> InitialTask],
          instances |-> [m \in Mapping |-> InitialInstance],
          parked |-> [t \in Task |-> NotParked],
          owner |-> NoTask, fault |-> FALSE, pending |-> FALSE,
          image |-> InitialImage, published |-> InitialImage, open |-> FALSE,
          current_dirty |-> {}, dirty |-> {},
          stamps |-> [v \in Var |-> [stamp |-> 0, owner |-> NoTask]], conflicts |-> 0,
          mailbox |-> "none", command |-> "continue_", stopped |-> Nowhere, skip |-> Nowhere,
          wrote |-> [t \in Task |-> Nothing],
          abandoned |-> [t \in Task |-> 0]]

-----------------------------------------------------------------------------
(* Transactions (ProcessImage) and the end of a release.                    *)

\* Mutant: the working image keeps what the release wrote.
DiscardScanKept(r) == [r EXCEPT !.open = FALSE, !.owner = NoTask]

\* discard_scan: the working image is the last published one again.
DiscardScan(r) == [r EXCEPT !.image = r.published, !.open = FALSE, !.owner = NoTask]

\* discard_transaction, for the tasks of a set.
DiscardTransactions(r, S) == IF r.owner \in S THEN DiscardScan(r) ELSE r

\* Instance::abort.
AbortInstance(instance) == [instance EXCEPT !.state = "idle", !.pc = 1]

\* fault_task.
FaultedTask(task, why) ==
    [task EXCEPT !.state = "faulted", !.fault = why, !.faults = @ + 1, !.transaction = FALSE]

Fault(r, t, why) ==
    [DiscardTransactions(r, {t}) EXCEPT
        !.tasks[t] = FaultedTask(@, why),
        !.instances = [m \in Mapping |-> IF m \in MappingsOf(t) THEN AbortInstance(r.instances[m])
                                                               ELSE r.instances[m]],
        !.parked[t] = NotParked,
        !.wrote[t] = Nothing]

\* record_writes: two tasks that were released at the same tick wrote the same
\* variable.
RecordWrites(r, t) ==
    LET stamp == r.tasks[t].release_tick + 1
        conflict == \E v \in r.dirty : r.stamps[v].stamp = stamp /\ r.stamps[v].owner # t
    IN [r EXCEPT !.stamps = [v \in Var |-> IF v \in r.dirty
                                           THEN [stamp |-> stamp, owner |-> t] ELSE r.stamps[v]],
                 !.conflicts = IF conflict THEN @ + 1 ELSE @]

CommitTransaction(r) ==
    [r EXCEPT !.published = r.image, !.open = FALSE, !.owner = NoTask]

\* complete_task.
CompletedTask(task) ==
    [task EXCEPT !.state = "idle", !.budget = 0, !.completed = @ + 1, !.transaction = FALSE]

CompleteTask(r, t) ==
    LET c == IF r.tasks[t].transaction THEN CommitTransaction(RecordWrites(r, t)) ELSE r
    IN [c EXCEPT !.tasks[t] = CompletedTask(@), !.parked[t] = NotParked, !.wrote[t] = Nothing]

-----------------------------------------------------------------------------
(* boundary(): for every task, what the host asked for and then the release. *)

\* abort_resource.
AbortedTask(task) ==
    [task EXCEPT !.state = IF @ = "running" THEN "idle" ELSE @, !.transaction = FALSE]

\* apply_pending, first part: a reported overrun faults a task that runs.
WallclockTask(task) ==
    LET noted == [task EXCEPT !.wallclock = FALSE]
    IN IF task.wallclock /\ task.state = "running" THEN FaultedTask(noted, "wallclock")
                                                   ELSE noted

\* Second part: reset_task and restart_task.  The task is released from the
\* next boundary on.
ResetTask(task, tick) ==
    IF ~task.reset /\ ~task.restart THEN task
    ELSE [InitialTask EXCEPT !.releases = task.releases, !.completed = task.completed,
                            !.faults = task.faults, !.eligible_tick = tick + 1]

\* A periodic task is due at its ticks, an event task when its event rises.
Due(t, task, tick, events) ==
    IF Interval[t] > 0 THEN tick >= Phase[t] /\ (tick - Phase[t]) % Interval[t] = 0
                       ELSE t \in events /\ ~task.level

Noted(t, task, events) ==
    IF Interval[t] > 0 THEN task ELSE [task EXCEPT !.level = t \in events]

Blocked(task, tick) == task.state \in {"faulted", "paused"} \/ tick < task.eligible_tick

Released(t, task, tick) ==
    [task EXCEPT !.state = "running", !.budget = InstructionBudget[t],
                 !.releases = @ + 1, !.release_tick = tick, !.cursor = 1]

\* Mutant: a task that has not finished is released over.
ReleaseTaskOver(t, task, tick, events) ==
    IF ~Due(t, task, tick, events) \/ Blocked(task, tick) THEN Noted(t, task, events)
    ELSE Released(t, Noted(t, task, events), tick)

\* release: a task that has not finished misses its release; one without
\* programs is done at once.
ReleaseTask(t, task, tick, events) ==
    LET noted == Noted(t, task, events)
    IN IF ~Due(t, task, tick, events) \/ Blocked(task, tick) THEN noted
       ELSE IF task.state = "running" THEN [noted EXCEPT !.missed = @ + 1]
       ELSE IF Mappings[t] = <<>>
       THEN [Released(t, noted, tick) EXCEPT !.state = "idle", !.budget = 0, !.completed = @ + 1]
       ELSE Released(t, noted, tick)

BoundaryTask(r, t, tick, events) ==
    LET aborted == IF r.pending THEN AbortedTask(r.tasks[t]) ELSE r.tasks[t]
        pending == ResetTask(WallclockTask(aborted), tick)
    IN IF r.fault \/ r.pending THEN pending ELSE ReleaseTask(t, pending, tick, events)

\* Releases the boundary ends: by a fault of the resource, an overrun, a reset.
Ends(r) ==
    {t \in Task : LET task == r.tasks[t] IN
        \/ task.state = "running" /\ (r.pending \/ task.wallclock)
        \/ task.reset \/ task.restart}

\* Those of them that were open and are given up rather than faulted.
GivenUp(r) ==
    {t \in Ends(r) : \/ r.tasks[t].state = "running" /\ (r.pending \/ ~r.tasks[t].wallclock)
                     \/ r.tasks[t].state = "paused"}

\* abort_resource leaves what is parked alone.
Unparked(r) ==
    {t \in Ends(r) : \/ r.tasks[t].state = "running" /\ ~r.pending
                     \/ r.tasks[t].reset
                     \/ r.tasks[t].restart}

Restarted(r, m) == \E t \in Task : m \in MappingsOf(t) /\ r.tasks[t].restart
Resumed(r, m) == \E t \in Task : m \in MappingsOf(t) /\ r.tasks[t].reset
Aborted(r, m) == r.pending \/ \E t \in Ends(r) : m \in MappingsOf(t)

\* reset keeps the state of a program, restart loads it again.
BoundaryInstance(r, m) ==
    IF Restarted(r, m) THEN InitialInstance
    ELSE LET a == IF Aborted(r, m) THEN AbortInstance(r.instances[m]) ELSE r.instances[m]
         IN IF Resumed(r, m) THEN [a EXCEPT !.fault = FALSE] ELSE a

AtBoundary(r, events) ==
    LET tick == r.tick + 1
        d == DiscardTransactions(r, IF r.pending THEN Task ELSE Ends(r))
    IN [d EXCEPT !.tick = tick,
                 !.fault = @ \/ r.pending,
                 !.pending = FALSE,
                 !.tasks = [t \in Task |-> BoundaryTask(r, t, tick, events)],
                 !.instances = [m \in Mapping |-> BoundaryInstance(r, m)],
                 !.parked = [t \in Task |-> IF t \in Unparked(r) THEN NotParked
                                                               ELSE r.parked[t]],
                 !.wrote = [t \in Task |-> IF t \in Ends(r) THEN Nothing ELSE r.wrote[t]],
                 !.abandoned = [t \in Task |-> IF t \in GivenUp(r) THEN r.abandoned[t] + 1
                                                                  ELSE r.abandoned[t]]]

\* DebugSession::on_scheduler_boundary takes a command of the debugger; it is
\* called at the end of a boundary and at the start of every turn.
SchedulerBoundary(r) ==
    IF r.mailbox = "none" THEN r
    ELSE LET c == [r EXCEPT !.mailbox = "none"]
         IN CASE r.tasks[Debugged].state = "paused" ->
                    [c EXCEPT !.skip = r.stopped, !.command = r.mailbox,
                              !.tasks[Debugged].state = "running"]
              [] r.tasks[Debugged].state \in {"idle", "running"} ->
                    [c EXCEPT !.command = "continue_"]
              [] OTHER -> c

-----------------------------------------------------------------------------
(* run().                                                                   *)

Running(r) == {t \in Task : r.tasks[t].state = "running"}

\* next_runnable: the open transaction goes on; a transaction whose task does
\* not run any more is discarded.
Settle(r) ==
    IF r.owner # NoTask /\ r.owner \notin Running(r)
    THEN DiscardScan(r) ELSE r

\* Mutant: the schedule is read from its end.
FirstFromEnd(S) == Schedule[CHOOSE i \in DOMAIN Schedule :
                       /\ Schedule[i] \in S
                       /\ \A j \in DOMAIN Schedule : Schedule[j] \in S => i >= j]

First(S) == Schedule[CHOOSE i \in DOMAIN Schedule :
                /\ Schedule[i] \in S
                /\ \A j \in DOMAIN Schedule : Schedule[j] \in S => i <= j]

NextRunnable(r) == IF r.owner # NoTask THEN r.owner ELSE First(Running(r))

\* Mutant: all that was parked comes back, not only what was written.
OpenTransactionWhole(r, t) ==
    IF r.tasks[t].transaction THEN r
    ELSE LET b == [r EXCEPT !.open = TRUE, !.dirty = {}, !.owner = t,
                            !.tasks[t].transaction = TRUE]
         IN IF ~r.parked[t].is THEN b
            ELSE [b EXCEPT !.image = r.parked[t].image, !.dirty = r.parked[t].dirty,
                           !.parked[t] = NotParked]

\* begin_transaction, and restore_transaction of a release that was parked.
OpenTransaction(r, t) ==
    IF r.tasks[t].transaction THEN r
    ELSE LET b == [r EXCEPT !.open = TRUE, !.dirty = {}, !.owner = t,
                            !.tasks[t].transaction = TRUE]
             p == r.parked[t]
         IN IF ~p.is THEN b
            ELSE [b EXCEPT !.image = [v \in Var |-> IF v \in p.dirty THEN p.image[v] ELSE @[v]],
                           !.dirty = p.dirty,
                           !.parked[t] = NotParked]

\* Instance::begin: the located variables are read from the image.
BegunInstance(instance, m, image) ==
    [instance EXCEPT !.state = "running", !.pc = 1,
                     !.vars = [v \in Var |-> IF v \in Layout[m] THEN image[v] ELSE @[v]]]

BeginScan(r, m) ==
    IF r.instances[m].state = "running" THEN r
    ELSE [r EXCEPT !.current_dirty = {}, !.instances[m] = BegunInstance(@, m, r.image)]

CurrentMapping(r, t) == Mappings[t][r.tasks[t].cursor]

\* The state in which a turn that found a task looks at the next instruction.
Ready(r) ==
    LET t == NextRunnable(r)
    IN BeginScan(OpenTransaction(r, t), CurrentMapping(r, t))

\* on_probe: where the debugger stops, unless it has just gone on from there.
Here(r, m) == <<m, r.instances[m].pc>>
Stops(r, t, m) ==
    /\ t = Debugged
    /\ r.instances[m].pc \in DOMAIN Program[m]
    /\ r.skip # Here(r, m)
    /\ Here(r, m) \in Breakpoints \/ r.command = "step_in"

\* The task is parked: its writes so far are set aside, the image is restored.
\* Its instance stays in the middle of its scan.
Pause(r, t, m) ==
    LET p == [r EXCEPT !.parked[t] = [is |-> TRUE, image |-> r.image, dirty |-> r.dirty],
                       !.tasks[t] = [@ EXCEPT !.state = "paused", !.transaction = FALSE],
                       !.stopped = Here(r, m), !.command = "continue_"]
    IN DiscardTransactions(p, {t})

\* latch, then fault_task.
Latch(r, t, m, why) == Fault([r EXCEPT !.instances[m].fault = TRUE], t, why)

\* Mutant: nothing is charged.
ChargeNothing(r, t, m, pc) ==
    [r EXCEPT !.instances[m].pc = pc, !.skip = IF @ = Here(r, m) THEN Nowhere ELSE @]

\* One instruction is charged; a probe that was skipped once is armed again.
Charge(r, t, m, pc) ==
    [r EXCEPT !.tasks[t].budget = @ - 1, !.instances[m].pc = pc,
              !.skip = IF @ = Here(r, m) THEN Nowhere ELSE @]

\* store_var and mark_store.
Store(r, t, m, v) ==
    LET value == <<t, r.tasks[t].release_tick>>
        c == Charge(r, t, m, r.instances[m].pc + 1)
    IN [c EXCEPT !.instances[m].vars[v] = value,
                 !.current_dirty = @ \cup {v},
                 !.dirty = @ \cup {v},
                 !.wrote[t] = [w \in DOMAIN @ \cup {v} |-> IF w = v THEN value ELSE @[w]]]

\* commit_scan: what the scan of this instance wrote goes into the image.
CommitScan(r, m) ==
    [r EXCEPT !.image = [v \in Var |-> IF v \in Layout[m] /\ v \in r.current_dirty
                                      THEN r.instances[m].vars[v] ELSE @[v]]]

\* halt: the scan is committed to the image, the last one ends the release.
Halt(r, t, m) ==
    LET c == [CommitScan(Charge(r, t, m, r.instances[m].pc), m) EXCEPT
                 !.instances[m].state = "complete", !.tasks[t].cursor = @ + 1]
    IN IF c.tasks[t].cursor > Len(Mappings[t]) THEN CompleteTask(c, t) ELSE c

\* What an instruction may come to.
Outcomes(r, t, m) ==
    LET pc == r.instances[m].pc
        next == Charge(r, t, m, pc + 1)
    IN IF r.tasks[t].budget = 0 THEN {Latch(r, t, m, "budget")}
       ELSE IF Stops(r, t, m) THEN {Pause(r, t, m)}
       ELSE IF pc \notin DOMAIN Program[m] THEN {Halt(r, t, m)}
       ELSE CASE Program[m][pc].op = "store" -> {Store(r, t, m, Program[m][pc].var)}
              [] Program[m][pc].op = "check" ->
                    {next, Latch(Charge(r, t, m, pc), t, m, "runtime")}
              [] Program[m][pc].op = "while" -> {next, Charge(r, t, m, 1)}

-----------------------------------------------------------------------------
(* Actions.                                                                 *)

\* events: the event tasks whose event is sampled high.
Boundary(events) ==
    /\ rt.tick < MaxTick
    /\ rt' = SchedulerBoundary(AtBoundary(rt, events))

\* An iteration that finds something to run.
Turn ==
    /\ ~rt.fault
    /\ \E s \in {Settle(SchedulerBoundary(rt))} :
          /\ Running(s) # {}
          /\ \E r \in {Ready(s)} : rt' \in Outcomes(r, r.owner, CurrentMapping(r, r.owner))

\* An iteration that finds nothing: run() returns.
IdleTurn ==
    LET b == SchedulerBoundary(rt)
        s == IF rt.fault THEN b ELSE Settle(b)
    IN /\ rt.fault \/ Running(s) = {}
       /\ s # rt
       /\ rt' = s

\* report_wallclock_exceeded, reset_task, restart_task.
TaskCall(t) ==
    \/ /\ <<"wallclock", t>> \in TaskCalls
       /\ rt' = [rt EXCEPT !.tasks[t].wallclock = TRUE]
    \/ /\ <<"reset", t>> \in TaskCalls
       /\ rt' = [rt EXCEPT !.tasks[t].reset = TRUE]
    \/ /\ <<"restart", t>> \in TaskCalls
       /\ rt' = [rt EXCEPT !.tasks[t].restart = TRUE]

ReportResourceFault ==
    /\ "resource_fault" \in Calls
    /\ rt' = [rt EXCEPT !.pending = TRUE]

\* DebugSession::control; a step is only accepted while the task is paused.
Control(command) ==
    /\ command \in Calls
    /\ rt.tasks[Debugged].state # "faulted"
    /\ command = "step_in" => rt.tasks[Debugged].state = "paused"
    /\ rt' = [rt EXCEPT !.mailbox = command]

Next ==
    \/ \E events \in SUBSET {t \in Task : Interval[t] = 0} : Boundary(events)
    \/ Turn
    \/ IdleTurn
    \/ \E t \in Task : TaskCall(t)
    \/ ReportResourceFault
    \/ \E command \in {"continue_", "step_in"} : Control(command)

Spec == Init /\ [][Next]_rt

\* The executor keeps calling run().
FairSpec == Spec /\ WF_rt(Turn)

-----------------------------------------------------------------------------
(* Properties.                                                              *)

TaskType ==
    [state : {"idle", "running", "paused", "faulted"},
     fault : {"none", "budget", "wallclock", "runtime"},
     releases : 0 .. MaxTick, completed : 0 .. MaxTick, missed : 0 .. MaxTick,
     faults : 0 .. MaxTick, budget : Nat, release_tick : 0 .. MaxTick,
     eligible_tick : 0 .. MaxTick + 1, cursor : Nat, transaction : BOOLEAN,
     level : BOOLEAN, wallclock : BOOLEAN, reset : BOOLEAN, restart : BOOLEAN]

\* Every member has the type of its C++ declaration.
TypeOK ==
    /\ rt.tick \in 0 .. MaxTick
    /\ \A t \in Task :
          /\ rt.tasks[t] \in TaskType
          /\ rt.parked[t] \in [is : BOOLEAN, image : [Var -> Value], dirty : SUBSET Var]
          /\ rt.abandoned[t] \in 0 .. MaxTick
    /\ rt.instances \in [Mapping -> [state : {"idle", "running", "complete"}, pc : Nat,
                                    fault : BOOLEAN, vars : [Var -> Value]]]
    /\ rt.owner \in Task \cup {NoTask}
    /\ {rt.fault, rt.pending, rt.open} \subseteq BOOLEAN
    /\ {rt.image, rt.published} \subseteq [Var -> Value]
    /\ {rt.dirty, rt.current_dirty} \subseteq SUBSET Var
    /\ rt.stamps \in [Var -> [stamp : 0 .. MaxTick + 1, owner : Task \cup {NoTask}]]
    /\ rt.conflicts \in Nat
    /\ {rt.stopped, rt.skip} \subseteq (Mapping \X Nat) \cup {Nowhere}
    /\ rt.mailbox \in {"none", "continue_", "step_in"}
    /\ rt.command \in {"continue_", "step_in"}

\* There is at most one open transaction; the task that has it runs, and when
\* there is none the working image is the published one: no half of a release
\* that faulted, was parked or was reset is left for the next task to publish.
OneOpenTransaction ==
    /\ rt.open <=> rt.owner # NoTask
    /\ \A t \in Task : rt.tasks[t].transaction <=> rt.owner = t
    /\ rt.owner # NoTask => rt.tasks[rt.owner].state = "running"
    /\ rt.owner = NoTask => rt.image = rt.published

\* Every release of a task ends once: completed, faulted, given up by the host
\* or a resource fault, or it is still going on.
ReleasesAccounted ==
    \A t \in Task : LET task == rt.tasks[t] IN
        task.releases = task.completed + task.faults + rt.abandoned[t]
                          + IF task.state \in {"running", "paused"} THEN 1 ELSE 0

Atomic == INSTANCE AtomicTasks WITH published <- rt.published, writes <- rt.wrote

\* Releases are transactions: what a task wrote becomes visible as a whole when
\* its last program has ended, or never.
ImplementsAtomicTasks == Atomic!AtomicSpec

Before(u, t) == \E i, j \in DOMAIN Schedule :
                    i < j /\ Schedule[i] = u /\ Schedule[j] = t

\* Of two tasks released at the same tick the one of higher priority commits
\* first (L5-D03), unless the debugger had parked it.  A task without programs
\* completes in the boundary that releases it: what counts is the release that
\* completes.
CommitsByPriority ==
    [][\A t, u \in Task :
          /\ rt'.tasks[t].completed > rt.tasks[t].completed
          /\ Before(u, t)
          /\ rt.tasks[u].state = "running"
          /\ rt.tasks[u].release_tick = rt'.tasks[t].release_tick
          => rt.parked[u].is]_rt

\* A transaction ends: a program that loops runs out of its budget.
TransactionEnds == \A t \in Task : (rt.owner = t) ~> (rt.owner # t)
=============================================================================
