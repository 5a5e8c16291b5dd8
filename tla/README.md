# TLA+ verification of the plcopen motion core

`src/core` is a header-only C++17 motion-control core: PLCopen Part 1 axes and
function blocks, Part 4 axis groups, a Structured Text compiler and VM, and the
real-time plumbing that connects a planning thread to a real-time thread or to
another process.  This directory models the parts whose correctness depends on
the *order* of things (threads, cycles, calls, faults), checks them with TLC and
proves the most important facts with TLAPS.

## 1. Inventory

| Component | Source (`src/core/...`) | State it keeps | Operations | What makes it correct |
|---|---|---|---|---|
| SPSC queue | `rt/spsc_queue.h` | slots, `head_`, `tail_` | `push`, `pop` | bounded FIFO under every interleaving; no slot is read while it is written |
| IPC ring | `rt/ipc_channel.h` `IpcSpscRing` | slots, indices, two owner latches | `claim_*`, `push`, `pop` | the same FIFO, for the claimed owner only, one claim per mapping |
| IPC double buffer | `rt/ipc_channel.h` `IpcDoubleBuffer` | two stamped slots, `pending_state_`, `published_state_` | `begin_publish`, `write_pending`, `commit_publish`, `publish`, `read` | a reader gets whole versions, never older than one it had; a writer that dies leaves the last version readable |
| IPC transport | `adapters/ipc_transport.h` | region state, last error, command ring, feedback buffer | `initialize`, `attach`, `transition`, `set_error`, encode/decode | life cycle only moves forward; whole-frame acceptance |
| Axis | `axis/state.h` `AxisModel` | PLCopen state, active command, command queue, stop lock, power, error, sync/stream/superimposed/management state | some 60 calls plus `cycle()` | one owner of the motion, every command ends in exactly one result, no motion without power or in ErrorStop, MC_Stop locks the axis |
| Axis groups | `axis/group*.h` | status, sampled path, direct move, queue of paths, direct moves and halts, wait, halt, override, interruption, members | `submit_linear`, `submit_direct`, `halt`, `stop`, `submit_wait`, `interrupt`, `continue_motion`, `set_group_override`, power, enable/disable, `reset`, `cycle` | one writer of each set point; a direct move is done only where it was to go; one member's error stops them all; the group comes to rest |
| Function blocks | `fb/*.h` | edge latches, observed command id | `call(...)` per FB | Done/Busy/Error/CommandAborted are exclusive and truthful |
| Joint group and stream filters | `stream/joint_group.h`, `stream/filter.h` | per joint: mode, profile, target and its age; for the group: pending frame, age, dropout, start of the replan order | `configure*`, `end_session`, `reset`, `push_target`, `push_frame`, `cycle` | one watchdog for all joints; a fair ration of replans; torque and gains safe in their window; a dropout ends at rest |
| Process image channels | `st/process_image.h` `ByteChannel` | three slots, `published` | publish, snapshot, consume, discard | a slot has one user; reads are whole and fresh; nobody waits for ever |
| ST configuration runtime | `st/configuration_runtime.h` | per task: state, budget, releases, faults, pending host calls; the open transaction, parked transactions, write stamps | `boundary`, `run`, `report_*`, `reset_task`, `restart_task` | a release is a transaction; priorities are kept; every release ends once; a loop ends by its budget |
| ST virtual machine and debugger | `st/vm.h`, `st/debug.h` | instance state, program counter, fault latch; breakpoints, stop, mailbox | `begin`, `resume`, `abort`; `control`, `on_probe`, `on_scheduler_boundary` | a stop and a step change nothing the program computes |
| ST compiler, bindings | `st/*.h` | none after a compilation | compile | a translation of text |
| CiA 402 adapter | `adapters/cia402.h` | drive state | 11 events | state machine of the drive profile |
| Feetech bus | `adapters/feetech.h` | parser state, servo table, feedback ages | build/consume/feedback cycle | resynchronisation, stale feedback is reported, wrap and sign conversions |
| Trajectory math | `otg`, `geom`, `plan`, `exec`, `kin`, `dyn` | none (pure numeric) | solvers | real arithmetic, out of TLC's reach |
| Legacy core | `src/src` | frozen C++ tree | - | superseded by `core`, frozen |

What can go wrong in them that a test would hardly reach is listed, at its line, under
`hazards` in `PROJECT.json`, with the properties that would notice.

## 2. The modules

| Module | Models | State | Actions |
|---|---|---|---|
| `SpscQueue` | `rt/spsc_queue.h` | `data`, `head`, `tail` are the members; `headView`, `tailView` what an acquire load of the other side's index may return; `prod`, `cons` where each thread is in its call | `push` and `pop` broken at every access to shared memory; the views catch up in steps of their own |
| `BoundedFifo` | what such a queue promises | the elements in flight, the last element delivered | enqueue, dequeue |
| `IpcDoubleBuffer` | `rt/ipc_channel.h`, `IpcDoubleBuffer` | the two state words, the stamps, the payload words; where each process is in `publish` and the reader in `read` | claim, each access of `begin_publish`, `write_pending`, `commit_publish` and `read`, the death of a process |
| `LatestValue` | what such a buffer promises | the latest version, the last read | publish, read |
| `AxisModel` | `axis/state.h` | one record `ax`, whose fields are the members of the class | one per public call, and `Cycle` |
| `AxisFunctionBlocks` | `fb/motion.h` composed with `AxisModel` | `fb[i]`: the outputs and the latches of block `i`; `scan`: whose turn it is | a call of the next block, a cycle of the axis, power/error/reset between any two calls |
| `AxisGroup` | `axis/group.h` and `group_direct_path_impl.h`, with what a member (`axis/state.h`) does for its group | one record `gr`: the group's members, and its axes as records of what the group sees of them | one per public call, a member's failure, reset, power or own motion, and `Cycle` with the members' cycles after it |
| `JointGroup` | `stream/joint_group.h` over `stream/filter.h` | `filters[i]` a filter, `group` the frame session, `mixed[i]` torque and gains; `at`, `slow` the loop of `cycle()` | one per call; `cycle()` is its beginning, one step per joint, its end |
| `ImageChannel` | `st/process_image.h`, `ByteChannel` | slot states, `published`, `output_version_`; where each thread is in its call | each access of `publish_channel`, `snapshot_channel` and `consume_channel` |
| `ConfigurationRuntime` | one resource of `st/configuration_runtime.h`, with the transactions of `ProcessImage`, the instances of `vm.h` and a session of `debug.h` | one record `rt`: tasks, instances, parked transactions, working and published image, debug session | `Boundary`, `Turn` (one instruction of `run()`), `IdleTurn`, one per host call |
| `AtomicTasks` | what the resource promises | the published image, what each open release wrote | write, commit, abandon |
| `MC...` | - | - | the commands, programs, sessions and tasks of the instances |
| `SpscQueueProofs`, `IpcDoubleBufferProofs`, `AxisModelProofs`, `AxisFunctionBlocksProofs`, `ImageChannelProofs`, `JointGroupProofs`, `AxisGroupProofs`, `ConfigurationRuntimeProofs` | - | - | theorems |

How they interact in the code: a task calls function blocks, which submit
commands to an `AxisModel` (or a group) and look at its snapshot; the real-time task calls
`cycle()` on every group and every axis.  Set points leave through an `SpscQueue` (threads) or
through the ring and the double buffer (processes), or come in as frames of a joint group.
The ST runtime runs tasks over a process image whose bytes go through
`ImageChannel`s, and its programs end in the same function blocks.
Three compositions are modelled: the function blocks with their axis, the group with
its members, and the scan with its image, instances and debugger.

### How the code is abstracted

*Axis.* Positions, velocities and profiles are real numbers and are not kept.
What is kept is what control depends on: whether the set point moves, how many
cycles the active profile still takes (at least one; the planner's answer is an
input of the step), whether the planner finds a profile feasible, and whether a
target lies inside the software limits (an attribute of the command).  Every
member function that changes state is an operator from record to record and calls
the others as the code does, so that a call is one step that includes everything
the code does in it.  `result` and `OwnedIds` are history: what became of each
command id.  The command error ledger (`command_errors_`, `QueueCapacity + 4`
entries) is a set and does not forget.

*Axis group.* The same conventions.  A path takes as many cycles as its slowest member;
the takeover of a moving path is a flag (`connector`), and whether it leads along the
new path is an input.  What becomes of a command that passed its checks is one of
`Outcomes`: a target beyond a member's limits, a profile that cannot be planned (an
override of zero), a member that refuses its order (which makes an error of the
group), or a start; stops and the halts of members fail too.  A member is its power,
state, the rest of its own motion and the direct move it serves; MC_Power, MC_Reset
and a failure come to it at any time, as its group does not keep them from it, and a
motion of its own whenever its group stands by.  `early` (it began to move while a path of the group was
queued), `ended` (the direct move it served has ended at the member itself) and
`failure` (why the group is in ErrorStop, or which takeover failed) are history, for
the properties only.  The constant `Programs` holds sets of calls; a behaviour makes
the calls of one of them.  Two calls are kept apart, because the code does not guard
against them: `power_race`, MC_GroupPower(TRUE) while a member of a group that moves
has failed or lost its power, before the group's next cycle (section 6), and
`wait_interrupted`, a wait submitted to an interrupted group, whose end starts what is
queued over a path that was continued meanwhile (section 6).

*Joint group.* A filter's state is whether it moves, a profile the number of cycles to
its end and whether it ends moving; a solver returns any profile of the bounded
length or fails; a timestamp is the age it gives its target.  A joint is one step of
`cycle()`, in the code's rotated order.

*ST scan.* A located variable holds who wrote it, in which release.  An instruction
stores, may fail, or may jump back; local variables are left out.  A turn is one
instruction, so that the host's slices may have any length.

*Threads and processes.* An action is one access to an atomic; a copy of a struct
lasts from one action to another, and what it reads or leaves meanwhile is `Torn`.
Release/acquire is modelled where the code relies on it: `SpscQueue` lets an
acquire load return an old index, `ImageChannel` lets the second load of
`published` in `finish_snapshot_read` take effect before the release store in front
of it, `IpcDoubleBuffer` has a constant `Ordered` for whether the relaxed loads of
the payload may take effect after the acquire loads that follow them.

*Image channels.* `kind`, chosen in the initial state, says which of its two uses
a channel is put to; an area of bytes is represented by its version.

## 3. What is checked

| Run | Instance | Distinct states | Shows |
|---|---|---|---|
| `spsc_queue` | 3 elements, 2 values | 5 609 | `NoSlotRace`, the ring refines `BoundedFifo`, a full ring clears |
| `axis_queue` | 4 ids, queue of 2, profiles of at most 2 cycles; 9 commands; power, error | 10 895 | every command is in one place or has its result, order, MC_Stop holds the axis, commands end |
| `axis_all` | 3 ids, queue of 1, every call, infeasible plans | 97 112 | no motion without power or in ErrorStop; one writer of the set point |
| `fb_queue` | four programs of two blocks: an aborting move, a buffered one with ContinuousUpdate, MC_Stop, a continuous and a superimposed move | 232 300 | outputs exclude each other and tell the truth; an end is shown before a block drops its command, and is reported |
| `ipc_double_buffer` | 2 processes, 2 words, 4 versions, 2 retries, a crash anywhere | 24 500 | the buffer refines `LatestValue`; reads return; a dead writer leaves its last version |
| `image_channel` | 2 host threads and the scan thread, 3 versions, both uses | 479 283 | one user per slot, fresh whole reads, submissions consumed once and in order, publications return, submissions arrive |
| `scan_runtime` | a fast periodic task and a slow event task of two programs that share a variable; every host call on the slow one, which is also debugged; 2 boundaries | 75 392 | the resource refines `AtomicTasks`; one open transaction; releases are accounted for, commit by priority, and end |
| `joint_group` | sessions of two joints, upsampled and direct, with different windows, and a legacy one of one joint; one replan per cycle | 170 419 | the watchdog acts for all joints in one cycle; replans are rationed fairly; torque and gains are safe in their window; a dropout ends at rest |
| `axis_group` | 2 members, 3 commands, queue of 2, profiles of at most 2 cycles, starts and stops that fail, two programs of calls: one with waits, disabling and members' own motions, one with interrupts and overrides | 297 271 | one writer but for a motion begun before a queued path starts; a direct move is done only when every member has ended it; ErrorStop ends what moves, and drops the queue when a member failed; the group comes to rest unless a zero override or a refused takeover holds it |
| `image_discard_spins`, `scan_stop_inside`, `group_error_moves` | - | - | the code does not do what its documents say, see section 6 |

**Why the bounds are enough.**  A ring of three elements has slots that are full,
empty and being copied at once, and wraps after four pushes; its indices never
stop, so that nothing else is bounded.  Four command ids make an active command, a full
queue of two and one more that takes over or is refused; every interaction of the
axis is between the active command, its successor and one intruder.  A profile of
one or of two cycles may end in the cycle after its start or outlive it; no
code looks at more.  Two payload words are the fewest that can be torn, four
versions let the writer come back to the same slot while a reader is inside
`read`, and two retries reach both the last attempt and one before it.  Three versions
of an image are enough for a publisher to wait: one slot is current and two are
held by readers; each slot is then used again.  Two boundaries release both tasks together, miss a release of
the slow task and reset it in between; the fast one may commit over a parked
transaction.  Two joints and one replan per cycle make one joint wait in every
cycle in which both ask; that the rotation is fair for more joints is proved.
Two members let one fail while the other moves, and three commands a path or a direct move with two queued behind
it, or one queued and one that takes over; with a queue of two something is still queued when the first
of them cannot start.  Bounds that are not in the code are
`MaxId`, `MaxTicks`, `MaxSeq`, `MaxVersion`, `MaxTick`, `MaxProfile` and `MaxAge`; they guard the
calls that would count beyond them, or (`MaxAge`) stop a count no comparison looks at any more.

**Deadlock** is checked except in the double buffer, where every process may die
and the reader may have nothing left to do, and in the ST scan, where no task may be left to
run after the last boundary.

**Fairness.**  The real-time task calls `cycle()` every period: `WF(Cycle)` of the axis, the
axis group and the joint group.  A
task scans its program for ever: `WF(CallBlock)`, `WF(CycleAxis)`.  The executor keeps calling
`run()`: `WF(Turn)`.  A thread that
is inside a call goes on with it: `WF` of its steps.  The consumer of a queue and
the reader of a buffer come back; the consumer of an input comes back at every scan
boundary.  The stores of a ring reach the other side some time.  The
weak exchange of `claim_empty_slot` does not fail spuriously for ever: `SF`.
Producers, writers, callers, hosts, debuggers and snapshot takers owe nothing, and a writer may die.

**Scope of the runs.**  `axis_queue` leaves out synchronization, streams,
superimposed offsets, overrides and acceleration profiles, and infeasible plans;
`fb_queue` combines the blocks it does; `axis_group` leaves out the two calls of section 2, and calls waits and interrupts in different programs;
`scan_runtime` lets the debugger stop between programs only:
with the rest, some of their properties fail for the reasons listed in section 6.  The
two invariants of the axis that hold for every call are checked with every call in `axis_all`
and proved; those of `axis_queue` are proved for all calls they hold for (section 4).

## 4. What is proved

All theorems hold for every value of the constants that meets the named
assumption of the module (`QueueAssumption`, `BufferAssumption`, `AxisAssumption`,
`ChannelAssumption`, `JointGroupAssumption`, `GroupAssumption`, `RuntimeAssumption`).

* **`SpscQueueProofs`** - `TypeCorrect`, `IndicesOrdered`, `SlotsNotShared`,
  `RingIsFifo`.  The inductive invariant has three parts.  `IndexOrder`: from the
  oldest `tail_` the producer believes in, the true `tail_`, the `head_` the consumer
  sees and the true `head_` follow each other within `Capacity` slots, so an old index is a safe
  one.  A second part says that every slot from `tail_` up to `head_` is whole, a third what the
  consumer has copied when its copy is done.  The refinement is shown step by step:
  the release store of `head_` is the enqueue, that of `tail_` the dequeue, and all
  other steps stutter.  The lemmas about `Distance` and `Contents` are arithmetic on
  the ring.
* **`IpcDoubleBufferProofs`** - `TypeCorrect`, `Invariance`,
  `PublishedSlotIsStable`, `BufferIsLatestValue`.  The invariant: only the one
  living or dead owner has a reservation, it fills the slot that is *not* published
  with the version after the published one, and `pending_state_` tells how far it
  got; a copy in progress belongs to the state the reader goes by for as long as that
  state is the published one.  A crash changes none of this, because it changes no
  shared word.  The refinement theorem assumes `Ordered`; without it the claim is
  false (section 6).  The stamps are not needed for it: the second look at
  `published_state_` alone makes a read whole.
* **`AxisModelProofs`** - `NoPowerNoMotion`, `OneDriver`, `AxisTypeCorrect`.  The invariant is
  `Safe` = the record's fields, `PowerSafe` and `OneWriter`, stated on a record so that it
  can be followed through the member functions: a lemma for each function says what
  it keeps, a lemma for each call and each branch of `cycle()` that it keeps `Safe`.
  `MemberTypes` is followed through the same functions, in groups of members.
* **`AxisModelProofs`**, second part - `WorkIsLive`, `AllAccounted`, `RunInOrder`, `MotionOwned`,
  `StopHolds`: what becomes of commands.  Five invariants, each on the ones before it:
  `Book` (an id at work is live, and at work in one place only; ids not yet given out are
  unused) holds without any hypothesis and gives `WorkIsLive`; `Kept` (a live id is at work
  somewhere) and `Line` (what waits has an id and can be started; an acceleration profile
  stands alone) give `AllAccounted`; `Ordered` (the line is sorted, behind an active command,
  and empty under the lock) gives `RunInOrder`; `Driven` gives `MotionOwned`; `LockHolds`
  (nothing drives a locked axis but the stop that has the lock, and no stop waits) gives `StopHolds`.
  The induction needs them apart because a command changes hands in two steps (it ends, and the head of
  the queue starts) between which some of them are false; `FinishEffect`, `StartEffect` and
  their like say what each half does, `BaseForms`, `CycleForms`, `SubmitForms` and `SubmitOutcomes`
  what a period and a submission can come to.
  The theorems are about any set of commands and calls that meets their hypotheses, which are far
  more than `axis_queue` has room for.  TLC finds a counterexample as soon as one hypothesis is dropped:

  | Hypothesis | Theorems | What the code does without it |
  |---|---|---|
  | `PlansSucceed` | `AllAccounted`, `RunInOrder`, `MotionOwned` | a queued command that cannot start is forgotten and the line waits for the next one that is submitted, which overtakes it (`axis/state.h:3707`); an aborting one that is refused leaves the state of what it ended (`axis/state.h:1410-1436`) |
  | `NoSyncOut` | the same | `sync_out` drops the command that the synchronization waits behind (`axis/state.h:1731`) |
  | `StopsTakeOver` | `RunInOrder`, `StopHolds` | the lock of a buffered stop lets only stops in, which run before what waits (`axis/state.h:1328`); one that does not lock runs under the lock of the one before it |
  | no `superimposed` | `MotionOwned`, `StopHolds` | an offset that is halted at rest or aborted leaves DiscreteMotion (`axis/state.h:2298`); an offset starts under the lock |
  | `NoOtherDrivers` | `StopHolds` | synchronization starts under the lock (`axis/state.h:2609,1766`) |
  | `StopsDoNotHome` | `StopHolds` | a stop that is a step of homing is in Homing; no block submits one (`fb/homing.h`) |
* **`AxisFunctionBlocksProofs`** - `EndsShown`, `BlocksTruthful`, `OneOutput`: what the blocks show
  is what became of their commands.  A block has only its id and the snapshot, so the proof is
  about what may happen to ids between two of its calls: `Ages` says it of one step of the axis
  (a result is final, a failure is recorded, a continuous motion ends only when something ends it,
  an offset gets a new id), `AfterCall` adds that a call completes nothing and `AfterCycle` that a
  cycle records what it completes.  Every call and every branch of `cycle()` is shown to be one or
  the other on an axis that is `Sound` (`Book`, `Kept` and `Line` from above, and the two records
  the blocks read are true).  The invariant (`Truthful`) then needs to say, for each block, who was
  called since the last cycle (`Heard`): a block that was knows whether its command is done, one that
  was not will find its id in `lastDone`, because a cycle completes at most one command and each block
  is called before the next cycle.  `EndsShown` has no hypothesis.  The other two assume:

  | Hypothesis | Theorems | What the code does without it |
  |---|---|---|
  | `PlansSucceed`, `TargetsInside` | `BlocksTruthful` | a queued command that cannot start, for its plan or for a relative target outside the limits, is forgotten (`axis/state.h:3707`), and its block shows CommandAborted of a command that has no result |
  | `ContinuousTakesOver` | both | a continuous move that waits in the queue is shown as aborted (`fb/motion.h:655`) |
  | `OffsetsKept` | `OneOutput` | after an update that failed, MC_MoveSuperimposed shows Error and CommandAborted (`fb/motion.h:742-753`) |

  `OneOutput` goes through `Truthful` and so takes the first row with it; TLC finds no
  counterexample to it without.  All programs of `fb_queue` meet the hypotheses.  The record of failed commands is a set in the model; the
  code keeps the last QueueCapacity + 4 of them.
* **`ImageChannelProofs`** - `TypeCorrect`, `OneUserPerSlot`, `ReadsAreFresh`, `SubmissionsTakenOnce`.
  The invariant adds to these: `VersionInv`, the publisher is at most one version
  ahead of what it published; `ContentInv`, what may be read is whole and the current slot holds
  the latest version unless it is being filled again; `ReadInv`, the slot a thread is about to
  take holds nothing older than its read, or is being written and cannot be taken.
  One lemma per part, one step per action.  That no submission is consumed twice (`OnceInv`) rests
  on the slots the consumer may come to take: the current one and the one it has chosen while
  `published_slot_` moved on.  What they hold is newer than what was consumed, and one that is no
  longer current is older than the latest, so that the version offered next is newer still.
* **`JointGroupProofs`** - `JointGroupTypes`, `RationIsFair`, `GroupDropsTogether`,
  `DropoutEndsSafely`.  Why the
  ration is fair: with `n` joints, `S` replans per cycle and `o` the place of a joint in the current
  order, a joint that has waited `w` cycles satisfies `w * S + o < n`: each
  cycle that defers it has spent `S` replans on joints before it, and the rotation
  moves it `S` places forward.  Between the steps of a cycle the invariant (`RationInv`) also
  counts the replans spent so far.  This covers the sizes at which `S` does not divide `n`,
  for which TLC has no room.  That no member's own watchdog fires before the group's
  (`DropInv`) rests on each target being as old as the group's frame, and on the
  group's timeout being the least of its members' (`ShortestTimeout`).  For the last theorem
  the invariant (`RampInv`) says that the ramp to the safe gains takes the joint's own window and
  is as far as the dropout is long ago, one step less within a cycle.
* **`AxisGroupProofs`** - `GroupTypeCorrect`, `GroupOneWriter`, `ErrorStopIsQuiet`.
  None of the three is inductive: whether a queued command may start when another one ends depends
  on what the members did while it waited.  The invariant (`Safe`) says that paths and direct
  moves exist in a group that moves or stops only; that in a group that moves, stops or is interrupted
  without a direct move, and wherever a path is queued, the members' own motions are those that
  began while a path was queued (`OnlyEarly`); that a group that is in ErrorStop because a member failed has an empty
  queue; that a wait runs only in a group that is in standby, disabled or in ErrorStop and holds
  the rest back; and (`MemberSafe`) that a member's own motion has power, does not serve a direct move and be
  early too, and serves nothing or the direct move the group watches.  It is followed through every call, with
  each way in which it can fail, and every branch of `cycle()`, one lemma each.  The
  theorems assume `Careful`, that no program makes either of the two calls of section 2;
  with `power_race` a member goes on in ErrorStop (`group_error_moves`).
* **`ConfigurationRuntimeProofs`** - `RuntimeTypeCorrect`, `TransactionsDoNotOverlap`,
  `ReleasesAreCounted`, `ReleasesAreAtomic`, `ReleasesCommitByPriority`.  The invariant (`RuntimeInv`) is the types of the
  record, `Exclusive` (only the owner's task is marked as having a transaction, it runs, and without an
  owner the working image is the published one) and, for each task, `TaskSafe`: its
  releases add up, and while one is going on its cursor is at one of its programs.
  The cursor is what the first two need: without it the next instruction might belong to
  nobody.  Each operator is followed on a record, member by member (`Charges`, `Completes`,
  `ProgramEnds`, `Bounds`).  For the refinement the invariant also says where the writes of the open
  release are (`Uncommitted`): in the variables of the program that scans, if it has stored
  them, in the working image otherwise, while everything it has not written is as published.  So
  the last halt publishes exactly what was written, and every other end of a release gives it up.
  The theorem assumes `NoDebugger`; a breakpoint inside a program makes it false
  (`scan_stop_inside`), stops between programs are model-checked.  That releases commit by
  priority has a debugger in it: the invariant (`Prior`) says that of the tasks before the owner of
  the transaction only one that was parked still runs a release of the same tick.  The owner
  was the first that ran when the transaction was opened; a boundary in between releases at a
  later tick and ends what it unparks; a task that the debugger lets go on had been parked.

Only model-checked: liveness under fairness, which is out of the prover's reach; the refinement
of `AtomicTasks` with a debugger that stops between programs; and `DirectReportsTrue`.

## 5. What is not modelled

`PROJECT.json` lists every component.  Trajectory generation, geometry, kinematics
and dynamics are real arithmetic, the ST compiler and the bindings translate text and data, and
`src/src` is the older tree that `core` replaces.
The IPC ring and transport, the homing, probe and management blocks, and the CiA 402 and
Feetech adapters are control code and are planned (section 7).
Of the axis, group membership and the management and probe calls are left out; of the
axis group, circular and Cartesian paths, look-ahead windows, blending, jogging, tracking,
synchronization, homing, the queued writes of configuration and the ids of waits; of the joint
group, the reporting counters and the saturation of cycle counters; of
the process image, forces, the restore channel and the byte layout; of the ST runtime,
several resources (they share only the loop of `run()`), retained data, SFC networks,
step-over, step-out, watches and traces.

## 6. Where the code and its documents disagree

With a run:

* `image_discard_spins` - a reader that returns a stale slot may empty the slot
  after it has become the current one again; `discard_scan` then spins for ever
  (`st/process_image.h:870`, against `st-l5-semantics.md:15`).
* `scan_stop_inside` - a task that is stopped inside a program forgets that the program had
  already stored, if another task scans meanwhile; its commit then publishes
  the old value over what the other task has committed (`st/process_image.h:389`, against
  `st-l7-semantics.md:26`).
* `group_error_moves` - MC_GroupPower in the scan in which a member fails sets the
  group's error without ending its motion; the other members go on (`axis/group.h:477`,
  against `plcopen-motion-part4-linear-matrix.md:67`).

Met while modelling and modelled as the code has it, with no run of their own:

| Code (`src/core/`) | What it does | What the documents say (`src/doc/compliance/`) |
|---|---|---|
| `axis/state.h:1011` | an override that goes to zero and back before the axis has come to rest leaves the command paused at a positive override | `known-boundaries.md:35`, KB-020 |
| `axis/state.h:3707` | a buffered command that cannot start when its turn comes is forgotten: not active, no result, its block stays Busy; what waits behind it goes on waiting, and the next command that is submitted overtakes it | `part1-c4-semantics.md:37`, D-17 |
| `axis/state.h:495,521` | `set_power(false)` takes an axis out of ErrorStop with its error still set | `plcopen-part1-clause-matrix.md:29`, 2.1-d |
| `axis/state.h:2213,2609,1766,1092` | a superimposed move, a synchronization, a stream and an acceleration profile start under the lock of MC_Stop | `part1-c4-semantics.md:28`, D-04 |
| `axis/state.h:1410-1436` | an aborting command that is then refused has already ended the running one | `part1-c4-semantics.md:17` |
| `axis/state.h:1731` | `sync_out` while the synchronization waits in the queue loses the running command | `plcopen-part1-clause-matrix.md:33`, 2.1-h |
| `axis/state.h:2479,3677` | `release_stop` does not start a queue that formed behind a buffered MC_Stop | `plcopen-part1-clause-matrix.md:26`, 2.1-a |
| `axis/state.h:2298` | `abort_superimposed` leaves the axis in DiscreteMotion with nothing moving it | `part1-c4-semantics.md`, D-18 |
| `axis/state.h:3758` | a finished offset whose completed id was cleared is reported as aborted | comment at `fb/motion.h:83` |
| `fb/motion.h:794-817` | MC_MoveSuperimposed reports CommandAborted for an axis error, and when it ends in the cycle before a takeover | `part1-c4-semantics.md`, D-16 |
| `fb/motion.h:742-753` | Error and CommandAborted together after an update that failed | `plcopen-part1-clause-matrix.md:59`, 2.4.1-g |
| `fb/motion.h:655` | a buffered MC_MoveContinuous shows CommandAborted while it waits | comment at `fb/motion.h:114` |
| `rt/ipc_channel.h:298` | on AArch64 a read of the double buffer may return words of two versions (with `Ordered = FALSE` TLC shows it) | `executor-ipc-semantics.md:35` |
| `stream/filter.h:172` | after a dropout of the group, a joint whose replan is deferred publishes one position with its old speed until its turn comes | comment at `filter.h:256-258`; `trajectory-stream-semantics.md:157` |
| `stream/joint_group.h:250` | a direct session reset with a speed publishes a constant position with that speed until its first frame | comment at `filter.h:116-120` |
| `axis/group.h:4373`, `axis/state.h:1292` | a member's own motion is accepted while its group stands by in a wait, though a path is queued behind it; at the end of the wait the path starts without a look at the members, and both write the set point | `known-boundaries.md:96`, KB-068 |
| `axis/group_direct_path_impl.h:163` from `axis/group.h:4374`; `axis/group.h:483` | when a member refuses its order in a queued direct move, or MC_GroupPower fails for want of feedback, the group goes to ErrorStop and keeps the rest of its queue: it runs after `reset()`, or in ErrorStop when a wait ends | `plcopen-motion-part4-linear-matrix.md:64,67` |
| `axis/state.h:511` with `axis/group.h:2905` | a direct move is reported done although a member was taken to standstill short of its target by a withdrawn feed enable, by its power switched off and on, or by a failure and MC_Reset before the next cycle | `plcopen-part4-clause-audit.md:220` |
| `axis/group_direct_path_impl.h:63`, `axis/group.h:2429` | a command that takes over and then cannot start is refused when what it took over is gone; the group stays Moving with nothing to move until it is called again | `plcopen-motion-part4-linear-matrix.md:64` |
| `axis/group.h:4373` | a queued command that cannot start is forgotten; if it is a path, its failure is not reported and it is neither done nor aborted | `plcopen-motion-part4-linear-matrix.md:63` |
| `axis/group.h:1321` | MC_GroupStop during a direct move leaves the queue; what is queued starts after the stop | `plcopen-motion-part4-linear-matrix.md:66` |
| `axis/group.h:4339` | MC_GroupStop while a zero override brakes: the group stays Stopping until the override returns | `plcopen-motion-part4-linear-matrix.md:66` |
| `axis/group.h:1806` | a zero override during the deceleration brakes past the end of the path, which is then never done | `known-boundaries.md:74`, KB-058 |
| `axis/group.h:1462` | a halt that is queued and then called as aborting is reported done and aborted, or not at all | `part4-c3-semantics.md:29` |
| `axis/group.h:1559` | a motion buffered after a buffered wait overtakes it | `part4-c3-semantics.md:30` |
| `axis/group.h:1533,3270` | a wait is accepted in an interrupted group; its end starts the queued command over the continued path | `part4-c3-semantics.md:30`, KB-068 |
| `axis/group.h:945-997,559-612,2008-2050` | jogging, synchronization of the group to an axis and an aborting home start over a direct move | `known-boundaries.md:96`, KB-068 |
| `axis/group.h:2299` | the interrupted path is forgotten by a MoveLinear that is then rejected | `part4-management-semantics.md:18` |
| `st/configuration_runtime.h:921` | two tasks released together that write one variable are not counted as a conflict when a later release of the second has overwritten its stamp | `st-l5-semantics.md:16` |
| `st/process_image.h:565` | a restored snapshot of retained data is lost if the transaction that took it is discarded | `st-l3-semantics.md:32`, L3-D08 |
| `st/debug.h:539-543` | the release a force is queued for is computed from two values read one after the other | `st-l7-semantics.md:32` |

These are why the runs combine the calls, blocks and outcomes they do.

## 7. Plan

In this order; each step brings its module, an instance, its properties and their
place in the inductive invariants.

1. **IPC ring and transport** - `IpcSpscRing` as a second implementation of
   `BoundedFifo`, with the owner latches and a death inside a call;
   `ipc_transport.h` over both channels: life cycle, `set_error` against
   `transition`, a region initialized again under a peer.
2. **The rest of the process image** - the forces (a sequence lock), the restore
   channel and retained data, several resources, step-over and step-out.
3. **The rest of the axis group** - look-ahead windows and blending, jogging, tracking and the queued
   writes; the group function blocks on top; `AxisModel` itself as the member.
4. **Homing blocks, management calls and probes** - on top of `AxisFunctionBlocks`.
5. **Adapters** - the CiA 402 state machine and its handshakes; the ages of Feetech
   feedback and the resynchronization of its parser.
6. **Proofs** - the refinement of `AtomicTasks` with stops between programs, and `DirectReportsTrue`.

Runs are merged where one instance answers several questions, so that the whole set
stays quick enough to repeat with every change of the code.
