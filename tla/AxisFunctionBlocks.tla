------------------------- MODULE AxisFunctionBlocks -------------------------
(***************************************************************************)
(* core/fb/motion.h: the Execute function blocks of one axis, composed     *)
(* with the axis they command.  A program calls its blocks in a fixed      *)
(* order, once per scan; then the axis takes one cycle.  The blocks see    *)
(* the axis only through its snapshot, so what they report about a command *)
(* is inferred from ids: this module says when the inference is right.     *)
(***************************************************************************)
EXTENDS AxisModel

CONSTANTS Programs \* programs: blocks in the order of their calls

\* The class of a block and, for the ones that submit one, its command.
\* update: ContinuousUpdate is set, and the program may change the target.
BlockClass == {"move", "continuous", "stop", "superimposed"}

ASSUME ProgramsAssumption ==
    Programs \subseteq Seq([class : BlockClass, command : CommandInput, update : BOOLEAN])

VARIABLES blocks, \* the program that runs
          fb,     \* the state of each of its blocks
          scan    \* the block that is called next; after the last one, the cycle

vars == <<ax, blocks, fb, scan>>

Block == DOMAIN blocks

\* MotionOutputs, and the members of AxisExecuteFb
Cleared == [done |-> FALSE, busy |-> FALSE, active |-> FALSE, aborted |-> FALSE,
            error |-> FALSE]

FbInit == [out |-> Cleared, tracked |-> 0, stopId |-> 0,
           last |-> FALSE,     \* last_execute_ (and last_stop_execute_)
           lowCycle |-> FALSE] \* terminal_low_cycle_

terminal(f) == f.out.done \/ f.out.aborted \/ f.out.error

clear(f) == [f EXCEPT !.out = Cleared, !.tracked = 0]

-----------------------------------------------------------------------------
(* AxisExecuteFb.  execute: the input of this call.                         *)

\* Mutant: a falling Execute forgets the command, whatever it is doing.
rising_edgeForgets(f, execute, retain) ==
    IF execute = f.last THEN f ELSE [clear(f) EXCEPT !.last = execute, !.lowCycle = FALSE]

rising_edge(f, execute, retain) ==
    LET rising == execute /\ ~f.last
        falling == ~execute /\ f.last
        g == [f EXCEPT !.last = execute]
    IN  IF rising \/ (~execute /\ f.lowCycle)
        THEN [clear(g) EXCEPT !.lowCycle = FALSE]
        ELSE IF falling /\ terminal(f) /\ ~retain THEN clear(g)
        ELSE g

\* accept: id 0 stands for a failure.
accept(f, id) ==
    [f EXCEPT !.out.aborted = FALSE, !.out.error = id = 0,
              !.out.done = @ /\ id = 0,
              !.out.busy = id # 0, !.out.active = id # 0, !.tracked = id]

\* Mutant: Busy is not reset at the end.
terminal_observedKeepsBusy(f) == [f EXCEPT !.lowCycle = ~f.last, !.out.active = FALSE]

\* The block shows an end; when Execute is low, for one call only.
terminal_observed(f) == [f EXCEPT !.lowCycle = ~f.last,
                                  !.out.busy = FALSE, !.out.active = FALSE]

ReportsError(f) ==
    terminal_observed([f EXCEPT !.out.error = TRUE, !.out.aborted = FALSE,
                                !.out.done = FALSE])
ReportsDone(f) == terminal_observed([f EXCEPT !.out.done = TRUE])
ReportsAborted(f) == terminal_observed([f EXCEPT !.out.aborted = TRUE])
ReportsBusy(f, active) == [f EXCEPT !.out.busy = TRUE, !.out.active = active]

\* Mutants: a block that showed Done looks again; a command that was taken
\* over is not noticed.
observe_axisAgain(f, a) ==
    CASE f.tracked = 0 -> f
      [] f.tracked # 0 /\ a.activeId = f.tracked -> ReportsBusy(f, TRUE)
      [] f.tracked # 0 /\ a.lastDone = f.tracked -> ReportsDone(f)
      [] f.tracked \in QueueIds(a) -> ReportsBusy(f, FALSE)
      [] OTHER -> ReportsAborted([f EXCEPT !.out.done = FALSE])

observe_axisBlind(f, a) ==
    IF f.tracked # 0 /\ a.lastDone = f.tracked THEN ReportsDone(f) ELSE f

observe_axis(f, a) ==
    CASE f.tracked = 0 \/ f.out.done -> f
      [] OTHER ->
           IF f.tracked \in a.errors THEN ReportsError(f)
           ELSE IF a.activeId = f.tracked THEN ReportsBusy(f, TRUE)
           ELSE IF a.lastDone = f.tracked THEN ReportsDone(f)
           ELSE IF f.tracked \in QueueIds(a) THEN ReportsBusy(f, FALSE)
           ELSE ReportsAborted(f)

observe_continuous(f, a) ==
    CASE f.tracked = 0 -> f
      [] OTHER ->
           IF f.tracked \in a.errors THEN ReportsError(f)
           ELSE IF a.activeId # f.tracked
           THEN ReportsAborted([f EXCEPT !.out.done = FALSE])
           ELSE ReportsBusy([f EXCEPT !.out.done = FALSE], TRUE)

\* FbMoveSuperimposed::observe
observe_superimposed(f, a) ==
    CASE f.tracked = 0 \/ f.out.done -> f
      [] OTHER ->
           IF a.supId = f.tracked THEN ReportsBusy(f, TRUE)
           ELSE IF a.supDone = f.tracked THEN ReportsDone(f)
           ELSE ReportsAborted(f)

-----------------------------------------------------------------------------
(* call() of each class: [f |-> block after, a |-> axis after].  change: the *)
(* program changes the target of a block with ContinuousUpdate, to one that  *)
(* lies inside the limits or not; n and ok: the profile that is planned in   *)
(* this call and whether it is feasible.                                     *)

Change(block) == IF block.update THEN {"none", "inside", "outside"} ELSE {"none"}

submit(f, a, command, n, ok) ==
    IF submit_admissibility(a, command)
    THEN LET s == submit_impl(a, command, n, ok)
         IN  [f |-> accept(f, IF s.ok THEN a.nextId ELSE 0), a |-> s.ax]
    ELSE [f |-> accept(f, 0), a |-> a]

\* update_target: only the active command can be changed.
update_target(f, a, execute, change, n, ok) ==
    IF /\ execute /\ change # "none"
       /\ f.tracked # 0 /\ a.active /\ a.activeId = f.tracked
       /\ a.cmd.kind \in {"move_absolute", "move_continuous_absolute"}
    THEN update_active_target(a, change = "inside", n, ok) ELSE a

\* FbMoveAbsolute, FbMoveRelative, FbMoveVelocity, FbHalt
call_move(f, a, block, execute, change, n, ok) ==
    LET g == rising_edge(f, execute, FALSE)
        r == IF execute /\ ~f.last THEN submit(g, a, block.command, n, ok)
             ELSE [f |-> g, a |-> update_target(g, a, execute, change, n, ok)]
    IN  [r EXCEPT !.f = observe_axis(r.f, r.a)]

\* FbMoveContinuousAbsolute, FbMoveContinuousRelative
call_continuous(f, a, block, execute, change, n, ok) ==
    LET g == rising_edge(f, execute, TRUE)
        r == IF execute /\ ~f.last THEN submit(g, a, block.command, n, ok)
             ELSE [f |-> g, a |-> update_target(g, a, execute, change, n, ok)]
    IN  [r EXCEPT !.f = observe_continuous(r.f, r.a)]

\* FbStop: the falling edge gives the lock back.
call_stop(f, a, block, execute, n, ok) ==
    LET released == IF ~execute /\ f.last /\ f.stopId # 0 /\ a.stopLock = f.stopId
                    THEN release_stop(a) ELSE a
        g == rising_edge(f, execute, FALSE)
        s == submit(g, released, block.command, n, ok)
        r == IF execute /\ ~f.last THEN [s EXCEPT !.f.stopId = s.f.tracked]
             ELSE [f |-> g, a |-> released]
    IN  [r EXCEPT !.f = observe_axis(r.f, r.a)]

\* FbMoveSuperimposed
call_superimposed(f, a, block, execute, change, n, ok) ==
    LET rising == execute /\ ~f.last
        g == rising_edge(f, execute, FALSE)
        planned == ok /\ a.override
        accepted == /\ a.powered /\ a.status # "errorstop"
                    /\ a.sync = "none" /\ a.streamId = 0 /\ planned
        updates == execute /\ change # "none" /\ f.tracked # 0
        updated == a.supId = f.tracked /\ ~a.supHalting /\ planned
    IN  IF rising
        THEN [f |-> [accept(g, IF accepted THEN a.nextId ELSE 0) EXCEPT !.out.done = FALSE],
              a |-> IF accepted THEN submit_superimposed(a, n) ELSE a]
        ELSE IF ~execute /\ f.lowCycle THEN [f |-> g, a |-> a]
        ELSE IF updates /\ ~updated
        THEN [f |-> [g EXCEPT !.out.error = TRUE, !.out.busy = FALSE, !.out.active = FALSE],
              a |-> abort_superimposed(a)]
        ELSE LET b == IF updates THEN [a EXCEPT !.supLeft = n] ELSE a
             IN  [f |-> observe_superimposed(g, b), a |-> b]

call(i, execute, change, n, ok) ==
    LET block == blocks[i]
    IN  CASE block.class = "move" -> call_move(fb[i], ax, block, execute, change, n, ok)
          [] block.class = "continuous" ->
               call_continuous(fb[i], ax, block, execute, change, n, ok)
          [] block.class = "stop" -> call_stop(fb[i], ax, block, execute, n, ok)
          [] OTHER -> call_superimposed(fb[i], ax, block, execute, change, n, ok)

-----------------------------------------------------------------------------

FbsInit ==
    /\ Init
    /\ blocks \in Programs
    /\ fb = [i \in Block |-> FbInit]
    /\ scan = 1

\* A scan goes on with the next block.  Ids are bounded: no new Execute then.
CallBlock ==
    /\ scan \in Block
    /\ \E execute \in BOOLEAN, change \in Change(blocks[scan]), n \in Ticks, ok \in Feasible :
          /\ execute /\ ~fb[scan].last => ax.nextId <= MaxId
          /\ LET r == call(scan, execute, change, n, ok)
             IN  ax' = r.a /\ fb' = [fb EXCEPT ![scan] = r.f]
    /\ scan' = scan + 1
    /\ UNCHANGED blocks

\* MC_Power, MC_Reset and the drive act between two calls.
Environment ==
    /\ \/ \E enabled \in BOOLEAN : SetPower(enabled) \/ SetPowerFeedback(enabled)
       \/ TriggerError
       \/ ResetError
    /\ UNCHANGED <<blocks, fb, scan>>

CycleAxis ==
    /\ scan \notin Block
    /\ Cycle
    /\ scan' = 1
    /\ UNCHANGED <<blocks, fb>>

FbsNext == CallBlock \/ Environment \/ CycleAxis

FbsSpec == FbsInit /\ [][FbsNext]_vars

\* The task is scanned for ever, whatever its inputs are.
FbsFairSpec == FbsSpec /\ WF_vars(CallBlock) /\ WF_vars(CycleAxis)

-----------------------------------------------------------------------------
(* Properties.                                                              *)

\* Done, Busy, Error and CommandAborted exclude each other, and one of them is
\* set as long as Execute is.
OutputsExclusive ==
    \A i \in Block :
        LET set == {x \in {"done", "busy", "aborted", "error"} : fb[i].out[x]}
        IN  (fb[i].last => set # {}) /\ \A x, y \in set : x = y

\* What a block reports about its command is what became of it: Done of a
\* command that finished, CommandAborted of one that was taken over, Error of
\* one that failed or was lost to an axis error.  Not so MC_MoveSuperimposed:
\* a takeover erases the record of an offset that has just ended.
OutputsTruthful ==
    \A i \in Block :
        LET f == fb[i]
        IN  f.tracked # 0 /\ blocks[i].class # "superimposed" =>
              /\ f.out.done => ax.result[f.tracked] = "done"
              /\ f.out.aborted => ax.result[f.tracked] = "aborted"
              /\ f.out.error => ax.result[f.tracked] = "error"

\* A command is dropped by its block only after its end was shown, or when the
\* block is started again: lowering Execute does not forget an accepted command.
EndShownBeforeDropped ==
    [][\A i \in Block :
         fb[i].tracked # 0 /\ fb'[i].tracked # fb[i].tracked
           => terminal(fb[i]) \/ (fb'[i].last /\ ~fb[i].last)]_vars

\* The end of a command reaches the block that gave it, unless the block has
\* been started again by then.
EndReported ==
    \A i \in UNION {DOMAIN p : p \in Programs} :
        (i \in Block /\ fb[i].tracked # 0 /\ ax.result[fb[i].tracked] # "live")
            ~> (i \in Block /\ fb[i].tracked # 0 =>
                    terminal(fb[i]) \/ ax.result[fb[i].tracked] = "live")
=============================================================================
