--------------------- MODULE ConfigurationRuntimeProofs ---------------------
(***************************************************************************)
(* Proofs about the scan runtime, for every set of tasks, schedule,        *)
(* program and sequence of host calls: transactions do not overlap,        *)
(* releases are accounted for and, as long as no debugger is attached, a   *)
(* release is atomic.                                                      *)
(***************************************************************************)
EXTENDS ConfigurationRuntime, WellFoundedInduction, TLAPS

(* The inductive invariant, on the record of the runtime.                   *)

TaskRecord ==
    [state : {"idle", "running", "paused", "faulted"},
     fault : {"none", "budget", "wallclock", "runtime"},
     releases : Nat, completed : Nat, missed : Nat, faults : Nat, budget : Nat,
     release_tick : 0 .. MaxTick, eligible_tick : 0 .. MaxTick + 1, cursor : Nat,
     transaction : BOOLEAN, level : BOOLEAN, wallclock : BOOLEAN, reset : BOOLEAN,
     restart : BOOLEAN]

InstanceRecord ==
    [state : {"idle", "running", "complete"}, pc : Nat, fault : BOOLEAN,
     vars : [Var -> Value]]

ParkedRecord == [is : BOOLEAN, image : [Var -> Value], dirty : SUBSET Var]

Written == UNION {[S -> Value] : S \in SUBSET Var}

Place == (Mapping \X Nat) \cup {Nowhere}

Runtime ==
    [tick : 0 .. MaxTick, tasks : [Task -> TaskRecord],
     instances : [Mapping -> InstanceRecord], parked : [Task -> ParkedRecord],
     owner : Task \cup {NoTask}, fault : BOOLEAN, pending : BOOLEAN,
     image : [Var -> Value], published : [Var -> Value], open : BOOLEAN,
     current_dirty : SUBSET Var, dirty : SUBSET Var,
     stamps : [Var -> [stamp : 0 .. MaxTick + 1, owner : Task \cup {NoTask}]],
     conflicts : Nat, mailbox : {"none", "continue_", "step_in"},
     command : {"continue_", "step_in"}, stopped : Place, skip : Place,
     wrote : [Task -> Written], abandoned : [Task -> Nat]]

\* OneOpenTransaction of a record.
Exclusive(r) ==
    /\ r.owner = NoTask => r.open = FALSE /\ r.image = r.published
    /\ r.owner # NoTask => r.open = TRUE /\ r.tasks[r.owner].state = "running"
    /\ \A t \in Task : /\ r.owner = t => r.tasks[t].transaction = TRUE
                       /\ r.owner # t => r.tasks[t].transaction = FALSE

Ongoing(x) == x.state \in {"running", "paused"}

\* ReleasesAccounted of a task that lost n releases.
Accounted(x, n) ==
    x.releases = x.completed + x.faults + n + IF Ongoing(x) THEN 1 ELSE 0

\* A task that is in a release is at one of its programs, and was released at
\* most once at a tick.
TaskSafe(t, x, n, tick) ==
    /\ Accounted(x, n)
    /\ Ongoing(x) => x.cursor \in DOMAIN Mappings[t]
    /\ x.releases <= tick /\ x.missed <= tick

\* What the invariants look at in a task, besides the program it is at.
Kept(x, y) ==
    /\ y.state = x.state /\ y.transaction = x.transaction
    /\ y.releases = x.releases /\ y.completed = x.completed
    /\ y.missed = x.missed /\ y.faults = x.faults
    /\ y.release_tick = x.release_tick

\* The open transaction goes on.
GoesOn(r, s) ==
    /\ s.owner = r.owner /\ r.owner # NoTask /\ s.open = r.open
    /\ s.tick = r.tick /\ s.abandoned = r.abandoned
    /\ \A u \in Task :
          /\ Kept(r.tasks[u], s.tasks[u])
          /\ \/ s.tasks[u].cursor = r.tasks[u].cursor
             \/ s.tasks[u].cursor \in DOMAIN Mappings[u]

Safe(r) ==
    /\ Exclusive(r)
    /\ \A t \in Task : TaskSafe(t, r.tasks[t], r.abandoned[t], r.tick)

RuntimeInv == rt \in Runtime /\ Safe(rt)

-----------------------------------------------------------------------------
(* Small facts.                                                             *)

\* What load() puts into the members has their types.
LEMMA ConstantTypes ==
  /\ InitialValue \in Value
  /\ InitialImage \in [Var -> Value]
  /\ NotParked \in ParkedRecord
  /\ Nothing \in Written
  /\ Nowhere \in Place
  /\ InitialTask \in TaskRecord
  /\ InitialInstance \in InstanceRecord
<1>1. InitialValue \in Value
  BY RuntimeAssumption DEF InitialValue, Value
<1>2. InitialImage \in [Var -> Value]
  BY <1>1 DEF InitialImage
<1>3. Nothing \in [{} -> Value]
  BY DEF Nothing
<1>4. NotParked \in ParkedRecord
  BY <1>2 DEF NotParked, ParkedRecord
<1>5. Nothing \in Written
  BY <1>3 DEF Written
<1>6. InitialTask \in TaskRecord
  BY RuntimeAssumption DEF InitialTask, TaskRecord
<1>7. InitialInstance \in InstanceRecord
  BY <1>2 DEF InitialInstance, InstanceRecord
<1> QED
  BY <1>1, <1>2, <1>4, <1>5, <1>6, <1>7 DEF Place

\* invalid_task_owner is no task.
LEMMA NoTaskIsNone == NoTask \notin Task
  BY RuntimeAssumption

\* The bound on the boundaries is a number.
LEMMA MaxTickType == MaxTick \in Nat
  BY RuntimeAssumption

\* A program belongs to one task.
LEMMA OneTask ==
  ASSUME NEW t \in Task, NEW u \in Task, NEW m \in MappingsOf(t), m \in MappingsOf(u)
  PROVE  t = u /\ m \in Mapping
<1>1. Mappings \in [Task -> Seq(Mapping)]
  BY RuntimeAssumption
<1>2. PICK i \in DOMAIN Mappings[t] : m = Mappings[t][i]
  BY DEF MappingsOf
<1>3. \E j \in DOMAIN Mappings[u] : Mappings[u][j] = m
  BY DEF MappingsOf
<1>4. Mappings[t] \in Seq(Mapping)
  BY <1>1
<1>5. m \in Mapping
  BY <1>2, <1>4
<1>6. \A n \in Mapping : \A v, w \in Task :
          (\E j \in DOMAIN Mappings[v] : Mappings[v][j] = n)
            /\ (\E j \in DOMAIN Mappings[w] : Mappings[w][j] = n) => v = w
  BY RuntimeAssumption
<1> QED
  BY <1>2, <1>3, <1>5, <1>6

\* An element of a sequence.
LEMMA ElementType ==
  ASSUME NEW S, NEW q \in Seq(S), NEW i \in DOMAIN q
  PROVE  q[i] \in S
  OBVIOUS

\* A program stores the variables its layout locates.
LEMMA InstructionType ==
  ASSUME NEW m \in Mapping, NEW i \in DOMAIN Program[m]
  PROVE  /\ Program[m][i].op \in Op
         /\ Program[m][i].var \in Var /\ Program[m][i].var \in Layout[m]
<1>1. Program \in [Mapping -> Seq([op : Op, var : Var])]
  BY RuntimeAssumption
<1>2. Program[m] \in Seq([op : Op, var : Var])
  BY <1>1
<1>3. Program[m][i] \in [op : Op, var : Var]
  BY <1>2, ElementType
<1>4. Program[m][i].var \in Layout[m]
  BY RuntimeAssumption
<1> QED
  BY <1>3, <1>4

\* A place in the schedule is a number.
LEMMA ScheduleIndices == DOMAIN Schedule \subseteq Nat
<1>1. Schedule \in Seq(Task)
  BY RuntimeAssumption
<1> QED
  BY <1>1

\* No task is before itself: the schedule names it once.
LEMMA NotBeforeItself ==
  ASSUME NEW t
  PROVE  ~Before(t, t)
<1> SUFFICES ASSUME NEW i \in DOMAIN Schedule, NEW j \in DOMAIN Schedule,
                    i < j, Schedule[i] = t, Schedule[j] = t
             PROVE  FALSE
  BY DEF Before
<1>1. i = j
  BY RuntimeAssumption
<1> QED
  BY <1>1, ScheduleIndices

\* The first of some tasks in the schedule is one of them, and none is before it.
LEMMA FirstIsOne ==
  ASSUME NEW S, S \subseteq Task, S # {}
  PROVE  First(S) \in S /\ \A u \in S : ~Before(u, First(S))
<1> DEFINE T == {i \in DOMAIN Schedule : Schedule[i] \in S}
<1>1. T \subseteq Nat /\ T # {}
  <2>1. Schedule \in Seq(Task)
    BY RuntimeAssumption
  <2>2. \A t \in Task : \E i \in DOMAIN Schedule : Schedule[i] = t
    BY RuntimeAssumption
  <2>3. DOMAIN Schedule \subseteq Nat
    BY <2>1
  <2> QED
    BY <2>2, <2>3
<1>2. IsWellFoundedOn(OpToRel(<, Nat), Nat)
  BY NatLessThanWellFounded
<1>3. PICK i \in T : \A j \in T : ~(<<j, i>> \in OpToRel(<, Nat))
  <2> HIDE DEF T
  <2> QED
    BY <1>1, <1>2, WFMin
<1>4. ASSUME NEW j \in DOMAIN Schedule, Schedule[j] \in S PROVE i <= j
  <2>1. i \in Nat /\ j \in Nat /\ j \in T
    BY <1>1, <1>4
  <2>2. ~(j < i)
    BY <1>3, <2>1 DEF OpToRel
  <2> QED
    BY <2>1, <2>2
<1>5. PICK k \in DOMAIN Schedule :
           /\ First(S) = Schedule[k] /\ Schedule[k] \in S
           /\ \A j \in DOMAIN Schedule : Schedule[j] \in S => k <= j
  BY <1>4 DEF First
<1>6. ASSUME NEW u \in S PROVE ~Before(u, First(S))
  <2> SUFFICES ASSUME NEW h \in DOMAIN Schedule, NEW j \in DOMAIN Schedule,
                      h < j, Schedule[h] = u, Schedule[j] = First(S)
               PROVE  FALSE
    BY DEF Before
  <2>1. j = k
    BY <1>5, RuntimeAssumption
  <2>2. k <= h /\ h \in Nat /\ k \in Nat
    BY <1>1, <1>5, ScheduleIndices
  <2> QED
    BY <2>1, <2>2
<1> QED
  BY <1>5, <1>6

\* A task that is at one of its programs has a current mapping.
LEMMA CurrentMappingType ==
  ASSUME NEW r \in Runtime, NEW t \in Task, r.tasks[t].cursor \in DOMAIN Mappings[t]
  PROVE  CurrentMapping(r, t) \in MappingsOf(t) /\ CurrentMapping(r, t) \in Mapping
<1>1. Mappings \in [Task -> Seq(Mapping)]
  BY RuntimeAssumption
<1>2. Mappings[t] \in Seq(Mapping)
  BY <1>1
<1> QED
  BY <1>2 DEF CurrentMapping, MappingsOf

-----------------------------------------------------------------------------
(* The end of a release.                                                    *)

\* discard_scan keeps the types.
LEMMA DiscardTypes ==
  ASSUME NEW r \in Runtime, NEW S
  PROVE  DiscardScan(r) \in Runtime /\ DiscardTransactions(r, S) \in Runtime
  BY DEF DiscardScan, DiscardTransactions, Runtime

\* fault_task keeps the types of the task's counters.
LEMMA FaultedTaskType ==
  ASSUME NEW x \in TaskRecord, NEW why \in {"budget", "wallclock", "runtime"}
  PROVE  FaultedTask(x, why) \in TaskRecord
<1>1. x.faults + 1 \in Nat
  BY DEF TaskRecord
<1>2. why \in {"none", "budget", "wallclock", "runtime"}
  OBVIOUS
<1> QED
  BY <1>1, <1>2, Zenon DEF FaultedTask, TaskRecord

\* fault_task counts the release it ends as a fault.
LEMMA FaultedTaskSafe ==
  ASSUME NEW t \in Task, NEW x \in TaskRecord, NEW n \in Nat, NEW tick \in Nat,
         TaskSafe(t, x, n, tick), x.state = "running",
         NEW why \in {"budget", "wallclock", "runtime"}
  PROVE  /\ FaultedTask(x, why) \in TaskRecord
         /\ TaskSafe(t, FaultedTask(x, why), n, tick)
         /\ FaultedTask(x, why).transaction = FALSE
         /\ FaultedTask(x, why).state = "faulted"
<1> DEFINE y == FaultedTask(x, why)
<1>1. y \in TaskRecord
  BY FaultedTaskType
<1>2. /\ y.state = "faulted" /\ y.transaction = FALSE /\ y.faults = x.faults + 1
      /\ y.releases = x.releases /\ y.completed = x.completed /\ y.missed = x.missed
  BY DEF FaultedTask, TaskRecord
<1>3. /\ x.faults \in Nat /\ x.completed \in Nat /\ x.releases \in Nat
  BY DEF TaskRecord
<1>4. TaskSafe(t, y, n, tick)
  <2> HIDE DEF y
  <2> QED
    BY <1>2, <1>3 DEF TaskSafe, Accounted, Ongoing
<1> QED
  BY <1>1, <1>2, <1>4

\* A fault ends the release and the transaction of its task.
LEMMA FaultTypes ==
  ASSUME NEW r \in Runtime, NEW t \in Task,
         NEW why \in {"budget", "wallclock", "runtime"}
  PROVE  Fault(r, t, why) \in Runtime
<1>1. DiscardTransactions(r, {t}) \in Runtime
  BY DiscardTypes
<1>2. PICK d \in Runtime : d = DiscardTransactions(r, {t})
  BY <1>1
<1>3. FaultedTask(d.tasks[t], why) \in TaskRecord
  <2>1. d.tasks[t] \in TaskRecord
    BY DEF Runtime
  <2> QED
    BY <2>1, FaultedTaskType
<1>4. \A m \in Mapping : AbortInstance(r.instances[m]) \in InstanceRecord
  <2> SUFFICES ASSUME NEW m \in Mapping PROVE AbortInstance(r.instances[m]) \in InstanceRecord
    OBVIOUS
  <2>1. r.instances[m] \in InstanceRecord
    BY DEF Runtime
  <2> QED
    BY <2>1 DEF AbortInstance, InstanceRecord
<1>5. [d.tasks EXCEPT ![t] = FaultedTask(@, why)] \in [Task -> TaskRecord]
  BY <1>3 DEF Runtime
<1>6. [m \in Mapping |-> IF m \in MappingsOf(t) THEN AbortInstance(r.instances[m])
                                                 ELSE r.instances[m]]
        \in [Mapping -> InstanceRecord]
  BY <1>4 DEF Runtime
<1>7. /\ [d.parked EXCEPT ![t] = NotParked] \in [Task -> ParkedRecord]
      /\ [d.wrote EXCEPT ![t] = Nothing] \in [Task -> Written]
  BY ConstantTypes DEF Runtime
<1> QED
  BY <1>2, <1>5, <1>6, <1>7 DEF Fault, Runtime

\* After fault_task no transaction is open.
LEMMA FaultKeeps ==
  ASSUME NEW r \in Runtime, Exclusive(r), NEW t \in Task, r.tasks[t].state = "running",
         r.owner \in {NoTask, t},
         \A u \in Task : TaskSafe(u, r.tasks[u], r.abandoned[u], r.tick),
         NEW why \in {"budget", "wallclock", "runtime"}
  PROVE  Safe(Fault(r, t, why))
<1> DEFINE f == Fault(r, t, why)
<1>1. PICK d \in Runtime : d = DiscardTransactions(r, {t})
  BY DiscardTypes
<1>2. /\ d.owner = NoTask /\ d.open = FALSE /\ d.image = d.published
      /\ d.tasks = r.tasks /\ d.abandoned = r.abandoned /\ d.tick = r.tick
  BY <1>1, RuntimeAssumption DEF DiscardTransactions, DiscardScan, Exclusive, Runtime
<1>3. /\ f.owner = d.owner /\ f.open = d.open
      /\ f.image = d.image /\ f.published = d.published
      /\ f.abandoned = d.abandoned /\ f.tick = d.tick
      /\ f.tasks = [d.tasks EXCEPT ![t] = FaultedTask(@, why)]
  BY <1>1 DEF Fault, Runtime
<1>4. /\ f.tasks[t] = FaultedTask(r.tasks[t], why)
      /\ \A u \in Task : u # t => f.tasks[u] = r.tasks[u]
  BY <1>2, <1>3 DEF Runtime
<1>5. /\ r.tasks[t] \in TaskRecord /\ r.abandoned[t] \in Nat /\ r.tick \in Nat
      /\ TaskSafe(t, r.tasks[t], r.abandoned[t], r.tick)
  BY DEF Runtime
<1>6. /\ TaskSafe(t, FaultedTask(r.tasks[t], why), r.abandoned[t], r.tick)
      /\ FaultedTask(r.tasks[t], why).transaction = FALSE
  <2>1. PICK x \in TaskRecord : x = r.tasks[t]
    BY <1>5
  <2>2. TaskSafe(t, x, r.abandoned[t], r.tick) /\ x.state = "running"
    BY <1>5, <2>1
  <2>3. /\ TaskSafe(t, FaultedTask(x, why), r.abandoned[t], r.tick)
        /\ FaultedTask(x, why).transaction = FALSE
    BY <1>5, <2>2, FaultedTaskSafe
  <2> QED
    BY <2>1, <2>3
<1>7. \A u \in Task : TaskSafe(u, f.tasks[u], f.abandoned[u], f.tick)
  <2> HIDE DEF f
  <2> QED
    BY <1>2, <1>3, <1>4, <1>6
<1>8. \A u \in Task : f.tasks[u].transaction = FALSE
  <2> HIDE DEF f
  <2> QED
    BY <1>4, <1>6, NoTaskIsNone DEF Exclusive
<1>9. Exclusive(f)
  <2> HIDE DEF f
  <2> QED
    BY <1>2, <1>3, <1>8, NoTaskIsNone DEF Exclusive
<1> QED
  BY <1>7, <1>9 DEF Safe

\* What leaves owner, states and counters alone keeps the invariant.
LEMMA GoesOnSafe ==
  ASSUME NEW r \in Runtime, NEW s \in Runtime, Safe(r), GoesOn(r, s)
  PROVE  Safe(s)
<1>1. Exclusive(s)
  <2>1. /\ s.owner = r.owner /\ r.owner # NoTask /\ s.open = r.open
        /\ r.owner \in Task /\ r.open = TRUE /\ r.tasks[r.owner].state = "running"
    BY DEF Safe, Exclusive, GoesOn, Runtime
  <2>2. s.tasks[s.owner].state = "running"
    BY <2>1 DEF GoesOn, Kept
  <2>3. ASSUME NEW u \in Task
        PROVE  /\ s.owner = u => s.tasks[u].transaction = TRUE
               /\ s.owner # u => s.tasks[u].transaction = FALSE
    <3>1. s.tasks[u].transaction = r.tasks[u].transaction
      BY DEF GoesOn, Kept
    <3>2. /\ r.owner = u => r.tasks[u].transaction = TRUE
          /\ r.owner # u => r.tasks[u].transaction = FALSE
      BY DEF Safe, Exclusive
    <3> QED
      BY <2>1, <3>1, <3>2
  <2> QED
    BY <2>1, <2>2, <2>3 DEF Exclusive
<1>2. ASSUME NEW u \in Task
      PROVE  TaskSafe(u, s.tasks[u], s.abandoned[u], s.tick)
  <2>1. /\ TaskSafe(u, r.tasks[u], r.abandoned[u], r.tick) /\ Kept(r.tasks[u], s.tasks[u])
        /\ \/ s.tasks[u].cursor = r.tasks[u].cursor
           \/ s.tasks[u].cursor \in DOMAIN Mappings[u]
    BY DEF Safe, GoesOn
  <2>2. s.tick = r.tick /\ s.abandoned = r.abandoned
    BY DEF GoesOn
  <2> QED
    BY <2>1, <2>2 DEF TaskSafe, Accounted, Ongoing, Kept
<1> QED
  BY <1>1, <1>2 DEF Safe

-----------------------------------------------------------------------------
(* What an instruction may come to.                                         *)

Charges(r, c) ==
    /\ c.owner = r.owner /\ c.open = r.open /\ c.tick = r.tick /\ c.image = r.image
    /\ c.abandoned = r.abandoned /\ c.published = r.published
    /\ c.wrote = r.wrote /\ c.dirty = r.dirty /\ c.parked = r.parked
    /\ c.command = r.command /\ c.mailbox = r.mailbox /\ c.current_dirty = r.current_dirty

\* The other tasks do not notice.
OthersKept(r, s, t) ==
    \A u \in Task : u # t => s.tasks[u] = r.tasks[u] /\ s.parked[u] = r.parked[u]

\* An instruction that is charged leaves the rest of the runtime alone.
LEMMA ChargeTypes ==
  ASSUME NEW r \in Runtime, NEW t \in Task, NEW m \in Mapping, NEW pc \in Nat,
         r.tasks[t].budget # 0
  PROVE  /\ Charge(r, t, m, pc) \in Runtime
         /\ Charges(r, Charge(r, t, m, pc))
         /\ r.owner = t /\ t # NoTask => GoesOn(r, Charge(r, t, m, pc))
         /\ Charge(r, t, m, pc).tasks[t] = [r.tasks[t] EXCEPT !.budget = @ - 1]
         /\ OthersKept(r, Charge(r, t, m, pc), t)
<1> DEFINE x == [r.tasks[t] EXCEPT !.budget = @ - 1]
           i == [r.instances[m] EXCEPT !.pc = pc]
<1>1. r.tasks[t] \in TaskRecord /\ r.instances[m] \in InstanceRecord
  BY DEF Runtime
<1>2. r.tasks[t].budget - 1 \in Nat
  BY <1>1 DEF TaskRecord
<1>3. x \in TaskRecord
  BY <1>1, <1>2 DEF TaskRecord
<1>4. i \in InstanceRecord
  BY <1>1 DEF InstanceRecord
<1>5. [r.tasks EXCEPT ![t] = x] \in [Task -> TaskRecord]
  BY <1>3 DEF Runtime
<1>6. [r.instances EXCEPT ![m] = i] \in [Mapping -> InstanceRecord]
  BY <1>4 DEF Runtime
<1>7. (IF r.skip = Here(r, m) THEN Nowhere ELSE r.skip) \in Place
  BY DEF Runtime, Place
<1>8. Charge(r, t, m, pc) =
        [r EXCEPT !.tasks = [r.tasks EXCEPT ![t] = x],
                  !.instances = [r.instances EXCEPT ![m] = i],
                  !.skip = IF @ = Here(r, m) THEN Nowhere ELSE @]
  BY DEF Charge, Here, Runtime
<1>9. Charge(r, t, m, pc) \in Runtime
  BY <1>5, <1>6, <1>7, <1>8 DEF Runtime
<1>10. /\ Charge(r, t, m, pc).tasks = [r.tasks EXCEPT ![t] = x]
       /\ Charge(r, t, m, pc).owner = r.owner /\ Charge(r, t, m, pc).open = r.open
       /\ Charge(r, t, m, pc).tick = r.tick
       /\ Charge(r, t, m, pc).abandoned = r.abandoned
  BY <1>8 DEF Runtime
<1>11. Charge(r, t, m, pc).tasks[t] = x
  BY <1>10 DEF Runtime
<1>12. Kept(r.tasks[t], x) /\ x.cursor = r.tasks[t].cursor
  BY <1>1 DEF Kept, TaskRecord
<1>13. ASSUME NEW u \in Task
       PROVE  /\ Kept(r.tasks[u], Charge(r, t, m, pc).tasks[u])
              /\ Charge(r, t, m, pc).tasks[u].cursor = r.tasks[u].cursor
  <2>1. CASE u = t
    BY <1>11, <1>12, <2>1
  <2>2. CASE u # t
    BY <1>10, <2>2 DEF Kept, Runtime
  <2> QED
    BY <2>1, <2>2
<1>14. Charges(r, Charge(r, t, m, pc))
  BY <1>8 DEF Charges, Runtime
<1>15. OthersKept(r, Charge(r, t, m, pc), t)
  <2>1. Charge(r, t, m, pc).parked = r.parked
    BY <1>14 DEF Charges
  <2> HIDE DEF x
  <2> QED
    BY <1>10, <2>1 DEF Runtime, OthersKept
<1> QED
  BY <1>9, <1>10, <1>11, <1>13, <1>14, <1>15 DEF GoesOn

\* A latched fault ends the release and its transaction.
LEMMA LatchSafe ==
  ASSUME NEW r \in Runtime, Safe(r), NEW t \in Task, r.owner = t, NEW m \in Mapping,
         NEW why \in {"budget", "wallclock", "runtime"}
  PROVE  Latch(r, t, m, why) \in Runtime /\ Safe(Latch(r, t, m, why))
<1>1. [r.instances[m] EXCEPT !.fault = TRUE] \in InstanceRecord
  <2>1. r.instances[m] \in InstanceRecord
    BY DEF Runtime
  <2> QED
    BY <2>1 DEF InstanceRecord
<1>2. [r.instances EXCEPT ![m] = [@ EXCEPT !.fault = TRUE]] \in [Mapping -> InstanceRecord]
  BY <1>1 DEF Runtime
<1>3. PICK g : g = [r EXCEPT !.instances[m].fault = TRUE]
  OBVIOUS
<1>4. g \in Runtime
  BY <1>2, <1>3 DEF Runtime
<1>5. /\ g.owner = r.owner /\ g.open = r.open /\ g.tick = r.tick
      /\ g.abandoned = r.abandoned /\ g.tasks = r.tasks
  BY <1>3 DEF Runtime
<1>6. GoesOn(r, g)
  BY <1>5, NoTaskIsNone DEF GoesOn, Kept
<1>7. Safe(g)
  BY <1>4, <1>6, GoesOnSafe
<1>8. g.tasks[t].state = "running" /\ g.owner \in {NoTask, t}
  BY <1>5, NoTaskIsNone DEF Safe, Exclusive
<1>9. Latch(r, t, m, why) = Fault(g, t, why)
  BY <1>3 DEF Latch
<1>10. Fault(g, t, why) \in Runtime
  BY <1>4, FaultTypes
<1>11. Safe(Fault(g, t, why))
  BY <1>4, <1>7, <1>8, FaultKeeps DEF Safe
<1> QED
  BY <1>9, <1>10, <1>11

\* What a task has written, with one more write.
LEMMA WrittenMore ==
  ASSUME NEW f \in Written, NEW v \in Var, NEW value \in Value
  PROVE  [w \in DOMAIN f \cup {v} |-> IF w = v THEN value ELSE f[w]] \in Written
<1>1. PICK S \in SUBSET Var : f \in [S -> Value]
  BY DEF Written
<1>2. [w \in DOMAIN f \cup {v} |-> IF w = v THEN value ELSE f[w]] \in [S \cup {v} -> Value]
  BY <1>1
<1>3. S \cup {v} \in SUBSET Var
  BY <1>1
<1> QED
  BY <1>2, <1>3 DEF Written

\* A store changes no more of the tasks than its charge.
StoresLike(s, c) ==
    s.tasks = c.tasks /\ s.parked = c.parked /\ s.owner = c.owner /\ s.tick = c.tick

\* A store goes on with the open transaction.
LEMMA StoreSafe ==
  ASSUME NEW r \in Runtime, Safe(r), NEW t \in Task, r.owner = t, NEW m \in Mapping,
         NEW v \in Var, r.tasks[t].budget # 0
  PROVE  /\ Store(r, t, m, v) \in Runtime /\ Safe(Store(r, t, m, v))
         /\ StoresLike(Store(r, t, m, v), Charge(r, t, m, r.instances[m].pc + 1))
<1> DEFINE value == <<t, r.tasks[t].release_tick>>
           s == Store(r, t, m, v)
<1>1. r.instances[m].pc + 1 \in Nat
  BY DEF Runtime, InstanceRecord
<1>2. PICK c \in Runtime : c = Charge(r, t, m, r.instances[m].pc + 1)
  BY <1>1, ChargeTypes
<1> DEFINE i == [c.instances[m] EXCEPT !.vars[v] = value]
           f == [w \in DOMAIN c.wrote[t] \cup {v} |-> IF w = v THEN value ELSE c.wrote[t][w]]
           instances == [c.instances EXCEPT ![m] = i]
           wrote == [c.wrote EXCEPT ![t] = f]
<1>3. s = [c EXCEPT !.instances = instances,
                    !.current_dirty = @ \cup {v},
                    !.dirty = @ \cup {v},
                    !.wrote = wrote]
  BY <1>2 DEF Store, Runtime
<1>4. value \in Value
  <2>1. r.tasks[t].release_tick \in 0 .. MaxTick
    BY DEF Runtime, TaskRecord
  <2> QED
    BY <2>1 DEF Value
<1> HIDE DEF value, s
<1>5. i \in InstanceRecord
  <2>1. c.instances[m] \in InstanceRecord
    BY DEF Runtime
  <2>2. [c.instances[m].vars EXCEPT ![v] = value] \in [Var -> Value]
    BY <1>4, <2>1 DEF InstanceRecord
  <2> QED
    BY <2>1, <2>2 DEF InstanceRecord
<1>6. instances \in [Mapping -> InstanceRecord]
  BY <1>5 DEF Runtime
<1>7. c.wrote[t] \in Written
  BY DEF Runtime
<1>8. f \in Written
  BY <1>4, <1>7, WrittenMore
<1>9. wrote \in [Task -> Written]
  BY <1>8 DEF Runtime
<1>10. c.current_dirty \cup {v} \in SUBSET Var /\ c.dirty \cup {v} \in SUBSET Var
  BY DEF Runtime
<1> HIDE DEF instances, wrote
<1>11. s \in Runtime
  BY <1>3, <1>6, <1>9, <1>10 DEF Runtime
<1>12. /\ s.owner = c.owner /\ s.open = c.open /\ s.tick = c.tick
       /\ s.abandoned = c.abandoned /\ s.tasks = c.tasks /\ s.parked = c.parked
  BY <1>3 DEF Runtime
<1>13. GoesOn(r, c)
  BY <1>1, <1>2, ChargeTypes, NoTaskIsNone
<1>14. GoesOn(r, s)
  BY <1>12, <1>13 DEF GoesOn
<1>15. StoresLike(s, Charge(r, t, m, r.instances[m].pc + 1))
  BY <1>2, <1>12 DEF StoresLike
<1> QED
  BY <1>11, <1>14, <1>15, GoesOnSafe DEF s

\* record_writes only touches the stamps and the conflicts.
LEMMA RecordWritesTypes ==
  ASSUME NEW r \in Runtime, NEW t \in Task
  PROVE  \E stamps, conflicts :
            /\ RecordWrites(r, t) = [r EXCEPT !.stamps = stamps, !.conflicts = conflicts]
            /\ RecordWrites(r, t) \in Runtime
<1> DEFINE stamp == r.tasks[t].release_tick + 1
           stamps == [v \in Var |-> IF v \in r.dirty THEN [stamp |-> stamp, owner |-> t]
                                                    ELSE r.stamps[v]]
           conflict == \E v \in r.dirty : r.stamps[v].stamp = stamp /\ r.stamps[v].owner # t
           conflicts == IF conflict THEN r.conflicts + 1 ELSE r.conflicts
<1>1. stamp \in 0 .. MaxTick + 1
  <2>1. r.tasks[t].release_tick \in 0 .. MaxTick
    BY DEF Runtime, TaskRecord
  <2> QED
    BY <2>1, MaxTickType
<1>2. [stamp |-> stamp, owner |-> t] \in [stamp : 0 .. MaxTick + 1, owner : Task \cup {NoTask}]
  BY <1>1
<1>3. stamps \in [Var -> [stamp : 0 .. MaxTick + 1, owner : Task \cup {NoTask}]]
  <2>1. r.stamps \in [Var -> [stamp : 0 .. MaxTick + 1, owner : Task \cup {NoTask}]]
    BY DEF Runtime
  <2> HIDE DEF stamp
  <2> QED
    BY <1>2, <2>1
<1>4. conflicts \in Nat
  <2> HIDE DEF conflict
  <2> QED
    BY DEF Runtime
<1>5. RecordWrites(r, t) = [r EXCEPT !.stamps = stamps, !.conflicts = conflicts]
  BY DEF RecordWrites
<1> HIDE DEF stamps, conflicts
<1>6. [r EXCEPT !.stamps = stamps, !.conflicts = conflicts] \in Runtime
  BY <1>3, <1>4 DEF Runtime
<1> QED
  BY <1>5, <1>6

\* complete_task counts one release as completed.
LEMMA CompletedTaskIs ==
  ASSUME NEW x \in TaskRecord
  PROVE  /\ CompletedTask(x) \in TaskRecord
         /\ CompletedTask(x).state = "idle" /\ CompletedTask(x).transaction = FALSE
         /\ CompletedTask(x).completed = x.completed + 1
         /\ CompletedTask(x).releases = x.releases /\ CompletedTask(x).faults = x.faults
         /\ CompletedTask(x).missed = x.missed
<1>1. x.completed + 1 \in Nat
  BY DEF TaskRecord
<1>2. CompletedTask(x) \in TaskRecord
  BY <1>1, Zenon DEF CompletedTask, TaskRecord
<1> QED
  BY <1>2 DEF CompletedTask, TaskRecord

\* The end of the last program: the working image is published.
Completes(r, s, t) ==
    /\ s.tick = r.tick /\ s.abandoned = r.abandoned
    /\ s.owner = NoTask /\ s.open = FALSE
    /\ s.image = r.image /\ s.published = r.image
    /\ s.instances = r.instances /\ s.mailbox = r.mailbox /\ s.command = r.command
    /\ s.wrote = [r.wrote EXCEPT ![t] = Nothing]
    /\ s.parked = [r.parked EXCEPT ![t] = NotParked]
    /\ s.tasks = [r.tasks EXCEPT ![t] = CompletedTask(@)]

\* complete_task publishes the working image and closes the transaction.
LEMMA CompleteTaskIs ==
  ASSUME NEW r \in Runtime, NEW t \in Task, r.tasks[t].transaction = TRUE
  PROVE  CompleteTask(r, t) \in Runtime /\ Completes(r, CompleteTask(r, t), t)
<1> DEFINE s == CompleteTask(r, t)
<1>1. PICK stamps, conflicts :
            /\ RecordWrites(r, t) = [r EXCEPT !.stamps = stamps, !.conflicts = conflicts]
            /\ RecordWrites(r, t) \in Runtime
  BY RecordWritesTypes
<1>2. PICK w \in Runtime :
            w = RecordWrites(r, t) /\ w = [r EXCEPT !.stamps = stamps, !.conflicts = conflicts]
  BY <1>1
<1>3. /\ w.tick = r.tick /\ w.abandoned = r.abandoned /\ w.image = r.image
      /\ w.instances = r.instances /\ w.mailbox = r.mailbox /\ w.command = r.command
      /\ w.wrote = r.wrote /\ w.parked = r.parked /\ w.tasks = r.tasks
  BY <1>2 DEF Runtime
<1>4. PICK c \in Runtime : c = CommitTransaction(w)
  BY DEF CommitTransaction, Runtime
<1>5. /\ c.tick = w.tick /\ c.abandoned = w.abandoned /\ c.image = w.image
      /\ c.instances = w.instances /\ c.mailbox = w.mailbox /\ c.command = w.command
      /\ c.wrote = w.wrote /\ c.parked = w.parked /\ c.tasks = w.tasks
      /\ c.owner = NoTask /\ c.open = FALSE /\ c.published = w.image
  BY <1>4 DEF CommitTransaction, Runtime
<1>6. s = [c EXCEPT !.tasks[t] = CompletedTask(@), !.parked[t] = NotParked,
                    !.wrote[t] = Nothing]
  BY <1>2, <1>4, Zenon DEF CompleteTask
<1> HIDE DEF s
<1>7. c.tasks[t] \in TaskRecord
  BY DEF Runtime
<1>8. CompletedTask(c.tasks[t]) \in TaskRecord
  BY <1>7, CompletedTaskIs
<1>9. [c.tasks EXCEPT ![t] = CompletedTask(@)] \in [Task -> TaskRecord]
  BY <1>8 DEF Runtime
<1>10. /\ [c.parked EXCEPT ![t] = NotParked] \in [Task -> ParkedRecord]
       /\ [c.wrote EXCEPT ![t] = Nothing] \in [Task -> Written]
  BY ConstantTypes DEF Runtime
<1>11. s \in Runtime
  <2>1. [c EXCEPT !.tasks[t] = CompletedTask(@), !.parked[t] = NotParked,
                  !.wrote[t] = Nothing] \in Runtime
    BY <1>9, <1>10 DEF Runtime
  <2> QED
    BY <1>6, <2>1, Zenon
<1>12. /\ s.tick = c.tick /\ s.abandoned = c.abandoned /\ s.image = c.image
       /\ s.instances = c.instances /\ s.mailbox = c.mailbox /\ s.command = c.command
       /\ s.owner = c.owner /\ s.open = c.open /\ s.published = c.published
       /\ s.wrote = [c.wrote EXCEPT ![t] = Nothing]
       /\ s.parked = [c.parked EXCEPT ![t] = NotParked]
       /\ s.tasks = [c.tasks EXCEPT ![t] = CompletedTask(@)]
  BY <1>6 DEF Runtime
<1> HIDE DEF s
<1>13. Completes(r, s, t)
  BY <1>3, <1>5, <1>12 DEF Completes
<1> QED
  BY <1>11, <1>13 DEF s

\* commit_scan changes nothing but the working image.
LEMMA CommitScanIs ==
  ASSUME NEW r \in Runtime, NEW m \in Mapping
  PROVE  \E image \in [Var -> Value] :
            /\ image = [v \in Var |-> IF v \in Layout[m] /\ v \in r.current_dirty
                                     THEN r.instances[m].vars[v] ELSE r.image[v]]
            /\ CommitScan(r, m) = [r EXCEPT !.image = image]
            /\ CommitScan(r, m) \in Runtime
<1> DEFINE image == [v \in Var |-> IF v \in Layout[m] /\ v \in r.current_dirty
                                  THEN r.instances[m].vars[v] ELSE r.image[v]]
<1>1. r.instances[m].vars \in [Var -> Value] /\ r.image \in [Var -> Value]
  BY DEF Runtime, InstanceRecord
<1>2. image \in [Var -> Value]
  BY <1>1
<1>3. CommitScan(r, m) = [r EXCEPT !.image = image]
  BY DEF CommitScan
<1>4. [r EXCEPT !.image = image] \in Runtime
  <2> HIDE DEF image
  <2> QED
    BY <1>2 DEF Runtime
<1> QED
  BY <1>2, <1>3, <1>4

\* A program that has ended: what it wrote is in the image, the next one is due.
EndedProgram(r, t, m) ==
    [CommitScan(Charge(r, t, m, r.instances[m].pc), m) EXCEPT
        !.instances[m].state = "complete", !.tasks[t].cursor = @ + 1]

ProgramEnds(r, h, t, m) ==
    /\ h.owner = r.owner /\ h.open = r.open /\ h.tick = r.tick
    /\ h.abandoned = r.abandoned /\ h.published = r.published
    /\ h.wrote = r.wrote /\ h.dirty = r.dirty /\ h.parked = r.parked
    /\ h.command = r.command /\ h.mailbox = r.mailbox
    /\ h.image = [v \in Var |-> IF v \in Layout[m] /\ v \in r.current_dirty
                                THEN r.instances[m].vars[v] ELSE r.image[v]]
    /\ h.instances[m].state = "complete"
    /\ \A n \in Mapping : n # m => h.instances[n] = r.instances[n]
    /\ h.tasks[t].cursor = r.tasks[t].cursor + 1
    /\ \A u \in Task : /\ Kept(r.tasks[u], h.tasks[u])
                       /\ u # t => h.tasks[u] = r.tasks[u]

\* halt, up to whether the program was the last one.
LEMMA EndedProgramIs ==
  ASSUME NEW r \in Runtime, NEW t \in Task, NEW m \in Mapping, r.tasks[t].budget # 0
  PROVE  /\ EndedProgram(r, t, m) \in Runtime
         /\ ProgramEnds(r, EndedProgram(r, t, m), t, m)
<1> DEFINE h == EndedProgram(r, t, m)
<1>1. r.instances[m] \in InstanceRecord /\ r.tasks[t] \in TaskRecord
  BY DEF Runtime
<1>2. r.instances[m].pc \in Nat /\ r.tasks[t].budget - 1 \in Nat
  BY <1>1 DEF InstanceRecord, TaskRecord
<1>3. PICK c \in Runtime : c = Charge(r, t, m, r.instances[m].pc)
  BY <1>2, ChargeTypes
<1>4. /\ c.owner = r.owner /\ c.open = r.open /\ c.tick = r.tick /\ c.image = r.image
      /\ c.abandoned = r.abandoned /\ c.published = r.published
      /\ c.wrote = r.wrote /\ c.dirty = r.dirty /\ c.parked = r.parked
      /\ c.command = r.command /\ c.mailbox = r.mailbox /\ c.current_dirty = r.current_dirty
  <2>1. Charges(r, c)
    BY <1>2, <1>3, ChargeTypes
  <2> QED
    BY <2>1 DEF Charges
<1>5. c.instances = r.instances
  <2>1. c.instances = [r.instances EXCEPT ![m].pc = r.instances[m].pc]
    BY <1>3 DEF Charge, Runtime
  <2>2. [r.instances[m] EXCEPT !.pc = r.instances[m].pc] = r.instances[m]
    BY <1>1 DEF InstanceRecord
  <2> QED
    BY <2>1, <2>2 DEF Runtime
<1>6. c.tasks = [r.tasks EXCEPT ![t] = [@ EXCEPT !.budget = r.tasks[t].budget - 1]]
  BY <1>3 DEF Charge, Runtime
<1>7. c.tasks[t] = [r.tasks[t] EXCEPT !.budget = r.tasks[t].budget - 1]
  BY <1>6 DEF Runtime
<1>8. PICK image \in [Var -> Value] :
            /\ image = [v \in Var |-> IF v \in Layout[m] /\ v \in c.current_dirty
                                     THEN c.instances[m].vars[v] ELSE c.image[v]]
            /\ CommitScan(c, m) = [c EXCEPT !.image = image]
            /\ CommitScan(c, m) \in Runtime
  BY CommitScanIs
<1>9. PICK d \in Runtime : d = CommitScan(c, m) /\ d = [c EXCEPT !.image = image]
  BY <1>8
<1>10. /\ d.owner = c.owner /\ d.open = c.open /\ d.tick = c.tick /\ d.image = image
       /\ d.abandoned = c.abandoned /\ d.published = c.published
       /\ d.wrote = c.wrote /\ d.dirty = c.dirty /\ d.parked = c.parked
       /\ d.command = c.command /\ d.mailbox = c.mailbox
       /\ d.instances = c.instances /\ d.tasks = c.tasks
  BY <1>9 DEF Runtime
<1>11. h = [d EXCEPT !.instances[m].state = "complete", !.tasks[t].cursor = @ + 1]
  BY <1>3, <1>9 DEF EndedProgram
<1> HIDE DEF h
<1>12. d.instances[m] \in InstanceRecord /\ d.tasks[t] \in TaskRecord
  BY DEF Runtime
<1> DEFINE i == [d.instances[m] EXCEPT !.state = "complete"]
           x == [d.tasks[t] EXCEPT !.cursor = @ + 1]
<1>13. i \in InstanceRecord
  BY <1>12 DEF InstanceRecord
<1>14. d.tasks[t].cursor + 1 \in Nat
  BY <1>12 DEF TaskRecord
<1>15. x \in TaskRecord
  BY <1>12, <1>14 DEF TaskRecord
<1>16. [d.instances EXCEPT ![m] = i] \in [Mapping -> InstanceRecord]
  BY <1>13 DEF Runtime
<1>17. [d.tasks EXCEPT ![t] = x] \in [Task -> TaskRecord]
  BY <1>15 DEF Runtime
<1>18. [d EXCEPT !.instances[m].state = "complete", !.tasks[t].cursor = @ + 1] \in Runtime
  BY <1>16, <1>17 DEF Runtime
<1>19. h \in Runtime
  BY <1>11, <1>18, Zenon
<1>20. /\ h.owner = d.owner /\ h.open = d.open /\ h.tick = d.tick /\ h.image = d.image
       /\ h.abandoned = d.abandoned /\ h.published = d.published
       /\ h.wrote = d.wrote /\ h.dirty = d.dirty /\ h.parked = d.parked
       /\ h.command = d.command /\ h.mailbox = d.mailbox
       /\ h.instances = [d.instances EXCEPT ![m] = i]
       /\ h.tasks = [d.tasks EXCEPT ![t] = x]
  BY <1>11 DEF Runtime
<1>21. /\ h.instances[m].state = "complete"
       /\ \A n \in Mapping : n # m => h.instances[n] = r.instances[n]
  BY <1>5, <1>10, <1>12, <1>20 DEF Runtime, InstanceRecord
<1>22. h.tasks[t].cursor = r.tasks[t].cursor + 1
  BY <1>7, <1>10, <1>12, <1>20, <1>1 DEF Runtime, TaskRecord
<1>23. ASSUME NEW u \in Task, u # t PROVE h.tasks[u] = r.tasks[u]
  BY <1>6, <1>10, <1>20, <1>23 DEF Runtime
<1>24. Kept(r.tasks[t], h.tasks[t])
  <2>1. Kept(r.tasks[t], d.tasks[t])
    BY <1>1, <1>7, <1>10 DEF Kept, TaskRecord
  <2>2. h.tasks[t] = x
    BY <1>20 DEF Runtime
  <2>3. Kept(d.tasks[t], x)
    BY <1>12 DEF Kept, TaskRecord
  <2> QED
    BY <2>1, <2>2, <2>3 DEF Kept
<1>25. ASSUME NEW u \in Task PROVE Kept(r.tasks[u], h.tasks[u])
  BY <1>23, <1>24 DEF Kept
<1>26. h.image = [v \in Var |-> IF v \in Layout[m] /\ v \in r.current_dirty
                                THEN r.instances[m].vars[v] ELSE r.image[v]]
  BY <1>4, <1>5, <1>8, <1>10, <1>20
<1>27. ProgramEnds(r, h, t, m)
  BY <1>4, <1>10, <1>20, <1>21, <1>22, <1>23, <1>25, <1>26 DEF ProgramEnds
<1> QED
  BY <1>19, <1>27 DEF h

\* The end of a program: the next one of the task, or the end of its release.
LEMMA HaltSafe ==
  ASSUME NEW r \in Runtime, Safe(r), NEW t \in Task, r.owner = t, NEW m \in Mapping,
         r.tasks[t].budget # 0
  PROVE  Halt(r, t, m) \in Runtime /\ Safe(Halt(r, t, m))
<1>1. PICK h : h = EndedProgram(r, t, m)
  OBVIOUS
<1>2. /\ h \in Runtime
      /\ h.owner = r.owner /\ h.open = r.open /\ h.tick = r.tick
      /\ h.abandoned = r.abandoned
      /\ h.tasks[t].cursor = r.tasks[t].cursor + 1
      /\ \A u \in Task : /\ Kept(r.tasks[u], h.tasks[u])
                         /\ u # t => h.tasks[u] = r.tasks[u]
  <2>1. h \in Runtime /\ ProgramEnds(r, h, t, m)
    BY <1>1, EndedProgramIs
  <2> QED
    BY <2>1 DEF ProgramEnds
<1>3. Halt(r, t, m) = IF h.tasks[t].cursor > Len(Mappings[t]) THEN CompleteTask(h, t) ELSE h
  BY <1>1 DEF Halt, EndedProgram
<1>4. /\ r.tasks[t].state = "running" /\ r.tasks[t].transaction = TRUE
      /\ TaskSafe(t, r.tasks[t], r.abandoned[t], r.tick)
      /\ r.tasks[t] \in TaskRecord /\ h.tasks[t] \in TaskRecord
  BY <1>2, NoTaskIsNone DEF Safe, Exclusive, Runtime
<1>5. Mappings[t] \in Seq(Mapping)
  <2>1. Mappings \in [Task -> Seq(Mapping)]
    BY RuntimeAssumption
  <2> QED
    BY <2>1
<1>6. r.tasks[t].cursor \in 1 .. Len(Mappings[t])
  BY <1>4, <1>5 DEF TaskSafe, Ongoing
<1>7. CASE h.tasks[t].cursor > Len(Mappings[t])
  <2>1. PICK s : s = CompleteTask(h, t)
    OBVIOUS
  <2>2. h.tasks[t].transaction = TRUE
    BY <1>2, <1>4 DEF Kept
  <2>3. /\ s \in Runtime
        /\ s.tick = h.tick /\ s.abandoned = h.abandoned
        /\ s.owner = NoTask /\ s.open = FALSE
        /\ s.image = h.image /\ s.published = h.image
        /\ s.tasks = [h.tasks EXCEPT ![t] = CompletedTask(@)]
    <3>1. s \in Runtime /\ Completes(h, s, t)
      BY <1>2, <2>1, <2>2, CompleteTaskIs
    <3> QED
      BY <3>1 DEF Completes
  <2>4. /\ s.tasks[t] = CompletedTask(h.tasks[t])
        /\ \A u \in Task : u # t => s.tasks[u] = r.tasks[u]
    BY <1>2, <2>3 DEF Runtime
  <2>5. /\ s.tasks[t].transaction = FALSE /\ s.tasks[t].state = "idle"
        /\ s.tasks[t].completed = r.tasks[t].completed + 1
        /\ s.tasks[t].releases = r.tasks[t].releases /\ s.tasks[t].faults = r.tasks[t].faults
        /\ s.tasks[t].missed = r.tasks[t].missed
    <3>1. PICK x \in TaskRecord : x = h.tasks[t]
      BY <1>4
    <3>2. Kept(r.tasks[t], x) /\ s.tasks[t] = CompletedTask(x)
      BY <1>2, <2>4, <3>1
    <3>3. /\ CompletedTask(x).state = "idle" /\ CompletedTask(x).transaction = FALSE
          /\ CompletedTask(x).completed = x.completed + 1
          /\ CompletedTask(x).releases = x.releases /\ CompletedTask(x).faults = x.faults
          /\ CompletedTask(x).missed = x.missed
      BY CompletedTaskIs
    <3> QED
      BY <3>2, <3>3 DEF Kept
  <2>6. Exclusive(s)
    <3>1. ASSUME NEW u \in Task PROVE s.tasks[u].transaction = FALSE
      <4>1. CASE u = t
        BY <2>5, <4>1
      <4>2. CASE u # t
        BY <2>4, <4>2 DEF Safe, Exclusive
      <4> QED
        BY <4>1, <4>2
    <3> QED
      BY <2>3, <3>1, NoTaskIsNone DEF Exclusive
  <2>7. ASSUME NEW u \in Task PROVE TaskSafe(u, s.tasks[u], s.abandoned[u], s.tick)
    <3>1. CASE u = t
      <4>1. r.abandoned[t] \in Nat /\ r.tasks[t].completed \in Nat /\ r.tasks[t].faults \in Nat
        BY <1>4 DEF Runtime, TaskRecord
      <4>2. s.abandoned[t] = r.abandoned[t] /\ s.tick = r.tick
        BY <1>2, <2>3
      <4>3. TaskSafe(t, s.tasks[t], s.abandoned[t], s.tick)
        BY <1>4, <2>5, <4>1, <4>2 DEF TaskSafe, Accounted, Ongoing
      <4> QED
        BY <3>1, <4>3
    <3>2. CASE u # t
      BY <1>2, <2>3, <2>4, <3>2 DEF Safe
    <3> QED
      BY <3>1, <3>2
  <2> QED
    BY <1>3, <1>7, <2>1, <2>3, <2>6, <2>7 DEF Safe
<1>8. CASE ~(h.tasks[t].cursor > Len(Mappings[t]))
  <2>1. h.tasks[t].cursor \in DOMAIN Mappings[t]
    BY <1>2, <1>5, <1>6, <1>8
  <2>2. GoesOn(r, h)
    BY <1>2, <2>1, NoTaskIsNone DEF GoesOn
  <2>3. Safe(h)
    BY <1>2, <2>2, GoesOnSafe
  <2> QED
    BY <1>2, <1>3, <1>8, <2>3
<1> QED
  BY <1>7, <1>8

\* A debugger stop sets the transaction aside.
LEMMA PauseSafe ==
  ASSUME NEW r \in Runtime, Safe(r), NEW t \in Task, r.owner = t, NEW m \in Mapping
  PROVE  Pause(r, t, m) \in Runtime /\ Safe(Pause(r, t, m))
<1> DEFINE x == [r.tasks[t] EXCEPT !.state = "paused", !.transaction = FALSE]
           k == [is |-> TRUE, image |-> r.image, dirty |-> r.dirty]
<1>1. r.tasks[t] \in TaskRecord
  BY DEF Runtime
<1>2. x \in TaskRecord
  BY <1>1 DEF TaskRecord
<1>3. k \in ParkedRecord
  BY DEF Runtime, ParkedRecord
<1>4. Here(r, m) \in Place
  BY DEF Here, Place, Runtime, InstanceRecord
<1>5. [r.tasks EXCEPT ![t] = x] \in [Task -> TaskRecord]
  BY <1>2 DEF Runtime
<1>6. [r.parked EXCEPT ![t] = k] \in [Task -> ParkedRecord]
  BY <1>3 DEF Runtime
<1>7. [r EXCEPT !.parked[t] = k, !.tasks[t] = x, !.stopped = Here(r, m),
                !.command = "continue_"] \in Runtime
  BY <1>4, <1>5, <1>6 DEF Runtime
<1>8. PICK p \in Runtime : p = [r EXCEPT !.parked[t] = k, !.tasks[t] = x,
                                       !.stopped = Here(r, m), !.command = "continue_"]
  BY <1>7
<1>9. /\ p.owner = r.owner /\ p.tick = r.tick /\ p.abandoned = r.abandoned
      /\ p.tasks = [r.tasks EXCEPT ![t] = x]
  BY <1>8 DEF Runtime
<1>10. Pause(r, t, m) = DiscardScan(p)
  BY <1>8, <1>9 DEF Pause, DiscardTransactions
<1>11. PICK s \in Runtime : s = DiscardScan(p)
  BY DiscardTypes
<1>12. /\ s.owner = NoTask /\ s.open = FALSE /\ s.image = s.published
       /\ s.tick = r.tick /\ s.abandoned = r.abandoned
       /\ s.tasks = [r.tasks EXCEPT ![t] = x]
  BY <1>9, <1>11 DEF DiscardScan, Runtime
<1>13. /\ s.tasks[t] = x
       /\ \A u \in Task : u # t => s.tasks[u] = r.tasks[u]
  BY <1>12 DEF Runtime
<1>14. /\ x.state = "paused" /\ x.transaction = FALSE
       /\ x.cursor = r.tasks[t].cursor /\ x.releases = r.tasks[t].releases
       /\ x.completed = r.tasks[t].completed /\ x.faults = r.tasks[t].faults
       /\ x.missed = r.tasks[t].missed
  BY <1>1 DEF TaskRecord
<1>15. r.tasks[t].state = "running" /\ TaskSafe(t, r.tasks[t], r.abandoned[t], r.tick)
  BY NoTaskIsNone DEF Safe, Exclusive
<1> HIDE DEF x
<1>16. ASSUME NEW u \in Task
       PROVE  /\ s.tasks[u].transaction = FALSE
              /\ TaskSafe(u, s.tasks[u], s.abandoned[u], s.tick)
  <2>1. CASE u = t
    <3>1. TaskSafe(t, x, r.abandoned[t], r.tick)
      BY <1>14, <1>15 DEF TaskSafe, Accounted, Ongoing
    <3> QED
      BY <1>12, <1>13, <1>14, <2>1, <3>1
  <2>2. CASE u # t
    BY <1>12, <1>13, <2>2 DEF Safe, Exclusive
  <2> QED
    BY <2>1, <2>2
<1>17. Exclusive(s)
  BY <1>12, <1>16, NoTaskIsNone DEF Exclusive
<1> QED
  BY <1>10, <1>11, <1>12, <1>16, <1>17 DEF Safe

\* Every outcome of an instruction keeps the invariant.
LEMMA OutcomesSafe ==
  ASSUME NEW r \in Runtime, Safe(r), NEW t \in Task, r.owner = t, NEW m \in Mapping,
         NEW s \in Outcomes(r, t, m)
  PROVE  s \in Runtime /\ Safe(s)
<1> DEFINE pc == r.instances[m].pc
           next == Charge(r, t, m, pc + 1)
<1>1. pc \in Nat /\ pc + 1 \in Nat
  BY DEF Runtime, InstanceRecord
<1>2. CASE r.tasks[t].budget = 0
  <2>1. s = Latch(r, t, m, "budget")
    BY <1>2 DEF Outcomes
  <2> QED
    BY <2>1, LatchSafe
<1>3. CASE r.tasks[t].budget # 0
  <2>1. \A n \in Nat : /\ Charge(r, t, m, n) \in Runtime
                      /\ Safe(Charge(r, t, m, n))
                      /\ Charge(r, t, m, n).owner = t
    <3> SUFFICES ASSUME NEW n \in Nat
                 PROVE  /\ Charge(r, t, m, n) \in Runtime
                        /\ Safe(Charge(r, t, m, n))
                        /\ Charge(r, t, m, n).owner = t
      OBVIOUS
    <3>1. PICK c \in Runtime : c = Charge(r, t, m, n) /\ GoesOn(r, c)
      BY <1>3, ChargeTypes, NoTaskIsNone
    <3>2. Safe(c)
      BY <3>1, GoesOnSafe
    <3> QED
      BY <3>1, <3>2 DEF GoesOn
  <2>2. CASE s = Pause(r, t, m)
    BY <2>2, PauseSafe
  <2>3. CASE s = Halt(r, t, m)
    BY <1>3, <2>3, HaltSafe
  <2>4. CASE pc \in DOMAIN Program[m] /\ s = Store(r, t, m, Program[m][pc].var)
    <3>1. Program[m][pc].var \in Var
      BY <2>4, InstructionType
    <3> QED
      BY <1>3, <2>4, <3>1, StoreSafe
  <2>5. CASE s = next
    BY <1>1, <2>1, <2>5
  <2>6. CASE s = Latch(Charge(r, t, m, pc), t, m, "runtime")
    <3>1. PICK c \in Runtime : c = Charge(r, t, m, pc) /\ Safe(c) /\ c.owner = t
      BY <1>1, <2>1
    <3>2. Latch(c, t, m, "runtime") \in Runtime /\ Safe(Latch(c, t, m, "runtime"))
      BY <3>1, LatchSafe
    <3> QED
      BY <2>6, <3>1, <3>2
  <2>7. CASE s = Charge(r, t, m, 1)
    BY <2>1, <2>7
  <2>8. \/ s = Pause(r, t, m)
        \/ s = Halt(r, t, m)
        \/ pc \in DOMAIN Program[m] /\ s = Store(r, t, m, Program[m][pc].var)
        \/ s = next
        \/ s = Latch(Charge(r, t, m, pc), t, m, "runtime")
        \/ s = Charge(r, t, m, 1)
    <3>1. CASE Stops(r, t, m) \/ pc \notin DOMAIN Program[m]
      BY <1>3, <3>1 DEF Outcomes
    <3>2. CASE ~Stops(r, t, m) /\ pc \in DOMAIN Program[m]
      <4>1. Program[m][pc].op \in Op
        BY <3>2, InstructionType
      <4> QED
        BY <1>3, <3>2, <4>1 DEF Outcomes, Op
    <3> QED
      BY <3>1, <3>2
  <2> QED
    BY <2>2, <2>3, <2>4, <2>5, <2>6, <2>7, <2>8
<1> QED
  BY <1>2, <1>3

-----------------------------------------------------------------------------
(* The way to an instruction.                                               *)

\* on_scheduler_boundary may resume the paused task and nothing else.
LEMMA SchedulerBoundaryIs ==
  ASSUME NEW r \in Runtime, NEW s, s = SchedulerBoundary(r)
  PROVE  /\ s \in Runtime
         /\ s.owner = r.owner /\ s.open = r.open /\ s.tick = r.tick /\ s.image = r.image
         /\ s.abandoned = r.abandoned /\ s.published = r.published /\ s.parked = r.parked
         /\ \A t \in Task :
               \/ s.tasks[t] = r.tasks[t]
               \/ /\ r.tasks[t].state = "paused"
                  /\ s.tasks[t] = [r.tasks[t] EXCEPT !.state = "running"]
<1>1. CASE r.mailbox = "none"
  BY <1>1 DEF SchedulerBoundary
<1>2. CASE r.mailbox # "none"
  <2>1. PICK c \in Runtime : c = [r EXCEPT !.mailbox = "none"]
    BY DEF Runtime
  <2>2. /\ c.owner = r.owner /\ c.open = r.open /\ c.tick = r.tick /\ c.image = r.image
        /\ c.abandoned = r.abandoned /\ c.published = r.published /\ c.tasks = r.tasks
        /\ c.parked = r.parked
    BY <2>1 DEF Runtime
  <2>3. Debugged \in Task
    BY RuntimeAssumption
  <2>4. r.tasks[Debugged] \in TaskRecord /\ r.mailbox \in {"continue_", "step_in"}
    BY <1>2, <2>3 DEF Runtime
  <2>5. CASE r.tasks[Debugged].state = "paused"
    <3> DEFINE x == [r.tasks[Debugged] EXCEPT !.state = "running"]
    <3>1. x \in TaskRecord
      BY <2>4 DEF TaskRecord
    <3>2. [c.tasks EXCEPT ![Debugged] = x] \in [Task -> TaskRecord]
      BY <2>2, <3>1 DEF Runtime
    <3> DEFINE tasks == [c.tasks EXCEPT ![Debugged] = x]
    <3>3. s = [c EXCEPT !.skip = r.stopped, !.command = r.mailbox, !.tasks = tasks]
      BY <1>2, <2>1, <2>2, <2>5 DEF SchedulerBoundary, Runtime
    <3>4. \A t \in Task : \/ tasks[t] = r.tasks[t]
                         \/ /\ r.tasks[t].state = "paused"
                            /\ tasks[t] = [r.tasks[t] EXCEPT !.state = "running"]
      BY <2>2, <2>3, <2>5 DEF Runtime
    <3>5. r.stopped \in Place
      BY DEF Runtime
    <3> HIDE DEF tasks
    <3>6. s \in Runtime
      BY <2>4, <3>2, <3>3, <3>5 DEF Runtime, tasks
    <3>7. /\ s.owner = c.owner /\ s.open = c.open /\ s.tick = c.tick /\ s.image = c.image
          /\ s.abandoned = c.abandoned /\ s.published = c.published /\ s.tasks = tasks
          /\ s.parked = c.parked
      BY <3>3 DEF Runtime
    <3> QED
      BY <2>2, <3>4, <3>6, <3>7
  <2>6. CASE r.tasks[Debugged].state \in {"idle", "running"}
    <3>1. s = [c EXCEPT !.command = "continue_"]
      BY <1>2, <2>1, <2>6 DEF SchedulerBoundary
    <3>2. s \in Runtime
      BY <3>1 DEF Runtime
    <3>3. /\ s.owner = c.owner /\ s.open = c.open /\ s.tick = c.tick /\ s.image = c.image
          /\ s.abandoned = c.abandoned /\ s.published = c.published /\ s.tasks = c.tasks
          /\ s.parked = c.parked
      BY <3>1 DEF Runtime
    <3> QED
      BY <2>2, <3>2, <3>3
  <2>7. CASE r.tasks[Debugged].state \notin {"idle", "running", "paused"}
    <3>1. s = c
      BY <1>2, <2>1, <2>7 DEF SchedulerBoundary
    <3> QED
      BY <2>2, <3>1
  <2> QED
    BY <2>5, <2>6, <2>7
<1> QED
  BY <1>1, <1>2

\* Resuming a task or taking a command opens no transaction.
LEMMA SchedulerBoundarySafe ==
  ASSUME NEW r \in Runtime, Safe(r)
  PROVE  SchedulerBoundary(r) \in Runtime /\ Safe(SchedulerBoundary(r))
<1>1. PICK s : s = SchedulerBoundary(r)
  OBVIOUS
<1>2. /\ s \in Runtime
      /\ s.owner = r.owner /\ s.open = r.open /\ s.tick = r.tick /\ s.image = r.image
      /\ s.abandoned = r.abandoned /\ s.published = r.published
      /\ \A t \in Task :
            \/ s.tasks[t] = r.tasks[t]
            \/ /\ r.tasks[t].state = "paused"
               /\ s.tasks[t] = [r.tasks[t] EXCEPT !.state = "running"]
  BY <1>1, SchedulerBoundaryIs
<1>3. ASSUME NEW t \in Task
      PROVE  /\ TaskSafe(t, s.tasks[t], s.abandoned[t], s.tick)
             /\ s.tasks[t].transaction = r.tasks[t].transaction
             /\ r.tasks[t].state = "running" => s.tasks[t].state = "running"
  <2>1. TaskSafe(t, r.tasks[t], r.abandoned[t], r.tick) /\ r.tasks[t] \in TaskRecord
    BY DEF Safe, Runtime
  <2>2. CASE s.tasks[t] = r.tasks[t]
    BY <1>2, <2>1, <2>2
  <2>3. CASE /\ r.tasks[t].state = "paused"
             /\ s.tasks[t] = [r.tasks[t] EXCEPT !.state = "running"]
    <3>1. PICK x : x = s.tasks[t]
      OBVIOUS
    <3>2. /\ x.state = "running" /\ x.transaction = r.tasks[t].transaction
          /\ x.cursor = r.tasks[t].cursor /\ x.releases = r.tasks[t].releases
          /\ x.completed = r.tasks[t].completed /\ x.faults = r.tasks[t].faults
          /\ x.missed = r.tasks[t].missed
      BY <2>1, <2>3, <3>1 DEF TaskRecord
    <3>3. TaskSafe(t, x, r.abandoned[t], r.tick)
      BY <2>1, <2>3, <3>2 DEF TaskSafe, Accounted, Ongoing
    <3> QED
      BY <1>2, <2>3, <3>1, <3>2, <3>3
  <2> QED
    BY <1>2, <2>2, <2>3
<1>4. Exclusive(s)
  <2>1. s.owner # NoTask => s.open = TRUE /\ s.tasks[s.owner].state = "running"
    <3>1. s.owner \in Task \cup {NoTask}
      BY <1>2 DEF Runtime
    <3> QED
      BY <1>2, <1>3, <3>1 DEF Safe, Exclusive
  <2> QED
    BY <1>2, <1>3, <2>1 DEF Safe, Exclusive
<1> QED
  BY <1>1, <1>2, <1>3, <1>4 DEF Safe

\* The open transaction always belongs to a task that runs: next_runnable finds nothing to discard.
LEMMA SettleIs ==
  ASSUME NEW r \in Runtime, Safe(r)
  PROVE  Settle(r) = r
  BY DEF Safe, Exclusive, Runtime, Settle, Running

\* begin_transaction: the task that is ready has the transaction.
LEMMA OpenTransactionSafe ==
  ASSUME NEW r \in Runtime, Safe(r), NEW t \in Task, r.tasks[t].state = "running",
         r.owner \in {NoTask, t}
  PROVE  /\ OpenTransaction(r, t) \in Runtime
         /\ Safe(OpenTransaction(r, t))
         /\ OpenTransaction(r, t).owner = t
         /\ OpenTransaction(r, t).tasks[t].cursor = r.tasks[t].cursor
<1>1. CASE r.owner = t
  <2>1. r.tasks[t].transaction = TRUE
    BY <1>1 DEF Safe, Exclusive
  <2>2. OpenTransaction(r, t) = r
    BY <2>1 DEF OpenTransaction
  <2> QED
    BY <1>1, <2>2
<1>2. CASE r.owner = NoTask
  <2>1. r.tasks[t].transaction = FALSE
    BY <1>2, NoTaskIsNone DEF Safe, Exclusive
  <2> DEFINE x == [r.tasks[t] EXCEPT !.transaction = TRUE]
             tasks == [r.tasks EXCEPT ![t] = x]
  <2>2. r.tasks[t] \in TaskRecord
    BY DEF Runtime
  <2>3. /\ x \in TaskRecord /\ x.transaction = TRUE /\ Kept(x, [x EXCEPT !.transaction = TRUE])
        /\ x.state = r.tasks[t].state /\ x.cursor = r.tasks[t].cursor
        /\ x.releases = r.tasks[t].releases /\ x.completed = r.tasks[t].completed
        /\ x.missed = r.tasks[t].missed /\ x.faults = r.tasks[t].faults
    BY <2>2 DEF TaskRecord, Kept
  <2>4. tasks \in [Task -> TaskRecord]
    BY <2>3 DEF Runtime
  <2>5. /\ tasks[t] = x
        /\ \A u \in Task : u # t => tasks[u] = r.tasks[u]
    BY DEF Runtime
  <2> HIDE DEF x, tasks
  <2>6. PICK b : b = [r EXCEPT !.open = TRUE, !.dirty = {}, !.owner = t, !.tasks = tasks]
    OBVIOUS
  <2>7. b \in Runtime
    BY <2>4, <2>6 DEF Runtime
  <2>8. /\ b.owner = t /\ b.open = TRUE /\ b.tasks = tasks /\ b.tick = r.tick
        /\ b.abandoned = r.abandoned /\ b.published = r.published
    BY <2>6 DEF Runtime
  <2>9. Safe(b)
    <3>1. ASSUME NEW u \in Task
          PROVE  /\ TaskSafe(u, b.tasks[u], b.abandoned[u], b.tick)
                 /\ b.owner = u => b.tasks[u].transaction = TRUE
                 /\ b.owner # u => b.tasks[u].transaction = FALSE
      <4>1. CASE u = t
        BY <2>3, <2>5, <2>8, <4>1 DEF Safe, TaskSafe, Accounted, Ongoing
      <4>2. CASE u # t
        BY <1>2, <2>5, <2>8, <4>2, NoTaskIsNone DEF Safe, Exclusive
      <4> QED
        BY <4>1, <4>2
    <3> QED
      BY <2>3, <2>5, <2>8, <3>1, NoTaskIsNone DEF Safe, Exclusive
  <2>10. b = [r EXCEPT !.open = TRUE, !.dirty = {}, !.owner = t, !.tasks[t].transaction = TRUE]
    BY <2>6 DEF Runtime, x, tasks
  <2> DEFINE p == r.parked[t]
             image == [v \in Var |-> IF v \in p.dirty THEN p.image[v] ELSE b.image[v]]
             parked == [b.parked EXCEPT ![t] = NotParked]
             o == [b EXCEPT !.image = image, !.dirty = p.dirty, !.parked = parked]
  <2>11. OpenTransaction(r, t) = IF ~p.is THEN b ELSE o
    BY <2>1, <2>10 DEF OpenTransaction
  <2>12. p \in ParkedRecord
    BY DEF Runtime
  <2>13. image \in [Var -> Value]
    BY <2>7, <2>12 DEF ParkedRecord, Runtime
  <2>14. parked \in [Task -> ParkedRecord] /\ p.dirty \in SUBSET Var
    BY <2>7, <2>12, ConstantTypes DEF ParkedRecord, Runtime
  <2> HIDE DEF image, parked, p
  <2>15. o \in Runtime
    BY <2>7, <2>13, <2>14 DEF Runtime
  <2>16. /\ o.owner = b.owner /\ o.open = b.open /\ o.tasks = b.tasks /\ o.tick = b.tick
         /\ o.abandoned = b.abandoned
    BY <2>7 DEF Runtime
  <2> HIDE DEF o
  <2>17. GoesOn(b, o)
    BY <2>8, <2>16, NoTaskIsNone DEF GoesOn, Kept
  <2>18. Safe(o)
    BY <2>7, <2>9, <2>15, <2>17, GoesOnSafe
  <2> QED
    BY <2>3, <2>5, <2>7, <2>8, <2>9, <2>11, <2>15, <2>16, <2>18
<1> QED
  BY <1>1, <1>2

\* Instance::begin goes on with the open transaction.
LEMMA BeginScanSafe ==
  ASSUME NEW r \in Runtime, Safe(r), NEW t \in Task, r.owner = t, NEW m \in Mapping
  PROVE  /\ BeginScan(r, m) \in Runtime
         /\ Safe(BeginScan(r, m))
         /\ BeginScan(r, m).owner = t
         /\ BeginScan(r, m).tasks = r.tasks
<1>1. CASE r.instances[m].state = "running"
  BY <1>1 DEF BeginScan
<1>2. CASE r.instances[m].state # "running"
  <2> DEFINE i == BegunInstance(r.instances[m], m, r.image)
             vars == [v \in Var |-> IF v \in Layout[m] THEN r.image[v] ELSE r.instances[m].vars[v]]
  <2>1. r.instances[m] \in InstanceRecord /\ r.image \in [Var -> Value]
    BY DEF Runtime
  <2>2. vars \in [Var -> Value]
    BY <2>1 DEF InstanceRecord
  <2>3. i = [r.instances[m] EXCEPT !.state = "running", !.pc = 1, !.vars = vars]
    BY DEF BegunInstance
  <2> HIDE DEF vars
  <2>4. i \in InstanceRecord
    <3>1. 1 \in Nat
      OBVIOUS
    <3>2. [r.instances[m] EXCEPT !.state = "running", !.pc = 1, !.vars = vars] \in InstanceRecord
      BY <2>1, <2>2, <3>1, Zenon DEF InstanceRecord
    <3> QED
      BY <2>3, <3>2
  <2> HIDE DEF i
  <2>5. [r.instances EXCEPT ![m] = i] \in [Mapping -> InstanceRecord]
    BY <2>4 DEF Runtime
  <2>6. PICK s : s = [r EXCEPT !.current_dirty = {}, !.instances[m] = i]
    OBVIOUS
  <2>7. s \in Runtime
    BY <2>5, <2>6 DEF Runtime
  <2>8. /\ s.owner = r.owner /\ s.open = r.open /\ s.tasks = r.tasks /\ s.tick = r.tick
        /\ s.abandoned = r.abandoned
    BY <2>6 DEF Runtime
  <2>9. Safe(s)
    BY <2>7, <2>8, GoesOnSafe, NoTaskIsNone DEF GoesOn, Kept
  <2>10. BeginScan(r, m) = s
    BY <1>2, <2>6 DEF BeginScan, i
  <2> QED
    BY <2>7, <2>8, <2>9, <2>10
<1> QED
  BY <1>1, <1>2

\* Once it is settled who runs, the next instruction belongs to a program of the
\* task that has the transaction.
LEMMA ReadySafe ==
  ASSUME NEW r \in Runtime, Safe(r), Running(r) # {}
  PROVE  /\ Ready(r) \in Runtime
         /\ Safe(Ready(r))
         /\ Ready(r).owner = NextRunnable(r)
         /\ Ready(r).owner \in Task
         /\ CurrentMapping(Ready(r), Ready(r).owner) \in Mapping
<1> DEFINE t == NextRunnable(r)
<1>1. t \in Running(r)
  <2>1. CASE r.owner # NoTask
    BY <2>1 DEF NextRunnable, Running, Safe, Exclusive, Runtime
  <2>2. CASE r.owner = NoTask
    <3>1. Running(r) \subseteq Task
      BY DEF Running
    <3> QED
      BY <2>2, <3>1, FirstIsOne DEF NextRunnable
  <2> QED
    BY <2>1, <2>2
<1>2. t \in Task /\ r.tasks[t].state = "running"
  BY <1>1 DEF Running
<1>3. r.owner \in {NoTask, t}
  BY DEF NextRunnable
<1> HIDE DEF t
<1>4. PICK o \in Runtime : /\ o = OpenTransaction(r, t) /\ Safe(o) /\ o.owner = t
                          /\ o.tasks[t].cursor = r.tasks[t].cursor
  BY <1>2, <1>3, OpenTransactionSafe
<1>5. TaskSafe(t, r.tasks[t], r.abandoned[t], r.tick)
  BY <1>2 DEF Safe
<1>6. r.tasks[t].cursor \in DOMAIN Mappings[t]
  BY <1>2, <1>5 DEF TaskSafe, Ongoing
<1>7. CurrentMapping(r, t) \in Mapping
  BY <1>2, <1>6, CurrentMappingType
<1>8. PICK b \in Runtime : /\ b = BeginScan(o, CurrentMapping(r, t)) /\ Safe(b) /\ b.owner = t
                          /\ b.tasks = o.tasks
  BY <1>2, <1>4, <1>7, BeginScanSafe
<1>9. Ready(r) = b
  BY <1>4, <1>8 DEF Ready, t
<1>10. CurrentMapping(b, t) = CurrentMapping(r, t)
  BY <1>4, <1>8 DEF CurrentMapping
<1> QED
  BY <1>2, <1>7, <1>8, <1>9, <1>10 DEF t

\* An instruction keeps the invariant.
LEMMA TurnSafe ==
  ASSUME rt \in Runtime, Safe(rt), Turn
  PROVE  rt' \in Runtime /\ Safe(rt')
<1>1. PICK b \in Runtime : b = SchedulerBoundary(rt) /\ Safe(b)
  BY SchedulerBoundarySafe
<1>2. Settle(b) = b
  BY <1>1, SettleIs
<1>3. Running(b) # {} /\ rt' \in Outcomes(Ready(b), Ready(b).owner,
                                        CurrentMapping(Ready(b), Ready(b).owner))
  BY <1>1, <1>2 DEF Turn
<1>4. PICK r \in Runtime : /\ r = Ready(b) /\ Safe(r) /\ r.owner \in Task
                          /\ CurrentMapping(r, r.owner) \in Mapping
  BY <1>1, <1>3, ReadySafe
<1> QED
  BY <1>3, <1>4, OutcomesSafe

\* run() that finds nothing only takes the debugger's command.
LEMMA IdleTurnSafe ==
  ASSUME rt \in Runtime, Safe(rt), IdleTurn
  PROVE  rt' \in Runtime /\ Safe(rt')
<1>1. PICK b \in Runtime : b = SchedulerBoundary(rt) /\ Safe(b)
  BY SchedulerBoundarySafe
<1>2. Settle(b) = b
  BY <1>1, SettleIs
<1>3. rt' = b
  BY <1>1, <1>2 DEF IdleTurn
<1> QED
  BY <1>1, <1>3

-----------------------------------------------------------------------------
(* boundary(), for one task.                                                *)

\* What a boundary does to a task before the release.
PendingTask(r, t) ==
    ResetTask(WallclockTask(IF r.pending THEN AbortedTask(r.tasks[t]) ELSE r.tasks[t]), r.tick + 1)

Lost(r, t) == IF t \in GivenUp(r) THEN r.abandoned[t] + 1 ELSE r.abandoned[t]

\* abort_resource, member by member.
LEMMA AbortedTaskIs ==
  ASSUME NEW x \in TaskRecord
  PROVE  /\ AbortedTask(x) \in TaskRecord
         /\ AbortedTask(x).transaction = FALSE
         /\ AbortedTask(x).state = IF x.state = "running" THEN "idle" ELSE x.state
         /\ AbortedTask(x).cursor = x.cursor /\ AbortedTask(x).wallclock = x.wallclock
         /\ AbortedTask(x).reset = x.reset /\ AbortedTask(x).restart = x.restart
         /\ AbortedTask(x).releases = x.releases /\ AbortedTask(x).completed = x.completed
         /\ AbortedTask(x).faults = x.faults /\ AbortedTask(x).missed = x.missed
         /\ AbortedTask(x).release_tick = x.release_tick
<1>1. (IF x.state = "running" THEN "idle" ELSE x.state) \in {"idle", "running", "paused", "faulted"}
  BY DEF TaskRecord
<1>2. AbortedTask(x) \in TaskRecord
  BY <1>1, Zenon DEF AbortedTask, TaskRecord
<1> QED
  BY <1>2 DEF AbortedTask, TaskRecord

\* An overrun, member by member.
LEMMA WallclockTaskIs ==
  ASSUME NEW x \in TaskRecord, NEW w, w = WallclockTask(x)
  PROVE  /\ w \in TaskRecord
         /\ w.cursor = x.cursor /\ w.reset = x.reset /\ w.restart = x.restart
         /\ w.releases = x.releases /\ w.completed = x.completed /\ w.missed = x.missed
         /\ w.release_tick = x.release_tick
         /\ IF x.wallclock = TRUE /\ x.state = "running"
            THEN w.state = "faulted" /\ w.transaction = FALSE /\ w.faults = x.faults + 1
            ELSE w.state = x.state /\ w.transaction = x.transaction /\ w.faults = x.faults
<1>1. PICK n \in TaskRecord : n = [x EXCEPT !.wallclock = FALSE]
  BY DEF TaskRecord
<1>2. /\ n.cursor = x.cursor /\ n.reset = x.reset /\ n.restart = x.restart
      /\ n.releases = x.releases /\ n.completed = x.completed /\ n.missed = x.missed
      /\ n.state = x.state /\ n.transaction = x.transaction /\ n.faults = x.faults
      /\ n.release_tick = x.release_tick
  BY <1>1 DEF TaskRecord
<1>3. CASE x.wallclock = TRUE /\ x.state = "running"
  <2>1. w = FaultedTask(n, "wallclock")
    BY <1>1, <1>3 DEF WallclockTask
  <2>2. w \in TaskRecord
    BY <2>1, FaultedTaskType
  <2>3. /\ w.cursor = n.cursor /\ w.reset = n.reset /\ w.restart = n.restart
        /\ w.releases = n.releases /\ w.completed = n.completed /\ w.missed = n.missed
        /\ w.state = "faulted" /\ w.transaction = FALSE /\ w.faults = n.faults + 1
        /\ w.release_tick = n.release_tick
    BY <2>1 DEF FaultedTask, TaskRecord
  <2> QED
    BY <1>2, <1>3, <2>2, <2>3
<1>4. CASE ~(x.wallclock = TRUE /\ x.state = "running")
  <2>1. x.wallclock \in BOOLEAN
    BY DEF TaskRecord
  <2>2. w = n
    BY <1>1, <1>4, <2>1 DEF WallclockTask
  <2> QED
    BY <1>2, <1>4, <2>2
<1> QED
  BY <1>3, <1>4

\* A reset or a restart, member by member.
LEMMA ResetTaskIs ==
  ASSUME NEW x \in TaskRecord, NEW tick \in 0 .. MaxTick
  PROVE  /\ ResetTask(x, tick) \in TaskRecord
         /\ IF x.reset = TRUE \/ x.restart = TRUE
            THEN /\ ResetTask(x, tick).state = "idle" /\ ResetTask(x, tick).transaction = FALSE
                 /\ ResetTask(x, tick).releases = x.releases
                 /\ ResetTask(x, tick).completed = x.completed
                 /\ ResetTask(x, tick).faults = x.faults /\ ResetTask(x, tick).missed = 0
                 /\ ResetTask(x, tick).release_tick = 0
            ELSE ResetTask(x, tick) = x
<1>1. x.reset \in BOOLEAN /\ x.restart \in BOOLEAN
  BY DEF TaskRecord
<1>2. CASE x.reset = TRUE \/ x.restart = TRUE
  <2> DEFINE y == [InitialTask EXCEPT !.releases = x.releases, !.completed = x.completed,
                                      !.faults = x.faults, !.eligible_tick = tick + 1]
  <2>1. ResetTask(x, tick) = y
    BY <1>1, <1>2 DEF ResetTask
  <2>2. tick + 1 \in 0 .. MaxTick + 1
    BY MaxTickType
  <2>3. x.releases \in Nat /\ x.completed \in Nat /\ x.faults \in Nat
    BY DEF TaskRecord
  <2>4. y \in TaskRecord
    BY <2>2, <2>3, ConstantTypes, Zenon DEF TaskRecord
  <2>5. /\ y.state = "idle" /\ y.transaction = FALSE /\ y.releases = x.releases
        /\ y.completed = x.completed /\ y.faults = x.faults /\ y.missed = 0
        /\ y.release_tick = 0
    BY DEF InitialTask
  <2> QED
    BY <1>2, <2>1, <2>4, <2>5
<1>3. CASE ~(x.reset = TRUE \/ x.restart = TRUE)
  BY <1>1, <1>3 DEF ResetTask
<1> QED
  BY <1>2, <1>3

PendingBounds(r, t, p) ==
    /\ TaskSafe(t, p, Lost(r, t), r.tick)
    /\ r.pending = TRUE \/ t \in Ends(r) => p.transaction = FALSE
    /\ r.pending = FALSE /\ t \notin Ends(r) =>
          /\ p.transaction = r.tasks[t].transaction /\ p.state = r.tasks[t].state
          /\ p.cursor = r.tasks[t].cursor
          /\ p.release_tick = r.tasks[t].release_tick
    /\ p.state = "paused" => r.tasks[t].state = "paused" /\ t \notin Unparked(r)
    /\ p.state = "running" => r.pending = FALSE /\ t \notin Ends(r)
    /\ p.completed = r.tasks[t].completed
    /\ p.release_tick \in {r.tasks[t].release_tick, 0}

\* apply_pending counts a release it ends once, as a fault or as given up.
LEMMA PendingTaskSafe ==
  ASSUME NEW r \in Runtime, Safe(r), r.tick + 1 \in 0 .. MaxTick, NEW t \in Task
  PROVE  PendingTask(r, t) \in TaskRecord /\ PendingBounds(r, t, PendingTask(r, t))
<1> DEFINE p == PendingTask(r, t)
<1> DEFINE x == r.tasks[t]
           a == IF r.pending THEN AbortedTask(x) ELSE x
           w == WallclockTask(a)
<1>1. /\ x \in TaskRecord /\ r.pending \in BOOLEAN /\ r.abandoned[t] \in Nat /\ r.tick \in Nat
      /\ TaskSafe(t, x, r.abandoned[t], r.tick)
  BY MaxTickType DEF Runtime, Safe
<1>2. /\ x.reset \in BOOLEAN /\ x.restart \in BOOLEAN /\ x.wallclock \in BOOLEAN
      /\ x.completed \in Nat /\ x.faults \in Nat /\ x.releases \in Nat /\ x.missed \in Nat
      /\ x.state \in {"idle", "running", "paused", "faulted"}
  BY <1>1 DEF TaskRecord
<1>3. /\ a \in TaskRecord
      /\ a.cursor = x.cursor /\ a.wallclock = x.wallclock
      /\ a.reset = x.reset /\ a.restart = x.restart
      /\ a.releases = x.releases /\ a.completed = x.completed
      /\ a.faults = x.faults /\ a.missed = x.missed /\ a.release_tick = x.release_tick
      /\ r.pending = TRUE => /\ a.transaction = FALSE
                            /\ a.state = IF x.state = "running" THEN "idle" ELSE x.state
      /\ r.pending = FALSE => a = x
  <2>1. CASE r.pending = TRUE
    <3>1. a = AbortedTask(x)
      BY <2>1
    <3> HIDE DEF a
    <3> QED
      BY <1>1, <2>1, <3>1, AbortedTaskIs
  <2>2. CASE r.pending = FALSE
    BY <1>1, <2>2
  <2> QED
    BY <1>1, <2>1, <2>2
<1> HIDE DEF a
<1>4. /\ w \in TaskRecord
      /\ w.cursor = a.cursor /\ w.reset = a.reset /\ w.restart = a.restart
      /\ w.releases = a.releases /\ w.completed = a.completed /\ w.missed = a.missed
      /\ w.release_tick = a.release_tick
      /\ IF a.wallclock = TRUE /\ a.state = "running"
         THEN w.state = "faulted" /\ w.transaction = FALSE /\ w.faults = a.faults + 1
         ELSE w.state = a.state /\ w.transaction = a.transaction /\ w.faults = a.faults
  BY <1>3, WallclockTaskIs
<1>5. p = ResetTask(w, r.tick + 1)
  BY DEF PendingTask, a
<1> HIDE DEF w, p
<1>6. /\ p \in TaskRecord
      /\ IF w.reset = TRUE \/ w.restart = TRUE
         THEN /\ p.state = "idle" /\ p.transaction = FALSE /\ p.releases = w.releases
              /\ p.completed = w.completed /\ p.faults = w.faults /\ p.missed = 0
              /\ p.release_tick = 0
         ELSE p = w
  BY <1>4, <1>5, ResetTaskIs
<1>7. t \in Ends(r) <=> \/ x.state = "running" /\ (r.pending = TRUE \/ x.wallclock = TRUE)
                       \/ x.reset = TRUE \/ x.restart = TRUE
  BY <1>1, <1>2 DEF Ends
<1>8. t \in GivenUp(r) <=>
        /\ t \in Ends(r)
        /\ \/ x.state = "running" /\ (r.pending = TRUE \/ x.wallclock = FALSE)
           \/ x.state = "paused"
  BY <1>1, <1>2 DEF GivenUp
<1> HIDE DEF x
<1>9. r.pending = TRUE \/ t \in Ends(r) => p.transaction = FALSE
  BY <1>1, <1>2, <1>3, <1>4, <1>6, <1>7
<1>10. /\ r.pending = FALSE /\ t \notin Ends(r) =>
            p.transaction = x.transaction /\ p.state = x.state /\ p.cursor = x.cursor
       /\ p.state = "paused" => x.state = "paused"
  BY <1>1, <1>2, <1>3, <1>4, <1>6, <1>7
<1>11. Accounted(p, Lost(r, t))
  <2>1. CASE x.state = "running"
    BY <1>1, <1>2, <1>3, <1>4, <1>6, <1>7, <1>8, <2>1 DEF Lost, TaskSafe, Accounted, Ongoing
  <2>2. CASE x.state = "paused"
    BY <1>1, <1>2, <1>3, <1>4, <1>6, <1>7, <1>8, <2>2 DEF Lost, TaskSafe, Accounted, Ongoing
  <2>3. CASE x.state \in {"idle", "faulted"}
    BY <1>1, <1>2, <1>3, <1>4, <1>6, <1>7, <1>8, <2>3 DEF Lost, TaskSafe, Accounted, Ongoing
  <2> QED
    BY <1>2, <2>1, <2>2, <2>3
<1>12. Ongoing(p) => p.cursor \in DOMAIN Mappings[t]
  BY <1>1, <1>2, <1>3, <1>4, <1>6 DEF TaskSafe, Ongoing
<1>13. p.releases <= r.tick /\ p.missed <= r.tick
  BY <1>1, <1>3, <1>4, <1>6 DEF TaskSafe
<1>14. /\ r.pending = FALSE /\ t \notin Ends(r) => p.release_tick = x.release_tick
       /\ p.state = "running" => r.pending = FALSE /\ t \notin Ends(r)
       /\ p.completed = x.completed
       /\ p.release_tick \in {x.release_tick, 0}
  BY <1>1, <1>2, <1>3, <1>4, <1>6, <1>7
<1>15. p.state = "paused" => t \notin Unparked(r)
  <2>1. t \in Unparked(r) => x.state = "running" \/ x.reset = TRUE \/ x.restart = TRUE
    BY DEF Unparked, x
  <2> QED
    BY <1>1, <1>2, <1>3, <1>4, <1>6, <2>1
<1>16. PendingBounds(r, t, p)
  BY <1>9, <1>10, <1>11, <1>12, <1>13, <1>14, <1>15 DEF PendingBounds, TaskSafe, x
<1> QED
  BY <1>6, <1>16 DEF p

\* release counts a new release, a missed one or none.
LEMMA ReleaseTaskSafe ==
  ASSUME NEW t \in Task, NEW x \in TaskRecord, NEW n \in Nat, NEW tick \in Nat,
         TaskSafe(t, x, n, tick), tick + 1 \in 0 .. MaxTick, NEW events,
         NEW y, y = ReleaseTask(t, x, tick + 1, events)
  PROVE  /\ y \in TaskRecord
         /\ TaskSafe(t, y, n, tick + 1)
         /\ y.transaction = x.transaction
         /\ x.state = "running" => y.state = "running" /\ y.cursor = x.cursor
         /\ y.state = "paused" => x.state = "paused"
         /\ y.release_tick \in {x.release_tick, tick + 1}
         /\ x.state = "running" => y.release_tick = x.release_tick
         /\ x.state # "running" /\ y.state = "running" => y.release_tick = tick + 1
         /\ y.completed # x.completed => y.release_tick = tick + 1
<1>1. PICK z \in TaskRecord : z = Noted(t, x, events)
  <2>1. CASE Interval[t] > 0
    BY <2>1 DEF Noted
  <2>2. CASE ~(Interval[t] > 0)
    <3>1. (t \in events) \in BOOLEAN
      OBVIOUS
    <3>2. [x EXCEPT !.level = t \in events] \in TaskRecord
      BY <3>1, Zenon DEF TaskRecord
    <3> QED
      BY <2>2, <3>2, Zenon DEF Noted
  <2> QED
    BY <2>1, <2>2
<1>2. /\ Kept(x, z) /\ z.cursor = x.cursor
  BY <1>1 DEF Noted, Kept, TaskRecord
<1>3. /\ z.missed \in Nat /\ z.releases \in Nat /\ z.completed \in Nat /\ z.faults \in Nat
  BY DEF TaskRecord
<1>4. TaskSafe(t, z, n, tick)
  BY <1>2 DEF TaskSafe, Accounted, Ongoing, Kept
<1> DEFINE b == Released(t, z, tick + 1)
<1>5. InstructionBudget[t] \in Nat
  <2>1. InstructionBudget \in [Task -> Nat]
    BY RuntimeAssumption
  <2> QED
    BY <2>1
<1>6. b \in TaskRecord
  <2>1. z.releases + 1 \in Nat /\ 1 \in Nat
    BY <1>3
  <2> QED
    BY <1>5, <2>1, Zenon DEF Released, TaskRecord
<1>7. /\ b.state = "running" /\ b.releases = z.releases + 1 /\ b.cursor = 1
      /\ b.completed = z.completed /\ b.faults = z.faults /\ b.missed = z.missed
      /\ b.transaction = z.transaction /\ b.release_tick = tick + 1
  BY DEF Released, TaskRecord
<1>8. CASE y = z
  BY <1>2, <1>3, <1>4, <1>8 DEF TaskSafe, Accounted, Ongoing, Kept
<1>9. CASE z.state = "running" /\ y = [z EXCEPT !.missed = @ + 1]
  <2>1. z.missed + 1 \in Nat
    BY <1>3
  <2>2. y \in TaskRecord
    BY <1>9, <2>1 DEF TaskRecord
  <2>3. /\ y.state = z.state /\ y.transaction = z.transaction /\ y.cursor = z.cursor
        /\ y.releases = z.releases /\ y.completed = z.completed /\ y.faults = z.faults
        /\ y.missed = z.missed + 1 /\ y.release_tick = z.release_tick
    BY <1>9 DEF TaskRecord
  <2> QED
    BY <1>2, <1>3, <1>4, <2>2, <2>3 DEF TaskSafe, Accounted, Ongoing, Kept
<1>10. CASE /\ z.state = "idle" /\ Mappings[t] # <<>> /\ y = b
  <2>1. 1 \in DOMAIN Mappings[t]
    <3>1. Mappings \in [Task -> Seq(Mapping)]
      BY RuntimeAssumption
    <3>2. Mappings[t] \in Seq(Mapping)
      BY <3>1
    <3> QED
      BY <1>10, <3>2
  <2> HIDE DEF b
  <2>2. Accounted(b, n)
    BY <1>3, <1>4, <1>7, <1>10 DEF TaskSafe, Accounted, Ongoing
  <2>3. b.releases <= tick + 1 /\ b.missed <= tick + 1 /\ b.cursor \in DOMAIN Mappings[t]
    BY <1>3, <1>4, <1>7, <2>1 DEF TaskSafe
  <2>4. TaskSafe(t, b, n, tick + 1)
    BY <2>2, <2>3 DEF TaskSafe
  <2> QED
    BY <1>2, <1>6, <1>7, <1>10, <2>4 DEF Kept
<1>11. CASE /\ z.state = "idle"
            /\ y = [b EXCEPT !.state = "idle", !.budget = 0, !.completed = @ + 1]
  <2> HIDE DEF b
  <2>1. b.completed + 1 \in Nat /\ 0 \in Nat
    BY <1>6 DEF TaskRecord
  <2>2. [b EXCEPT !.state = "idle", !.budget = 0, !.completed = @ + 1] \in TaskRecord
    BY <1>6, <2>1, Zenon DEF TaskRecord
  <2>3. /\ y.state = "idle" /\ y.transaction = b.transaction /\ y.releases = b.releases
        /\ y.completed = b.completed + 1 /\ y.faults = b.faults /\ y.missed = b.missed
        /\ y.release_tick = b.release_tick
    BY <1>6, <1>11 DEF TaskRecord
  <2> QED
    BY <1>2, <1>3, <1>4, <1>7, <1>11, <2>2, <2>3 DEF TaskSafe, Accounted, Ongoing, Kept
<1>12. z.state \in {"idle", "running", "paused", "faulted"} /\ z.state = x.state
  BY <1>2 DEF TaskRecord, Kept
<1>13. \/ y = z
       \/ z.state = "running" /\ y = [z EXCEPT !.missed = @ + 1]
       \/ z.state = "idle" /\ Mappings[t] # <<>> /\ y = b
       \/ /\ z.state = "idle"
          /\ y = [b EXCEPT !.state = "idle", !.budget = 0, !.completed = @ + 1]
  <2>1. CASE ~Due(t, x, tick + 1, events) \/ Blocked(x, tick + 1)
    BY <1>1, <2>1 DEF ReleaseTask
  <2>2. CASE ~(~Due(t, x, tick + 1, events) \/ Blocked(x, tick + 1))
    <3>1. x.state \in {"idle", "running"}
      BY <1>12, <2>2 DEF Blocked
    <3>2. CASE x.state = "running"
      BY <1>1, <1>12, <2>2, <3>2 DEF ReleaseTask
    <3>3. CASE x.state = "idle" /\ Mappings[t] = <<>>
      BY <1>1, <1>12, <2>2, <3>3 DEF ReleaseTask
    <3>4. CASE x.state = "idle" /\ Mappings[t] # <<>>
      BY <1>1, <1>12, <2>2, <3>4 DEF ReleaseTask
    <3> QED
      BY <3>1, <3>2, <3>3, <3>4
  <2> QED
    BY <2>1, <2>2
<1> QED
  BY <1>8, <1>9, <1>10, <1>11, <1>13

TaskBounds(r, t, y) ==
    /\ TaskSafe(t, y, Lost(r, t), r.tick + 1)
    /\ r.pending = TRUE \/ t \in Ends(r) => y.transaction = FALSE
    /\ r.pending = FALSE /\ t \notin Ends(r) =>
          /\ y.transaction = r.tasks[t].transaction
          /\ r.tasks[t].state = "running" => y.state = "running" /\ y.cursor = r.tasks[t].cursor
          /\ r.tasks[t].state = "running" => y.release_tick = r.tasks[t].release_tick
    /\ y.state = "paused" => r.tasks[t].state = "paused" /\ t \notin Unparked(r)
    /\ y.state = "running" =>
          \/ y.release_tick = r.tick + 1
          \/ /\ r.tasks[t].state = "running" /\ t \notin Ends(r)
             /\ y.release_tick = r.tasks[t].release_tick
    /\ y.release_tick \in {r.tasks[t].release_tick, 0, r.tick + 1}
    /\ y.completed # r.tasks[t].completed => y.release_tick = r.tick + 1

\* A boundary, for one task: what is pending, then the release.
LEMMA BoundaryTaskSafe ==
  ASSUME NEW r \in Runtime, Safe(r), r.tick + 1 \in 0 .. MaxTick, NEW t \in Task, NEW events
  PROVE  /\ BoundaryTask(r, t, r.tick + 1, events) \in TaskRecord
         /\ TaskBounds(r, t, BoundaryTask(r, t, r.tick + 1, events))
<1> DEFINE y == BoundaryTask(r, t, r.tick + 1, events)
<1>1. PICK p \in TaskRecord :
            /\ p = PendingTask(r, t)
            /\ TaskSafe(t, p, Lost(r, t), r.tick)
            /\ r.pending = TRUE \/ t \in Ends(r) => p.transaction = FALSE
            /\ r.pending = FALSE /\ t \notin Ends(r) =>
                  /\ p.transaction = r.tasks[t].transaction /\ p.state = r.tasks[t].state
                  /\ p.cursor = r.tasks[t].cursor
                  /\ p.release_tick = r.tasks[t].release_tick
            /\ p.state = "paused" => r.tasks[t].state = "paused" /\ t \notin Unparked(r)
            /\ p.state = "running" => r.pending = FALSE /\ t \notin Ends(r)
            /\ p.completed = r.tasks[t].completed
            /\ p.release_tick \in {r.tasks[t].release_tick, 0}
  BY PendingTaskSafe DEF PendingBounds
<1>2. y = IF r.fault \/ r.pending THEN p ELSE ReleaseTask(t, p, r.tick + 1, events)
  BY <1>1 DEF BoundaryTask, PendingTask
<1> HIDE DEF y
<1>3. r.tick \in Nat /\ Lost(r, t) \in Nat
  BY MaxTickType DEF Runtime, Lost
<1>4. CASE y = p
  <2>1. p.releases \in Nat /\ p.missed \in Nat
    BY DEF TaskRecord
  <2>2. TaskSafe(t, p, Lost(r, t), r.tick + 1)
    BY <1>1, <1>3, <2>1 DEF TaskSafe
  <2> QED
    BY <1>1, <1>4, <2>2 DEF TaskBounds, y
<1>5. CASE y = ReleaseTask(t, p, r.tick + 1, events)
  <2>1. /\ y \in TaskRecord
        /\ TaskSafe(t, y, Lost(r, t), r.tick + 1)
        /\ y.transaction = p.transaction
        /\ p.state = "running" => y.state = "running" /\ y.cursor = p.cursor
        /\ y.state = "paused" => p.state = "paused"
        /\ y.release_tick \in {p.release_tick, r.tick + 1}
        /\ p.state = "running" => y.release_tick = p.release_tick
        /\ p.state # "running" /\ y.state = "running" => y.release_tick = r.tick + 1
        /\ y.completed # p.completed => y.release_tick = r.tick + 1
    BY <1>1, <1>3, <1>5, ReleaseTaskSafe
  <2> QED
    BY <1>1, <2>1 DEF TaskBounds, y
<1> QED
  BY <1>2, <1>4, <1>5

\* Aborted, reset or loaded again, an instance stays one.
LEMMA BoundaryInstanceType ==
  ASSUME NEW r \in Runtime, NEW m \in Mapping
  PROVE  BoundaryInstance(r, m) \in InstanceRecord
<1>1. r.instances[m] \in InstanceRecord
  BY DEF Runtime
<1>2. PICK i \in InstanceRecord :
            i = IF Aborted(r, m) THEN AbortInstance(r.instances[m]) ELSE r.instances[m]
  BY <1>1 DEF AbortInstance, InstanceRecord
<1>3. [i EXCEPT !.fault = FALSE] \in InstanceRecord
  BY DEF InstanceRecord
<1> QED
  BY <1>2, <1>3, ConstantTypes DEF BoundaryInstance

\* The transactions that a boundary ends.
EndedTransactions(r) == IF r.pending THEN Task ELSE Ends(r)

Bounds(r, s, events) ==
    /\ \E d \in Runtime :
          /\ d = DiscardTransactions(r, EndedTransactions(r))
          /\ s.owner = d.owner /\ s.open = d.open
          /\ s.image = d.image /\ s.published = d.published
          /\ s.dirty = d.dirty /\ s.current_dirty = d.current_dirty
          /\ s.command = d.command /\ s.mailbox = d.mailbox
    /\ s.tick = r.tick + 1
    /\ s.tasks = [t \in Task |-> BoundaryTask(r, t, r.tick + 1, events)]
    /\ s.instances = [m \in Mapping |-> BoundaryInstance(r, m)]
    /\ s.parked = [t \in Task |-> IF t \in Unparked(r) THEN NotParked ELSE r.parked[t]]
    /\ s.wrote = [t \in Task |-> IF t \in Ends(r) THEN Nothing ELSE r.wrote[t]]
    /\ s.abandoned = [t \in Task |-> Lost(r, t)]

\* A boundary, member by member.
LEMMA AtBoundaryIs ==
  ASSUME NEW r \in Runtime, Safe(r), r.tick < MaxTick, NEW events
  PROVE  AtBoundary(r, events) \in Runtime /\ Bounds(r, AtBoundary(r, events), events)
<1> DEFINE s == AtBoundary(r, events)
<1> DEFINE tasks == [t \in Task |-> BoundaryTask(r, t, r.tick + 1, events)]
           instances == [m \in Mapping |-> BoundaryInstance(r, m)]
           parked == [t \in Task |-> IF t \in Unparked(r) THEN NotParked ELSE r.parked[t]]
           wrote == [t \in Task |-> IF t \in Ends(r) THEN Nothing ELSE r.wrote[t]]
           abandoned == [t \in Task |-> Lost(r, t)]
<1>1. r.tick + 1 \in 0 .. MaxTick
  BY MaxTickType DEF Runtime
<1>2. tasks \in [Task -> TaskRecord]
  BY <1>1, BoundaryTaskSafe
<1>3. instances \in [Mapping -> InstanceRecord]
  BY BoundaryInstanceType
<1>4. parked \in [Task -> ParkedRecord] /\ wrote \in [Task -> Written]
  BY ConstantTypes DEF Runtime
<1>5. abandoned \in [Task -> Nat]
  BY DEF Runtime, Lost
<1>6. PICK d \in Runtime : d = DiscardTransactions(r, EndedTransactions(r))
  BY DiscardTypes
<1>7. s = [d EXCEPT !.tick = r.tick + 1, !.fault = @ \/ r.pending, !.pending = FALSE,
                    !.tasks = tasks, !.instances = instances, !.parked = parked,
                    !.wrote = wrote, !.abandoned = abandoned]
  BY <1>6 DEF AtBoundary, Lost, EndedTransactions
<1> HIDE DEF s, tasks, instances, parked, wrote, abandoned
<1>8. (d.fault \/ r.pending) \in BOOLEAN
  OBVIOUS
<1>9. [d EXCEPT !.tick = r.tick + 1, !.fault = @ \/ r.pending, !.pending = FALSE,
                !.tasks = tasks, !.instances = instances, !.parked = parked,
                !.wrote = wrote, !.abandoned = abandoned] \in Runtime
  BY <1>1, <1>2, <1>3, <1>4, <1>5, <1>8, Zenon DEF Runtime
<1>10. s \in Runtime
  BY <1>7, <1>9, Zenon
<1>11. /\ s.owner = d.owner /\ s.open = d.open
       /\ s.image = d.image /\ s.published = d.published
       /\ s.dirty = d.dirty /\ s.current_dirty = d.current_dirty
       /\ s.command = d.command /\ s.mailbox = d.mailbox
  BY <1>7 DEF Runtime
<1>12. /\ s.tick = r.tick + 1 /\ s.tasks = tasks /\ s.instances = instances
       /\ s.parked = parked /\ s.wrote = wrote /\ s.abandoned = abandoned
  BY <1>7 DEF Runtime
<1>13. Bounds(r, s, events)
  BY <1>6, <1>11, <1>12 DEF Bounds, tasks, instances, parked, wrote, abandoned
<1> QED
  BY <1>10, <1>13 DEF s

\* A boundary closes the transaction of every task whose release it ends.
LEMMA AtBoundarySafe ==
  ASSUME NEW r \in Runtime, Safe(r), r.tick < MaxTick, NEW events
  PROVE  AtBoundary(r, events) \in Runtime /\ Safe(AtBoundary(r, events))
<1>1. PICK s : s = AtBoundary(r, events)
  OBVIOUS
<1>2. s \in Runtime /\ Bounds(r, s, events)
  BY <1>1, AtBoundaryIs
<1>3. PICK d \in Runtime :
            /\ d = DiscardTransactions(r, EndedTransactions(r))
            /\ s.owner = d.owner /\ s.open = d.open
            /\ s.image = d.image /\ s.published = d.published
  BY <1>2 DEF Bounds
<1>4. r.tick + 1 \in 0 .. MaxTick
  BY MaxTickType DEF Runtime
<1>5. ASSUME NEW t \in Task
      PROVE  /\ TaskSafe(t, s.tasks[t], s.abandoned[t], s.tick)
             /\ r.pending = TRUE \/ t \in Ends(r) => s.tasks[t].transaction = FALSE
             /\ r.pending = FALSE /\ t \notin Ends(r) =>
                   /\ s.tasks[t].transaction = r.tasks[t].transaction
                   /\ r.tasks[t].state = "running" => s.tasks[t].state = "running"
  <2>1. /\ s.tasks[t] = BoundaryTask(r, t, r.tick + 1, events) /\ s.abandoned[t] = Lost(r, t)
        /\ s.tick = r.tick + 1
    BY <1>2 DEF Bounds
  <2>2. TaskBounds(r, t, BoundaryTask(r, t, r.tick + 1, events))
    BY <1>4, BoundaryTaskSafe
  <2> QED
    BY <2>1, <2>2 DEF TaskBounds
<1>6. /\ r.pending \in BOOLEAN /\ r.owner \in Task \cup {NoTask} /\ Ends(r) \subseteq Task
      /\ r.pending = TRUE => EndedTransactions(r) = Task
      /\ r.pending = FALSE => EndedTransactions(r) = Ends(r)
  BY DEF Runtime, EndedTransactions, Ends
<1>7. /\ r.owner = NoTask => r.open = FALSE /\ r.image = r.published
      /\ r.owner # NoTask => r.open = TRUE /\ r.tasks[r.owner].state = "running"
  BY DEF Safe, Exclusive
<1>8. ASSUME NEW t \in Task
      PROVE  /\ r.owner = t => r.tasks[t].transaction = TRUE
             /\ r.owner # t => r.tasks[t].transaction = FALSE
  BY DEF Safe, Exclusive
<1>9. Exclusive(s)
  <2>1. CASE r.owner \in EndedTransactions(r)
    <3>1. d.owner = NoTask /\ d.open = FALSE /\ d.image = d.published
      BY <1>3, <2>1 DEF DiscardTransactions, DiscardScan, Runtime
    <3>2. ASSUME NEW t \in Task PROVE s.tasks[t].transaction = FALSE
      BY <1>5, <1>6, <1>8, <2>1
    <3> QED
      BY <1>3, <3>1, <3>2, NoTaskIsNone DEF Exclusive
  <2>2. CASE r.owner \notin EndedTransactions(r)
    <3>1. d = r
      BY <1>3, <2>2 DEF DiscardTransactions
    <3>2. ASSUME NEW t \in Task
          PROVE  /\ s.owner = t => s.tasks[t].transaction = TRUE
                 /\ s.owner # t => s.tasks[t].transaction = FALSE
      <4>1. s.owner = r.owner
        BY <1>3, <3>1
      <4>2. CASE r.pending = TRUE \/ t \in Ends(r)
        BY <1>5, <1>6, <2>2, <4>1, <4>2
      <4>3. CASE r.pending = FALSE /\ t \notin Ends(r)
        BY <1>5, <1>8, <4>1, <4>3
      <4> QED
        BY <1>6, <4>2, <4>3
    <3>3. s.owner = r.owner /\ s.open = r.open /\ s.image = r.image /\ s.published = r.published
      BY <1>3, <3>1
    <3>4. s.owner # NoTask => s.open = TRUE /\ s.tasks[s.owner].state = "running"
      BY <1>5, <1>6, <1>7, <2>2, <3>3
    <3>5. s.owner = NoTask => s.open = FALSE /\ s.image = s.published
      BY <1>7, <3>3
    <3> QED
      BY <3>2, <3>4, <3>5 DEF Exclusive
  <2> QED
    BY <2>1, <2>2
<1> QED
  BY <1>1, <1>2, <1>5, <1>9 DEF Safe

\* The action: a boundary, and the debugger's command at its end.
LEMMA BoundarySafe ==
  ASSUME NEW events, rt \in Runtime, Safe(rt), Boundary(events)
  PROVE  rt' \in Runtime /\ Safe(rt')
<1>1. PICK s : s = AtBoundary(rt, events)
  OBVIOUS
<1>2. rt.tick < MaxTick /\ rt' = SchedulerBoundary(s)
  BY <1>1 DEF Boundary
<1>3. s \in Runtime /\ Safe(s)
  BY <1>1, <1>2, AtBoundarySafe
<1> QED
  BY <1>2, <1>3, SchedulerBoundarySafe

-----------------------------------------------------------------------------
(* What the host does between turns, and the invariant.                     *)

\* A call only leaves a note.
LEMMA NoteSafe ==
  ASSUME NEW r \in Runtime, NEW s \in Runtime, Safe(r),
         s.owner = r.owner, s.open = r.open, s.image = r.image, s.published = r.published,
         s.tick = r.tick, s.abandoned = r.abandoned,
         \A u \in Task : Kept(r.tasks[u], s.tasks[u]) /\ s.tasks[u].cursor = r.tasks[u].cursor
  PROVE  Safe(s)
<1>1. CASE r.owner # NoTask
  BY <1>1, GoesOnSafe DEF GoesOn
<1>2. CASE r.owner = NoTask
  <2>1. Exclusive(s)
    BY <1>2 DEF Safe, Exclusive, Kept
  <2>2. ASSUME NEW u \in Task PROVE TaskSafe(u, s.tasks[u], s.abandoned[u], s.tick)
    BY DEF Safe, TaskSafe, Accounted, Ongoing, Kept
  <2> QED
    BY <2>1, <2>2 DEF Safe
<1> QED
  BY <1>1, <1>2

\* A request for a task waits for the next boundary.
LEMMA TaskCallSafe ==
  ASSUME NEW t \in Task, rt \in Runtime, Safe(rt), TaskCall(t)
  PROVE  rt' \in Runtime /\ Safe(rt')
<1>1. rt.tasks[t] \in TaskRecord
  BY DEF Runtime
<1>2. PICK x \in TaskRecord :
            /\ Kept(rt.tasks[t], x) /\ x.cursor = rt.tasks[t].cursor
            /\ rt' = [rt EXCEPT !.tasks[t] = x]
  <2> DEFINE w == [rt.tasks[t] EXCEPT !.wallclock = TRUE]
             e == [rt.tasks[t] EXCEPT !.reset = TRUE]
             l == [rt.tasks[t] EXCEPT !.restart = TRUE]
  <2>1. /\ w \in TaskRecord /\ Kept(rt.tasks[t], w) /\ w.cursor = rt.tasks[t].cursor
        /\ e \in TaskRecord /\ Kept(rt.tasks[t], e) /\ e.cursor = rt.tasks[t].cursor
        /\ l \in TaskRecord /\ Kept(rt.tasks[t], l) /\ l.cursor = rt.tasks[t].cursor
    BY <1>1 DEF TaskRecord, Kept
  <2>2. \/ rt' = [rt EXCEPT !.tasks[t] = w]
        \/ rt' = [rt EXCEPT !.tasks[t] = e]
        \/ rt' = [rt EXCEPT !.tasks[t] = l]
    BY DEF TaskCall
  <2> HIDE DEF w, e, l
  <2> QED
    BY <2>1, <2>2
<1>3. [rt.tasks EXCEPT ![t] = x] \in [Task -> TaskRecord]
  BY DEF Runtime
<1>4. rt' \in Runtime
  BY <1>2, <1>3 DEF Runtime
<1>5. /\ rt'.owner = rt.owner /\ rt'.open = rt.open /\ rt'.image = rt.image
      /\ rt'.published = rt.published /\ rt'.tick = rt.tick /\ rt'.abandoned = rt.abandoned
      /\ rt'.tasks = [rt.tasks EXCEPT ![t] = x]
  BY <1>2 DEF Runtime
<1>6. ASSUME NEW u \in Task
      PROVE  Kept(rt.tasks[u], rt'.tasks[u]) /\ rt'.tasks[u].cursor = rt.tasks[u].cursor
  <2>1. CASE u = t
    BY <1>2, <1>5, <2>1 DEF Runtime
  <2>2. CASE u # t
    BY <1>5, <2>2 DEF Kept, Runtime
  <2> QED
    BY <2>1, <2>2
<1> QED
  BY <1>4, <1>5, <1>6, NoteSafe

\* So do a resource fault and a command of the debugger.
LEMMA HostCallSafe ==
  ASSUME rt \in Runtime, Safe(rt),
         \/ ReportResourceFault
         \/ \E command \in {"continue_", "step_in"} : Control(command)
  PROVE  rt' \in Runtime /\ Safe(rt')
<1>1. /\ rt' \in Runtime
      /\ rt'.owner = rt.owner /\ rt'.open = rt.open /\ rt'.image = rt.image
      /\ rt'.published = rt.published /\ rt'.tick = rt.tick /\ rt'.abandoned = rt.abandoned
      /\ rt'.tasks = rt.tasks
  <2>1. CASE ReportResourceFault
    <3>1. rt' = [rt EXCEPT !.pending = TRUE]
      BY <2>1 DEF ReportResourceFault
    <3> QED
      BY <3>1 DEF Runtime
  <2>2. ASSUME NEW command \in {"continue_", "step_in"}, Control(command)
        PROVE  /\ rt' \in Runtime
               /\ rt'.owner = rt.owner /\ rt'.open = rt.open /\ rt'.image = rt.image
               /\ rt'.published = rt.published /\ rt'.tick = rt.tick
               /\ rt'.abandoned = rt.abandoned /\ rt'.tasks = rt.tasks
    <3>1. rt' = [rt EXCEPT !.mailbox = command]
      BY <2>2 DEF Control
    <3>2. command \in {"none", "continue_", "step_in"}
      OBVIOUS
    <3> QED
      BY <3>1, <3>2 DEF Runtime
  <2> QED
    BY <2>1, <2>2
<1> QED
  BY <1>1, NoteSafe DEF Kept

\* load() establishes the invariant.
LEMMA RuntimeInit == Init => RuntimeInv
<1> SUFFICES ASSUME Init PROVE RuntimeInv
  OBVIOUS
<1>1. /\ InitialTask.transaction = FALSE /\ ~Ongoing(InitialTask)
      /\ InitialTask.releases = 0 /\ InitialTask.completed = 0
      /\ InitialTask.faults = 0 /\ InitialTask.missed = 0
  BY DEF InitialTask, Ongoing
<1> DEFINE stamps == [v \in Var |-> [stamp |-> 0, owner |-> NoTask]]
<1>2. stamps \in [Var -> [stamp : 0 .. MaxTick + 1, owner : Task \cup {NoTask}]]
  BY MaxTickType
<1>3. 0 \in 0 .. MaxTick
  BY MaxTickType
<1>4. rt \in Runtime
  <2> HIDE DEF stamps
  <2>1. rt = [tick |-> 0, tasks |-> [t \in Task |-> InitialTask],
              instances |-> [m \in Mapping |-> InitialInstance],
              parked |-> [t \in Task |-> NotParked],
              owner |-> NoTask, fault |-> FALSE, pending |-> FALSE,
              image |-> InitialImage, published |-> InitialImage, open |-> FALSE,
              current_dirty |-> {}, dirty |-> {}, stamps |-> stamps, conflicts |-> 0,
              mailbox |-> "none", command |-> "continue_", stopped |-> Nowhere,
              skip |-> Nowhere, wrote |-> [t \in Task |-> Nothing],
              abandoned |-> [t \in Task |-> 0]]
    BY DEF Init, stamps
  <2> QED
    BY <1>2, <1>3, <2>1, ConstantTypes DEF Runtime
<1>5. Safe(rt)
  <2>1. /\ rt.owner = NoTask /\ rt.open = FALSE /\ rt.image = rt.published /\ rt.tick = 0
        /\ \A t \in Task : rt.tasks[t] = InitialTask /\ rt.abandoned[t] = 0
    BY DEF Init
  <2>2. Exclusive(rt)
    BY <1>1, <2>1, NoTaskIsNone DEF Exclusive
  <2>3. ASSUME NEW t \in Task PROVE TaskSafe(t, rt.tasks[t], rt.abandoned[t], rt.tick)
    BY <1>1, <2>1 DEF TaskSafe, Accounted
  <2> QED
    BY <2>2, <2>3 DEF Safe
<1> QED
  BY <1>4, <1>5 DEF RuntimeInv

\* Every action keeps it.
LEMMA RuntimeStep == RuntimeInv /\ [Next]_rt => RuntimeInv'
<1> SUFFICES ASSUME rt \in Runtime, Safe(rt), [Next]_rt
             PROVE  rt' \in Runtime /\ Safe(rt')
  BY DEF RuntimeInv
<1>1. CASE \E events \in SUBSET {t \in Task : Interval[t] = 0} : Boundary(events)
  BY <1>1, BoundarySafe
<1>2. CASE Turn
  BY <1>2, TurnSafe
<1>3. CASE IdleTurn
  BY <1>3, IdleTurnSafe
<1>4. CASE \E t \in Task : TaskCall(t)
  BY <1>4, TaskCallSafe
<1>5. CASE ReportResourceFault
  BY <1>5, HostCallSafe
<1>6. CASE \E command \in {"continue_", "step_in"} : Control(command)
  BY <1>6, HostCallSafe
<1>7. CASE UNCHANGED rt
  BY <1>7
<1> QED
  BY <1>1, <1>2, <1>3, <1>4, <1>5, <1>6, <1>7 DEF Next

\* The invariant holds in every run of the resource.
THEOREM RuntimeInvariance == Spec => []RuntimeInv
  BY RuntimeInit, RuntimeStep, PTL DEF Spec

-----------------------------------------------------------------------------
(* What follows from it.                                                    *)

\* Whatever boundary() and run() do, in whatever order the host calls them, every
\* member keeps the type and the bounds of its declaration; no counter of a task
\* runs ahead of the ticks.
THEOREM RuntimeTypeCorrect == Spec => []TypeOK
<1>1. RuntimeInv => TypeOK
  <2> SUFFICES ASSUME RuntimeInv PROVE TypeOK
    OBVIOUS
  <2>1. rt \in Runtime /\ Safe(rt)
    BY DEF RuntimeInv
  <2>2. ASSUME NEW t \in Task
        PROVE  /\ rt.tasks[t] \in TaskType
               /\ rt.abandoned[t] \in 0 .. MaxTick
    <3>1. /\ rt.tasks[t] \in TaskRecord /\ rt.abandoned[t] \in Nat /\ rt.tick \in 0 .. MaxTick
          /\ TaskSafe(t, rt.tasks[t], rt.abandoned[t], rt.tick)
      BY <2>1 DEF Runtime, Safe
    <3>2. /\ rt.tasks[t].releases \in Nat /\ rt.tasks[t].completed \in Nat
          /\ rt.tasks[t].faults \in Nat /\ rt.tasks[t].missed \in Nat
      BY <3>1 DEF TaskRecord
    <3>3. /\ rt.tasks[t].releases \in 0 .. MaxTick /\ rt.tasks[t].completed \in 0 .. MaxTick
          /\ rt.tasks[t].faults \in 0 .. MaxTick /\ rt.tasks[t].missed \in 0 .. MaxTick
          /\ rt.abandoned[t] \in 0 .. MaxTick
      BY <3>1, <3>2, MaxTickType DEF TaskSafe, Accounted
    <3>4. rt.tasks[t] \in TaskType
      BY <3>1, <3>3, Zenon DEF TaskRecord, TaskType
    <3> QED
      BY <3>3, <3>4
  <2>3. \A t \in Task : rt.parked[t] \in ParkedRecord
    BY <2>1 DEF Runtime
  <2>4. /\ rt.tick \in 0 .. MaxTick
        /\ rt.instances \in [Mapping -> InstanceRecord]
        /\ rt.owner \in Task \cup {NoTask}
        /\ rt.fault \in BOOLEAN /\ rt.pending \in BOOLEAN /\ rt.open \in BOOLEAN
        /\ rt.image \in [Var -> Value] /\ rt.published \in [Var -> Value]
        /\ rt.dirty \in SUBSET Var /\ rt.current_dirty \in SUBSET Var
        /\ rt.stamps \in [Var -> [stamp : 0 .. MaxTick + 1, owner : Task \cup {NoTask}]]
        /\ rt.conflicts \in Nat
        /\ rt.stopped \in Place /\ rt.skip \in Place
        /\ rt.mailbox \in {"none", "continue_", "step_in"}
        /\ rt.command \in {"continue_", "step_in"}
    BY <2>1 DEF Runtime
  <2> QED
    BY <2>2, <2>3, <2>4 DEF TypeOK, ParkedRecord, InstanceRecord, Place
<1> QED
  BY <1>1, RuntimeInvariance, PTL

\* At most one transaction is open, its task runs, and outside a transaction the
\* working image is the published one: run() never lets a task build on, or
\* publish, what a fault, a stop or a reset has cut off.
THEOREM TransactionsDoNotOverlap == Spec => []OneOpenTransaction
<1>1. RuntimeInv => OneOpenTransaction
  <2> SUFFICES ASSUME RuntimeInv PROVE OneOpenTransaction
    OBVIOUS
  <2>1. Exclusive(rt) /\ rt.owner \in Task \cup {NoTask}
    BY DEF RuntimeInv, Safe, Runtime
  <2> QED
    BY <2>1 DEF Exclusive, OneOpenTransaction
<1> QED
  BY <1>1, RuntimeInvariance, PTL

\* fault_task, complete_task, the resets and the resource fault count every
\* release exactly once.
THEOREM ReleasesAreCounted == Spec => []ReleasesAccounted
<1>1. RuntimeInv => ReleasesAccounted
  BY DEF RuntimeInv, Safe, TaskSafe, Accounted, Ongoing, ReleasesAccounted
<1> QED
  BY <1>1, RuntimeInvariance, PTL

-----------------------------------------------------------------------------
(* Without a debugger, releases are atomic.                                 *)

\* Nothing ever stops: no breakpoints, and the host does not ask for steps.
NoDebugger == Breakpoints = {} /\ "step_in" \notin Calls

Undebugged(r) ==
    /\ r.command = "continue_" /\ r.mailbox # "step_in"
    /\ \A t \in Task : r.tasks[t].state # "paused" /\ r.parked[t].is = FALSE

Scanning(r, m) == r.instances[m].state = "running"

\* Where the writes of the open transaction are: in the variables of the program
\* that is scanning if it has stored them, in the working image otherwise.
Uncommitted(r, t, m) ==
    /\ DOMAIN r.wrote[t] = r.dirty
    /\ Scanning(r, m) => r.current_dirty \subseteq r.dirty /\ r.current_dirty \subseteq Layout[m]
    /\ \A v \in Var :
          /\ v \notin r.dirty => r.image[v] = r.published[v]
          /\ v \in r.dirty =>
                IF Scanning(r, m) /\ v \in r.current_dirty
                THEN r.instances[m].vars[v] = r.wrote[t][v]
                ELSE r.image[v] = r.wrote[t][v]

\* Only the task that has the transaction has written, and only its current
\* program may be in the middle of a scan.
Transacts(r) ==
    /\ \A t \in Task : r.owner # t => r.wrote[t] = Nothing
    /\ \A m \in Mapping :
          Scanning(r, m) => r.owner # NoTask /\ m = CurrentMapping(r, r.owner)
    /\ r.owner # NoTask => Uncommitted(r, r.owner, CurrentMapping(r, r.owner))

\* What Transacts looks at.
SameView(r, s) ==
    /\ s.owner = r.owner /\ s.wrote = r.wrote /\ s.published = r.published
    /\ s.image = r.image /\ s.dirty = r.dirty /\ s.current_dirty = r.current_dirty
    /\ \A m \in Mapping : /\ s.instances[m].state = r.instances[m].state
                          /\ s.instances[m].vars = r.instances[m].vars
    /\ r.owner # NoTask => s.tasks[r.owner].cursor = r.tasks[r.owner].cursor

AtProgram(r) == r.owner # NoTask => CurrentMapping(r, r.owner) \in Mapping

\* The task with the open transaction is at one of its programs.
LEMMA OwnerAtProgram ==
  ASSUME NEW r \in Runtime, Safe(r)
  PROVE  AtProgram(r) /\ (r.owner # NoTask =>
            r.owner \in Task /\ CurrentMapping(r, r.owner) \in MappingsOf(r.owner))
<1> SUFFICES ASSUME r.owner # NoTask
             PROVE  /\ r.owner \in Task
                    /\ CurrentMapping(r, r.owner) \in MappingsOf(r.owner)
                    /\ CurrentMapping(r, r.owner) \in Mapping
  BY DEF AtProgram
<1>1. r.owner \in Task /\ r.tasks[r.owner].state = "running"
  BY DEF Safe, Exclusive, Runtime
<1>2. TaskSafe(r.owner, r.tasks[r.owner], r.abandoned[r.owner], r.tick)
  BY <1>1 DEF Safe
<1>3. r.tasks[r.owner].cursor \in DOMAIN Mappings[r.owner]
  BY <1>1, <1>2 DEF TaskSafe, Ongoing
<1> QED
  BY <1>1, <1>3, CurrentMappingType

\* What leaves image, writes and programs alone leaves the transaction alone.
LEMMA SameViewTransacts ==
  ASSUME NEW r, NEW s, AtProgram(r), Transacts(r), SameView(r, s)
  PROVE  Transacts(s)
<1>1. r.owner # NoTask => CurrentMapping(s, r.owner) = CurrentMapping(r, r.owner)
  BY DEF SameView, CurrentMapping
<1>2. \A m \in Mapping : Scanning(s, m) <=> Scanning(r, m)
  BY DEF SameView, Scanning
<1>3. \A t \in Task : s.owner # t => s.wrote[t] = Nothing
  BY DEF SameView, Transacts
<1>4. \A m \in Mapping : Scanning(s, m) => s.owner # NoTask /\ m = CurrentMapping(s, s.owner)
  BY <1>1, <1>2 DEF SameView, Transacts
<1>5. ASSUME s.owner # NoTask PROVE Uncommitted(s, s.owner, CurrentMapping(s, s.owner))
  <2>1. PICK m \in Mapping : m = CurrentMapping(r, r.owner) /\ m = CurrentMapping(s, s.owner)
    BY <1>1, <1>5 DEF AtProgram, SameView
  <2>2. Uncommitted(r, r.owner, m)
    BY <1>5, <2>1 DEF SameView, Transacts
  <2>3. Uncommitted(s, s.owner, m)
    BY <1>2, <2>2 DEF SameView, Uncommitted
  <2> QED
    BY <2>1, <2>3
<1> QED
  BY <1>3, <1>4, <1>5 DEF Transacts

\* Without a stopped task on_scheduler_boundary resumes nothing.
LEMMA UndebuggedBoundary ==
  ASSUME NEW r \in Runtime, Undebugged(r)
  PROVE  /\ SameView(r, SchedulerBoundary(r))
         /\ Undebugged(SchedulerBoundary(r))
<1>1. CASE r.mailbox = "none"
  BY <1>1 DEF SchedulerBoundary, SameView
<1>2. CASE r.mailbox # "none"
  <2>1. PICK c \in Runtime : c = [r EXCEPT !.mailbox = "none"]
    BY DEF Runtime
  <2>2. Debugged \in Task
    BY RuntimeAssumption
  <2>3. r.tasks[Debugged].state # "paused"
    BY <2>2 DEF Undebugged
  <2>4. SchedulerBoundary(r) = c \/ SchedulerBoundary(r) = [c EXCEPT !.command = "continue_"]
    BY <1>2, <2>1, <2>3 DEF SchedulerBoundary
  <2>5. SameView(r, c) /\ Undebugged(c)
    BY <2>1 DEF SameView, Undebugged, Runtime
  <2>6. /\ SameView(c, [c EXCEPT !.command = "continue_"])
        /\ Undebugged([c EXCEPT !.command = "continue_"])
    BY <2>5 DEF SameView, Undebugged, Runtime
  <2> QED
    BY <2>4, <2>5, <2>6 DEF SameView
<1> QED
  BY <1>1, <1>2

\* begin_transaction: an image as published, and nothing written yet.
LEMMA UndebuggedOpen ==
  ASSUME NEW r \in Runtime, Safe(r), Undebugged(r), Transacts(r), NEW t \in Task,
         r.tasks[t].state = "running", r.owner \in {NoTask, t}, NEW o, o = OpenTransaction(r, t)
  PROVE  /\ Undebugged(o) /\ Transacts(o)
         /\ o.wrote = r.wrote /\ o.published = r.published
<1>1. CASE r.owner = t
  <2>1. r.tasks[t].transaction = TRUE
    BY <1>1 DEF Safe, Exclusive
  <2>2. o = r
    BY <2>1 DEF OpenTransaction
  <2> QED
    BY <2>2
<1>2. CASE r.owner = NoTask
  <2>1. r.tasks[t].transaction = FALSE
    BY <1>2, NoTaskIsNone DEF Safe, Exclusive
  <2> DEFINE tasks == [r.tasks EXCEPT ![t] = [@ EXCEPT !.transaction = TRUE]]
  <2>2. PICK b : b = [r EXCEPT !.open = TRUE, !.dirty = {}, !.owner = t, !.tasks = tasks]
    OBVIOUS
  <2>3. r.parked[t].is = FALSE
    BY DEF Undebugged
  <2>4. o = b
    BY <2>1, <2>2, <2>3 DEF OpenTransaction, Runtime
  <2>5. \A u \in Task : tasks[u].state = r.tasks[u].state
    BY DEF Runtime, TaskRecord
  <2> HIDE DEF tasks
  <2>6. /\ b.owner = t /\ b.dirty = {} /\ b.tasks = tasks
        /\ b.wrote = r.wrote /\ b.published = r.published /\ b.image = r.image
        /\ b.instances = r.instances /\ b.parked = r.parked
        /\ b.command = r.command /\ b.mailbox = r.mailbox
    BY <2>2 DEF Runtime
  <2>7. Undebugged(b)
    BY <2>5, <2>6 DEF Undebugged
  <2>8. /\ \A u \in Task : r.wrote[u] = Nothing
        /\ \A m \in Mapping : ~Scanning(r, m)
        /\ r.image = r.published
    BY <1>2, NoTaskIsNone DEF Transacts, Safe, Exclusive
  <2>9. \A m \in Mapping : ~Scanning(b, m)
    BY <2>6, <2>8 DEF Scanning
  <2>10. DOMAIN Nothing = {}
    BY DEF Nothing
  <2>11. Uncommitted(b, t, CurrentMapping(b, t))
    <3>1. OpenTransaction(r, t) = b
      BY <2>4
    <3>2. b \in Runtime /\ Safe(b) /\ b.owner = t
      BY <3>1, OpenTransactionSafe
    <3>3. CurrentMapping(b, t) \in Mapping
      BY <3>2, NoTaskIsNone, OwnerAtProgram DEF AtProgram
    <3> QED
      BY <2>6, <2>8, <2>9, <2>10, <3>3 DEF Uncommitted
  <2>12. Transacts(b)
    BY <2>6, <2>8, <2>9, <2>11 DEF Transacts
  <2> QED
    BY <2>4, <2>6, <2>7, <2>12
<1> QED
  BY <1>1, <1>2

\* Instance::begin: the program of the transaction starts with no writes of its
\* own; what the programs before it wrote is in the image it reads.
LEMMA UndebuggedBegin ==
  ASSUME NEW r \in Runtime, Undebugged(r), Transacts(r), NEW t \in Task, r.owner = t,
         NEW m \in Mapping, m = CurrentMapping(r, t), NEW s, s = BeginScan(r, m)
  PROVE  /\ Undebugged(s) /\ Transacts(s)
         /\ s.wrote = r.wrote /\ s.published = r.published
         /\ Scanning(s, m)
<1>1. CASE r.instances[m].state = "running"
  BY <1>1 DEF BeginScan, Scanning
<1>2. CASE r.instances[m].state # "running"
  <2>1. PICK i : i = BegunInstance(r.instances[m], m, r.image)
    OBVIOUS
  <2>2. r.instances[m] \in InstanceRecord
    BY DEF Runtime
  <2>3. i.state = "running"
    BY <2>1, <2>2 DEF BegunInstance, InstanceRecord
  <2>4. s = [r EXCEPT !.current_dirty = {}, !.instances = [r.instances EXCEPT ![m] = i]]
    BY <1>2, <2>1 DEF BeginScan, Runtime
  <2>5. /\ s.owner = r.owner /\ s.wrote = r.wrote /\ s.published = r.published
        /\ s.image = r.image /\ s.dirty = r.dirty /\ s.current_dirty = {}
        /\ s.tasks = r.tasks /\ s.parked = r.parked
        /\ s.command = r.command /\ s.mailbox = r.mailbox
        /\ s.instances = [r.instances EXCEPT ![m] = i]
    BY <2>4 DEF Runtime
  <2>6. s.instances[m] = i /\ \A n \in Mapping : n # m => s.instances[n] = r.instances[n]
    BY <2>5 DEF Runtime
  <2>7. Undebugged(s)
    BY <2>5 DEF Undebugged
  <2>8. Scanning(s, m) /\ ~Scanning(r, m)
    BY <1>2, <2>3, <2>6 DEF Scanning
  <2>9. CurrentMapping(s, t) = m
    BY <2>5 DEF CurrentMapping
  <2>10. Uncommitted(r, t, m)
    BY NoTaskIsNone DEF Transacts
  <2>11. Uncommitted(s, t, m)
    BY <2>5, <2>8, <2>10 DEF Uncommitted
  <2>12. \A n \in Mapping : Scanning(s, n) => n = m
    BY <2>6, <2>8 DEF Scanning, Transacts
  <2>13. Transacts(s)
    BY <2>5, <2>9, <2>11, <2>12, NoTaskIsNone DEF Transacts
  <2> QED
    BY <2>5, <2>7, <2>8, <2>13
<1> QED
  BY <1>1, <1>2

\* Charging an instruction changes none of it.
LEMMA UndebuggedCharge ==
  ASSUME NEW r \in Runtime, Undebugged(r), NEW t \in Task, NEW m \in Mapping, NEW pc \in Nat,
         r.tasks[t].budget # 0, NEW c, c = Charge(r, t, m, pc)
  PROVE  SameView(r, c) /\ Undebugged(c)
<1> DEFINE x == [r.tasks[t] EXCEPT !.budget = @ - 1]
           i == [r.instances[m] EXCEPT !.pc = pc]
<1>1. r.tasks[t] \in TaskRecord /\ r.instances[m] \in InstanceRecord
  BY DEF Runtime
<1>2. c = [r EXCEPT !.tasks = [r.tasks EXCEPT ![t] = x],
                    !.instances = [r.instances EXCEPT ![m] = i],
                    !.skip = IF @ = Here(r, m) THEN Nowhere ELSE @]
  BY DEF Charge, Here, Runtime
<1>3. x.state = r.tasks[t].state /\ x.cursor = r.tasks[t].cursor
  BY <1>1 DEF TaskRecord
<1>4. i.state = r.instances[m].state /\ i.vars = r.instances[m].vars
  BY <1>1 DEF InstanceRecord
<1> HIDE DEF x, i
<1>5. /\ c.tasks = [r.tasks EXCEPT ![t] = x]
      /\ c.instances = [r.instances EXCEPT ![m] = i]
  BY <1>2 DEF Runtime
<1>6. Charges(r, c)
  BY <1>2 DEF Charges, Runtime
<1>7. \A u \in Task : /\ c.tasks[u].state = r.tasks[u].state
                      /\ c.tasks[u].cursor = r.tasks[u].cursor
  BY <1>3, <1>5 DEF Runtime
<1>8. \A n \in Mapping : /\ c.instances[n].state = r.instances[n].state
                         /\ c.instances[n].vars = r.instances[n].vars
  BY <1>4, <1>5 DEF Runtime
<1>9. r.owner # NoTask => r.owner \in Task
  BY DEF Runtime
<1> QED
  BY <1>6, <1>7, <1>8, <1>9 DEF SameView, Undebugged, Charges

\* What a step may do to the outputs and to what the releases have written: the
\* steps of AtomicTasks, and none.
Release(published, wrote, published_next, wrote_next) ==
    \/ published_next = published /\ wrote_next = wrote
    \/ /\ published_next = published
       /\ \E t \in Task, v \in Var, value \in Value :
             wrote_next = [wrote EXCEPT ![t] =
                             [w \in DOMAIN @ \cup {v} |-> IF w = v THEN value ELSE @[w]]]
    \/ \E t \in Task :
          /\ published_next = [v \in Var |-> IF v \in DOMAIN wrote[t] THEN wrote[t][v]
                                             ELSE published[v]]
          /\ wrote_next = [wrote EXCEPT ![t] = Nothing]
    \/ /\ published_next = published
       /\ \E S \in SUBSET Task :
             wrote_next = [t \in Task |-> IF t \in S THEN Nothing ELSE wrote[t]]

Releases(r, s) == Release(r.published, r.wrote, s.published, s.wrote)

\* What an instruction relies on: it belongs to the program that scans in the
\* open transaction.
InScan(r, t, m) ==
    /\ Undebugged(r) /\ Transacts(r) /\ r.owner = t
    /\ m = CurrentMapping(r, t) /\ m \in MappingsOf(t) /\ Scanning(r, m)

Quiet(r) == Undebugged(r) /\ Transacts(r)

\* A store is a write of the release.
LEMMA StoreWrites ==
  ASSUME NEW r \in Runtime, NEW t \in Task, NEW m \in Mapping, InScan(r, t, m),
         r.tasks[t].budget # 0, NEW v \in Var, v \in Layout[m],
         NEW s, s = Store(r, t, m, v)
  PROVE  Quiet(s) /\ Releases(r, s)
<1>1. PICK value \in Value : value = <<t, r.tasks[t].release_tick>>
  BY DEF Runtime, TaskRecord, Value
<1>2. r.instances[m].pc + 1 \in Nat
  BY DEF Runtime, InstanceRecord
<1>3. PICK c \in Runtime : c = Charge(r, t, m, r.instances[m].pc + 1)
  BY <1>2, ChargeTypes
<1>4. SameView(r, c) /\ Undebugged(c)
  BY <1>2, <1>3, UndebuggedCharge DEF InScan
<1>5. Transacts(c)
  BY <1>4, SameViewTransacts DEF InScan, AtProgram
<1>6. c.owner = t /\ Scanning(c, m) /\ CurrentMapping(c, t) = m
  BY <1>4, NoTaskIsNone DEF InScan, SameView, Scanning, CurrentMapping
<1> DEFINE i == [c.instances[m] EXCEPT !.vars[v] = value]
           f == [w \in DOMAIN c.wrote[t] \cup {v} |-> IF w = v THEN value ELSE c.wrote[t][w]]
<1>7. s = [c EXCEPT !.instances = [c.instances EXCEPT ![m] = i],
                    !.current_dirty = @ \cup {v},
                    !.dirty = @ \cup {v},
                    !.wrote = [c.wrote EXCEPT ![t] = f]]
  BY <1>1, <1>3 DEF Store, Runtime
<1>8. /\ i.state = c.instances[m].state
      /\ i.vars[v] = value
      /\ \A w \in Var : w # v => i.vars[w] = c.instances[m].vars[w]
  <2>1. c.instances[m] \in InstanceRecord
    BY DEF Runtime
  <2> QED
    BY <2>1 DEF InstanceRecord
<1>9. /\ DOMAIN f = DOMAIN c.wrote[t] \cup {v}
      /\ f[v] = value
      /\ \A w \in DOMAIN c.wrote[t] : w # v => f[w] = c.wrote[t][w]
  OBVIOUS
<1> HIDE DEF i, f
<1>10. /\ s.owner = c.owner /\ s.published = c.published /\ s.image = c.image
       /\ s.tasks = c.tasks /\ s.parked = c.parked
       /\ s.command = c.command /\ s.mailbox = c.mailbox
       /\ s.dirty = c.dirty \cup {v} /\ s.current_dirty = c.current_dirty \cup {v}
       /\ s.instances = [c.instances EXCEPT ![m] = i]
       /\ s.wrote = [c.wrote EXCEPT ![t] = f]
  BY <1>7 DEF Runtime
<1>11. /\ s.instances[m] = i
       /\ \A n \in Mapping : n # m => s.instances[n] = c.instances[n]
       /\ s.wrote[t] = f
       /\ \A u \in Task : u # t => s.wrote[u] = c.wrote[u]
  BY <1>10 DEF Runtime
<1>12. Undebugged(s)
  BY <1>4, <1>10 DEF Undebugged
<1>13. Uncommitted(c, t, m)
  BY <1>5, <1>6, NoTaskIsNone DEF Transacts
<1>14. Scanning(s, m)
  BY <1>6, <1>8, <1>11 DEF Scanning
<1>15. Uncommitted(s, t, m)
  <2>1. DOMAIN s.wrote[t] = s.dirty
    BY <1>9, <1>10, <1>11, <1>13 DEF Uncommitted
  <2>2. s.current_dirty \subseteq s.dirty /\ s.current_dirty \subseteq Layout[m]
    BY <1>6, <1>10, <1>13 DEF Uncommitted
  <2>3. ASSUME NEW w \in Var
        PROVE  /\ w \notin s.dirty => s.image[w] = s.published[w]
               /\ w \in s.dirty => IF w \in s.current_dirty
                                   THEN s.instances[m].vars[w] = s.wrote[t][w]
                                   ELSE s.image[w] = s.wrote[t][w]
    <3>1. CASE w = v
      BY <1>8, <1>9, <1>10, <1>11, <3>1
    <3>2. CASE w # v
      BY <1>6, <1>8, <1>9, <1>10, <1>11, <1>13, <3>2 DEF Uncommitted
    <3> QED
      BY <3>1, <3>2
  <2> QED
    BY <1>14, <2>1, <2>2, <2>3 DEF Uncommitted
<1>16. \A n \in Mapping : Scanning(s, n) => n = m
  BY <1>5, <1>6, <1>11 DEF Scanning, Transacts
<1>17. CurrentMapping(s, t) = m
  BY <1>6, <1>10 DEF CurrentMapping
<1>18. Transacts(s)
  BY <1>5, <1>6, <1>10, <1>11, <1>15, <1>16, <1>17, NoTaskIsNone DEF Transacts
<1>19. /\ s.published = r.published
       /\ s.wrote = [r.wrote EXCEPT ![t] =
                        [w \in DOMAIN @ \cup {v} |-> IF w = v THEN value ELSE @[w]]]
  BY <1>4, <1>10 DEF SameView, f
<1>20. \E u \in Task, x \in Var, y \in Value :
          s.wrote = [r.wrote EXCEPT ![u] =
                        [w \in DOMAIN @ \cup {x} |-> IF w = x THEN y ELSE @[w]]]
  BY <1>19, Zenon
<1> QED
  BY <1>12, <1>18, <1>19, <1>20, Zenon DEF Release, Releases, Quiet

\* A fault gives up what its release has written.
LEMMA LatchAbandons ==
  ASSUME NEW r \in Runtime, NEW t \in Task, NEW m \in Mapping, InScan(r, t, m),
         NEW why \in {"budget", "wallclock", "runtime"},
         NEW s, s = Latch(r, t, m, why)
  PROVE  Quiet(s) /\ Releases(r, s)
<1> DEFINE x == [r.instances[m] EXCEPT !.fault = TRUE]
<1>1. r.instances[m] \in InstanceRecord
  BY DEF Runtime
<1>2. x.state = "running"
  BY <1>1 DEF InScan, Scanning, InstanceRecord
<1>3. PICK g : g = [r EXCEPT !.instances = [r.instances EXCEPT ![m] = x]]
  OBVIOUS
<1>4. s = Fault(g, t, why)
  BY <1>3 DEF Latch, Runtime
<1> HIDE DEF x
<1>5. /\ g.owner = r.owner /\ g.tasks = r.tasks /\ g.published = r.published
      /\ g.wrote = r.wrote /\ g.parked = r.parked
      /\ g.command = r.command /\ g.mailbox = r.mailbox
      /\ g.instances = [r.instances EXCEPT ![m] = x]
  BY <1>3 DEF Runtime
<1>6. PICK d : d = [g EXCEPT !.image = g.published, !.open = FALSE, !.owner = NoTask]
  OBVIOUS
<1>7. DiscardTransactions(g, {t}) = d
  BY <1>5, <1>6 DEF DiscardTransactions, DiscardScan, InScan
<1>8. /\ d.owner = NoTask /\ d.tasks = r.tasks /\ d.published = r.published
      /\ d.wrote = r.wrote /\ d.parked = r.parked
      /\ d.command = r.command /\ d.mailbox = r.mailbox
  BY <1>3, <1>5, <1>6 DEF Runtime
<1> DEFINE instances == [n \in Mapping |-> IF n \in MappingsOf(t) THEN AbortInstance(g.instances[n])
                                                                 ELSE g.instances[n]]
<1>9. s = [d EXCEPT !.tasks[t] = FaultedTask(@, why), !.instances = instances,
                    !.parked[t] = NotParked, !.wrote[t] = Nothing]
  BY <1>4, <1>7 DEF Fault
<1>10. \A n \in Mapping : instances[n].state # "running"
  <2> SUFFICES ASSUME NEW n \in Mapping PROVE instances[n].state # "running"
    OBVIOUS
  <2>1. CASE n \in MappingsOf(t)
    <3>1. g.instances[n] = IF n = m THEN x ELSE r.instances[n]
      BY <1>5 DEF Runtime
    <3>2. x \in InstanceRecord /\ r.instances[n] \in InstanceRecord
      BY <1>1 DEF Runtime, InstanceRecord, x
    <3>3. g.instances[n] \in InstanceRecord
      BY <3>1, <3>2
    <3>4. AbortInstance(g.instances[n]).state = "idle"
      BY <3>3 DEF AbortInstance, InstanceRecord
    <3> QED
      BY <2>1, <3>4
  <2>2. CASE n \notin MappingsOf(t)
    <3>1. n # m
      BY <2>2 DEF InScan
    <3>2. g.instances[n] = r.instances[n]
      BY <1>5, <3>1 DEF Runtime
    <3>3. ~Scanning(r, n)
      BY <3>1 DEF InScan, Transacts
    <3> QED
      BY <2>2, <3>2, <3>3 DEF Scanning
  <2> QED
    BY <2>1, <2>2
<1> HIDE DEF instances
<1>11. /\ s.owner = NoTask /\ s.published = r.published
       /\ s.command = r.command /\ s.mailbox = r.mailbox
       /\ s.instances = instances
       /\ s.tasks = [r.tasks EXCEPT ![t] = FaultedTask(@, why)]
       /\ s.parked = [r.parked EXCEPT ![t] = NotParked]
       /\ s.wrote = [r.wrote EXCEPT ![t] = Nothing]
  BY <1>3, <1>6, <1>8, <1>9 DEF Runtime
<1>12. /\ s.wrote[t] = Nothing
       /\ \A u \in Task : u # t => s.wrote[u] = r.wrote[u]
       /\ s.parked[t] = NotParked
       /\ \A u \in Task : u # t => s.parked[u] = r.parked[u] /\ s.tasks[u] = r.tasks[u]
       /\ s.tasks[t] = FaultedTask(r.tasks[t], why)
  BY <1>11 DEF Runtime
<1>13. FaultedTask(r.tasks[t], why).state = "faulted"
  BY DEF FaultedTask, Runtime, TaskRecord
<1>14. Undebugged(s)
  BY <1>11, <1>12, <1>13 DEF Undebugged, NotParked, InScan
<1>15. \A u \in Task : s.wrote[u] = Nothing
  BY <1>12 DEF InScan, Transacts
<1>16. Transacts(s)
  BY <1>10, <1>11, <1>15 DEF Transacts, Scanning
<1>17. s.wrote = [u \in Task |-> IF u \in {t} THEN Nothing ELSE r.wrote[u]]
  BY <1>11 DEF Runtime
<1>18. \E S \in SUBSET Task : s.wrote = [u \in Task |-> IF u \in S THEN Nothing ELSE r.wrote[u]]
  BY <1>17
<1> QED
  BY <1>11, <1>14, <1>16, <1>18 DEF Release, Releases, Quiet

\* The end of a program puts its writes in the working image; the end of the last
\* one publishes all that the release has written.
LEMMA HaltCommits ==
  ASSUME NEW r \in Runtime, Safe(r), NEW t \in Task, NEW m \in Mapping, InScan(r, t, m),
         r.tasks[t].budget # 0, NEW s, s = Halt(r, t, m)
  PROVE  Quiet(s) /\ Releases(r, s)
<1>1. PICK h \in Runtime : h = EndedProgram(r, t, m)
  BY EndedProgramIs
<1>2. ProgramEnds(r, h, t, m)
  BY <1>1, EndedProgramIs
<1>3. s = IF h.tasks[t].cursor > Len(Mappings[t]) THEN CompleteTask(h, t) ELSE h
  <2>1. PICK k : k = EndedProgram(r, t, m)
    OBVIOUS
  <2>2. Halt(r, t, m) = IF k.tasks[t].cursor > Len(Mappings[t]) THEN CompleteTask(k, t) ELSE k
    BY <2>1 DEF Halt, EndedProgram
  <2> QED
    BY <1>1, <2>1, <2>2
<1>4. /\ h.owner = t /\ h.published = r.published
      /\ h.wrote = r.wrote /\ h.dirty = r.dirty /\ h.parked = r.parked
      /\ h.command = r.command /\ h.mailbox = r.mailbox
  BY <1>2 DEF ProgramEnds, InScan
<1>5. \A u \in Task : h.tasks[u].state = r.tasks[u].state
  BY <1>2 DEF ProgramEnds, Kept
<1>6. Undebugged(h)
  BY <1>4, <1>5 DEF Undebugged, InScan
<1>7. Uncommitted(r, t, m)
  BY NoTaskIsNone DEF Transacts, InScan
<1>8. \A n \in Mapping : ~Scanning(h, n)
  BY <1>2 DEF ProgramEnds, Scanning, InScan, Transacts
<1>9. \A v \in Var : h.image[v] = IF v \in r.dirty THEN r.wrote[t][v] ELSE r.published[v]
  <2>1. h.image = [v \in Var |-> IF v \in Layout[m] /\ v \in r.current_dirty
                                 THEN r.instances[m].vars[v] ELSE r.image[v]]
    BY <1>2 DEF ProgramEnds
  <2> QED
    BY <1>7, <2>1 DEF Uncommitted, InScan
<1>10. DOMAIN r.wrote[t] = r.dirty
  BY <1>7 DEF Uncommitted
<1>11. \A u \in Task : u # t => r.wrote[u] = Nothing
  BY DEF InScan, Transacts
<1>12. CASE h.tasks[t].cursor > Len(Mappings[t])
  <2>1. s = CompleteTask(h, t)
    BY <1>3, <1>12
  <2>2. h.tasks[t].transaction = TRUE
    <3>1. r.tasks[t].transaction = TRUE
      BY DEF InScan, Safe, Exclusive
    <3> QED
      BY <1>2, <3>1 DEF ProgramEnds, Kept
  <2>3. Completes(h, s, t)
    BY <2>1, <2>2, CompleteTaskIs
  <2>4. /\ s.owner = NoTask /\ s.published = h.image /\ s.instances = h.instances
        /\ s.mailbox = h.mailbox /\ s.command = h.command
        /\ s.wrote = [r.wrote EXCEPT ![t] = Nothing]
        /\ s.parked = [h.parked EXCEPT ![t] = NotParked]
        /\ s.tasks = [h.tasks EXCEPT ![t] = CompletedTask(@)]
    BY <1>4, <2>3 DEF Completes
  <2>5. /\ s.wrote[t] = Nothing
        /\ \A u \in Task : u # t => s.wrote[u] = r.wrote[u]
        /\ s.parked[t] = NotParked /\ s.tasks[t] = CompletedTask(h.tasks[t])
        /\ \A u \in Task : u # t => s.parked[u] = h.parked[u] /\ s.tasks[u] = h.tasks[u]
    BY <2>4 DEF Runtime
  <2>6. s.tasks[t].state = "idle"
    <3>1. PICK x \in TaskRecord : x = h.tasks[t]
      BY DEF Runtime
    <3>2. CompletedTask(x).state = "idle"
      BY CompletedTaskIs
    <3> QED
      BY <2>5, <3>1, <3>2
  <2>7. Undebugged(s)
    BY <1>6, <2>4, <2>5, <2>6 DEF Undebugged, NotParked
  <2>8. \A u \in Task : s.wrote[u] = Nothing
    BY <1>11, <2>5
  <2>9. \A n \in Mapping : ~Scanning(s, n)
    BY <1>8, <2>4 DEF Scanning
  <2>10. Transacts(s)
    BY <2>4, <2>8, <2>9 DEF Transacts
  <2>11. s.published = [v \in Var |-> IF v \in DOMAIN r.wrote[t] THEN r.wrote[t][v]
                                      ELSE r.published[v]]
    <3>1. h.image \in [Var -> Value]
      BY DEF Runtime
    <3> QED
      BY <1>9, <1>10, <2>4, <3>1
  <2>12. \E u \in Task :
            /\ s.published = [v \in Var |-> IF v \in DOMAIN r.wrote[u] THEN r.wrote[u][v]
                                            ELSE r.published[v]]
            /\ s.wrote = [r.wrote EXCEPT ![u] = Nothing]
    BY <2>4, <2>11, Zenon
  <2> QED
    BY <2>7, <2>10, <2>12, Zenon DEF Release, Releases, Quiet
<1>13. CASE ~(h.tasks[t].cursor > Len(Mappings[t]))
  <2>1. s = h
    BY <1>3, <1>13
  <2>2. \A v \in Var :
           /\ v \notin h.dirty => h.image[v] = h.published[v]
           /\ v \in h.dirty => h.image[v] = h.wrote[t][v]
    BY <1>4, <1>9
  <2>3. CurrentMapping(h, t) \in Mapping
    <3>1. h \in Runtime /\ Safe(h)
      BY <2>1, HaltSafe DEF InScan
    <3> QED
      BY <1>4, <3>1, NoTaskIsNone, OwnerAtProgram DEF AtProgram
  <2>4. Uncommitted(h, t, CurrentMapping(h, t))
    BY <1>4, <1>8, <1>10, <2>2, <2>3 DEF Uncommitted
  <2>5. Transacts(h)
    BY <1>4, <1>8, <1>11, <2>4 DEF Transacts
  <2> QED
    BY <1>4, <1>6, <2>1, <2>5 DEF Release, Releases, Quiet
<1> QED
  BY <1>12, <1>13

\* Without a debugger no instruction stops the task.
LEMMA InstructionReleases ==
  ASSUME NoDebugger, NEW r \in Runtime, Safe(r), NEW t \in Task, NEW m \in Mapping,
         InScan(r, t, m), NEW s \in Outcomes(r, t, m)
  PROVE  Quiet(s) /\ Releases(r, s)
<1> DEFINE pc == r.instances[m].pc
           next == Charge(r, t, m, pc + 1)
<1>1. pc \in Nat /\ pc + 1 \in Nat
  BY DEF Runtime, InstanceRecord
<1>2. ~Stops(r, t, m)
  BY DEF NoDebugger, Stops, InScan, Undebugged
<1>3. CASE r.tasks[t].budget = 0
  <2>1. s = Latch(r, t, m, "budget")
    BY <1>3 DEF Outcomes
  <2> QED
    BY <2>1, LatchAbandons
<1>4. CASE r.tasks[t].budget # 0
  <2>1. ASSUME NEW n \in Nat
        PROVE  /\ Charge(r, t, m, n) \in Runtime
               /\ InScan(Charge(r, t, m, n), t, m)
               /\ Charge(r, t, m, n).published = r.published
               /\ Charge(r, t, m, n).wrote = r.wrote
    <3>1. PICK c \in Runtime : c = Charge(r, t, m, n)
      BY <1>4, ChargeTypes
    <3>2. SameView(r, c) /\ Undebugged(c)
      BY <1>4, <3>1, UndebuggedCharge DEF InScan
    <3>3. Transacts(c)
      BY <3>2, SameViewTransacts DEF InScan, AtProgram
    <3>4. InScan(c, t, m)
      BY <3>2, <3>3, NoTaskIsNone DEF InScan, SameView, Scanning, CurrentMapping
    <3> QED
      BY <3>1, <3>2, <3>4 DEF SameView
  <2>2. CASE s = Halt(r, t, m)
    BY <1>4, <2>2, HaltCommits
  <2>3. CASE pc \in DOMAIN Program[m] /\ s = Store(r, t, m, Program[m][pc].var)
    <3>1. Program[m][pc].var \in Var /\ Program[m][pc].var \in Layout[m]
      BY <2>3, InstructionType
    <3> QED
      BY <1>4, <2>3, <3>1, StoreWrites
  <2>4. CASE s = next
    BY <1>1, <2>1, <2>4 DEF Release, Releases, InScan, Quiet
  <2>5. CASE s = Latch(Charge(r, t, m, pc), t, m, "runtime")
    <3>1. PICK c \in Runtime : /\ c = Charge(r, t, m, pc) /\ InScan(c, t, m)
                              /\ c.published = r.published /\ c.wrote = r.wrote
      BY <1>1, <2>1
    <3>2. Quiet(s) /\ Releases(c, s)
      BY <2>5, <3>1, LatchAbandons
    <3>3. Releases(r, s)
      BY <3>1, <3>2 DEF Releases
    <3> QED
      BY <3>2, <3>3
  <2>6. CASE s = Charge(r, t, m, 1)
    BY <2>1, <2>6 DEF Release, Releases, InScan, Quiet
  <2>7. \/ s = Halt(r, t, m)
        \/ pc \in DOMAIN Program[m] /\ s = Store(r, t, m, Program[m][pc].var)
        \/ s = next
        \/ s = Latch(Charge(r, t, m, pc), t, m, "runtime")
        \/ s = Charge(r, t, m, 1)
    <3>1. CASE pc \notin DOMAIN Program[m]
      BY <1>2, <1>4, <3>1 DEF Outcomes
    <3>2. CASE pc \in DOMAIN Program[m]
      <4>1. Program[m][pc].op \in Op
        BY <3>2, InstructionType
      <4> QED
        BY <1>2, <1>4, <3>2, <4>1 DEF Outcomes, Op
    <3> QED
      BY <3>1, <3>2
  <2> QED
    BY <2>2, <2>3, <2>4, <2>5, <2>6, <2>7
<1> QED
  BY <1>3, <1>4

\* boundary() leaves a program scanning only if nothing touches it.
LEMMA BoundaryInstanceIs ==
  ASSUME NEW r \in Runtime, NEW m \in Mapping
  PROVE  /\ BoundaryInstance(r, m).state = "running" => Scanning(r, m) /\ ~Aborted(r, m)
         /\ ~Restarted(r, m) /\ ~Aborted(r, m) /\ ~Resumed(r, m) =>
               BoundaryInstance(r, m) = r.instances[m]
<1>1. r.instances[m] \in InstanceRecord
  BY DEF Runtime
<1>2. PICK i \in InstanceRecord :
            i = IF Aborted(r, m) THEN AbortInstance(r.instances[m]) ELSE r.instances[m]
  BY <1>1 DEF AbortInstance, InstanceRecord
<1>3. i.state = "running" => Scanning(r, m) /\ ~Aborted(r, m)
  BY <1>1, <1>2 DEF AbortInstance, InstanceRecord, Scanning
<1>4. BoundaryInstance(r, m) = IF Restarted(r, m) THEN InitialInstance
                               ELSE IF Resumed(r, m) THEN [i EXCEPT !.fault = FALSE] ELSE i
  BY <1>2 DEF BoundaryInstance
<1>5. [i EXCEPT !.fault = FALSE].state = i.state
  BY DEF InstanceRecord
<1>6. InitialInstance.state = "idle"
  BY DEF InitialInstance
<1> QED
  BY <1>2, <1>3, <1>4, <1>5, <1>6

\* A task that a boundary does not end keeps its programs.
LEMMA NotEnded ==
  ASSUME NEW r \in Runtime, NEW t \in Task, t \notin EndedTransactions(r),
         NEW m \in Mapping, m \in MappingsOf(t)
  PROVE  /\ r.pending = FALSE /\ t \notin Ends(r)
         /\ BoundaryInstance(r, m) = r.instances[m]
<1>1. r.pending = FALSE /\ t \notin Ends(r)
  BY DEF EndedTransactions, Runtime
<1>2. \A u \in Task : m \in MappingsOf(u) => u = t
  BY OneTask
<1>3. ~r.tasks[t].reset /\ ~r.tasks[t].restart
  BY <1>1 DEF Ends
<1>4. ~Restarted(r, m) /\ ~Resumed(r, m)
  BY <1>2, <1>3 DEF Restarted, Resumed
<1>5. ~Aborted(r, m)
  BY <1>1, <1>2 DEF Aborted, Ends
<1> QED
  BY <1>1, <1>4, <1>5, BoundaryInstanceIs

\* boundary() gives up what the releases it ends have written, and nothing else.
LEMMA BoundaryAbandons ==
  ASSUME NEW r \in Runtime, Safe(r), Quiet(r), r.tick < MaxTick, NEW events,
         NEW s, s = AtBoundary(r, events)
  PROVE  Quiet(s) /\ Releases(r, s)
<1>1. s \in Runtime /\ Bounds(r, s, events)
  BY AtBoundaryIs
<1>2. PICK d \in Runtime :
            /\ d = DiscardTransactions(r, EndedTransactions(r))
            /\ s.owner = d.owner /\ s.image = d.image /\ s.published = d.published
            /\ s.dirty = d.dirty /\ s.current_dirty = d.current_dirty
            /\ s.command = d.command /\ s.mailbox = d.mailbox
  BY <1>1 DEF Bounds
<1>3. /\ d.published = r.published /\ d.command = r.command /\ d.mailbox = r.mailbox
      /\ r.owner \in EndedTransactions(r) => d.owner = NoTask
      /\ r.owner \notin EndedTransactions(r) => d = r
  BY <1>2 DEF DiscardTransactions, DiscardScan, Runtime
<1>4. /\ Ends(r) \subseteq Task
      /\ r.pending = TRUE => EndedTransactions(r) = Task
      /\ r.pending = FALSE => EndedTransactions(r) = Ends(r)
      /\ r.pending \in BOOLEAN /\ r.owner \in Task \cup {NoTask}
  BY DEF Runtime, EndedTransactions, Ends
<1>5. s.wrote = [t \in Task |-> IF t \in Ends(r) THEN Nothing ELSE r.wrote[t]]
  BY <1>1 DEF Bounds
<1>6. Releases(r, s)
  <2>1. \E S \in SUBSET Task : s.wrote = [t \in Task |-> IF t \in S THEN Nothing ELSE r.wrote[t]]
    BY <1>4, <1>5
  <2> QED
    BY <1>2, <1>3, <2>1 DEF Release, Releases
<1>7. r.tick + 1 \in 0 .. MaxTick
  BY MaxTickType DEF Runtime
<1>8. ASSUME NEW t \in Task
      PROVE  /\ s.tasks[t].state = "paused" => r.tasks[t].state = "paused"
             /\ r.pending = FALSE /\ t \notin Ends(r) /\ r.tasks[t].state = "running" =>
                   s.tasks[t].cursor = r.tasks[t].cursor
             /\ s.parked[t].is = FALSE
  <2>1. /\ s.tasks[t] = BoundaryTask(r, t, r.tick + 1, events)
        /\ s.parked[t] = IF t \in Unparked(r) THEN NotParked ELSE r.parked[t]
    BY <1>1 DEF Bounds
  <2>2. TaskBounds(r, t, s.tasks[t])
    BY <1>7, <2>1, BoundaryTaskSafe
  <2>3. s.parked[t].is = FALSE
    BY <2>1 DEF Quiet, Undebugged, NotParked
  <2> QED
    BY <2>2, <2>3 DEF TaskBounds
<1>9. Undebugged(s)
  BY <1>2, <1>3, <1>8 DEF Undebugged, Quiet
<1>10. ASSUME NEW n \in Mapping, Scanning(s, n)
       PROVE  Scanning(r, n) /\ ~Aborted(r, n)
  <2>1. s.instances[n] = BoundaryInstance(r, n)
    BY <1>1 DEF Bounds
  <2> QED
    BY <1>10, <2>1, BoundaryInstanceIs DEF Scanning
<1>11. \A t \in Task : r.owner # t => s.wrote[t] = Nothing
  BY <1>5 DEF Quiet, Transacts
<1>12. r.owner # NoTask =>
          /\ r.owner \in Task /\ r.tasks[r.owner].state = "running"
          /\ CurrentMapping(r, r.owner) \in MappingsOf(r.owner)
          /\ CurrentMapping(r, r.owner) \in Mapping
  BY OwnerAtProgram DEF AtProgram, Safe, Exclusive
<1>13. CASE r.owner = NoTask
  <2>1. s.owner = NoTask
    BY <1>2, <1>3, <1>13
  <2>2. \A n \in Mapping : ~Scanning(s, n)
    BY <1>10, <1>13 DEF Quiet, Transacts
  <2>3. Transacts(s)
    BY <1>11, <1>13, <2>1, <2>2, NoTaskIsNone DEF Transacts
  <2> QED
    BY <1>6, <1>9, <2>3 DEF Quiet
<1>14. CASE r.owner # NoTask /\ r.owner \in EndedTransactions(r)
  <2>1. PICK t \in Task : t = r.owner
    BY <1>12, <1>14
  <2>2. t \in Ends(r)
    BY <1>4, <1>12, <1>14, <2>1 DEF Ends
  <2>3. \A u \in Task : s.wrote[u] = Nothing
    BY <1>5, <1>11, <2>1, <2>2
  <2>4. \A n \in Mapping : ~Scanning(s, n)
    <3> SUFFICES ASSUME NEW n \in Mapping, Scanning(s, n) PROVE FALSE
      OBVIOUS
    <3>1. Scanning(r, n) /\ ~Aborted(r, n)
      BY <1>10
    <3>2. n \in MappingsOf(t)
      BY <1>12, <1>14, <2>1, <3>1 DEF Quiet, Transacts
    <3> QED
      BY <2>2, <3>1, <3>2 DEF Aborted
  <2>5. Transacts(s)
    BY <1>2, <1>3, <1>14, <2>3, <2>4 DEF Transacts
  <2> QED
    BY <1>6, <1>9, <2>5 DEF Quiet
<1>15. CASE r.owner # NoTask /\ r.owner \notin EndedTransactions(r)
  <2>1. PICK t \in Task : t = r.owner
    BY <1>12, <1>15
  <2>2. PICK m \in Mapping : m = CurrentMapping(r, t) /\ m \in MappingsOf(t)
    BY <1>12, <1>15, <2>1
  <2>3. /\ r.pending = FALSE /\ t \notin Ends(r)
        /\ BoundaryInstance(r, m) = r.instances[m]
    BY <1>15, <2>1, <2>2, NotEnded
  <2>4. /\ s.owner = t /\ s.image = r.image /\ s.published = r.published
        /\ s.dirty = r.dirty /\ s.current_dirty = r.current_dirty
        /\ s.wrote[t] = r.wrote[t] /\ s.instances[m] = r.instances[m]
    <3>1. s.instances[m] = BoundaryInstance(r, m)
      BY <1>1 DEF Bounds
    <3> QED
      BY <1>2, <1>3, <1>5, <1>15, <2>1, <2>3, <3>1
  <2>5. CurrentMapping(s, t) = m
    <3>1. s.tasks[t].cursor = r.tasks[t].cursor
      BY <1>8, <1>12, <1>15, <2>1, <2>3
    <3> QED
      BY <2>2, <3>1 DEF CurrentMapping
  <2>6. Uncommitted(r, t, m)
    BY <1>15, <2>1, <2>2 DEF Quiet, Transacts
  <2>7. Uncommitted(s, t, m)
    BY <2>4, <2>6 DEF Uncommitted, Scanning
  <2>8. \A n \in Mapping : Scanning(s, n) => n = m
    BY <1>10, <2>1, <2>2 DEF Quiet, Transacts
  <2>9. Transacts(s)
    BY <1>11, <2>1, <2>4, <2>5, <2>7, <2>8, NoTaskIsNone DEF Transacts
  <2> QED
    BY <1>6, <1>9, <2>9 DEF Quiet
<1> QED
  BY <1>13, <1>14, <1>15

\* on_scheduler_boundary has nothing to do.
LEMMA QuietBoundary ==
  ASSUME NEW r \in Runtime, Safe(r), Quiet(r), NEW s, s = SchedulerBoundary(r)
  PROVE  Quiet(s) /\ s.published = r.published /\ s.wrote = r.wrote
<1>1. SameView(r, s) /\ Undebugged(s)
  BY UndebuggedBoundary DEF Quiet
<1>2. AtProgram(r)
  BY OwnerAtProgram
<1>3. Transacts(s)
  BY <1>1, <1>2, SameViewTransacts DEF Quiet
<1> QED
  BY <1>1, <1>3 DEF Quiet, SameView

\* When a turn looks at an instruction, nothing has been written yet in this turn.
LEMMA ReadyInScan ==
  ASSUME NEW r \in Runtime, Safe(r), Quiet(r), Running(r) # {}, NEW s, s = Ready(r)
  PROVE  /\ InScan(s, s.owner, CurrentMapping(s, s.owner))
         /\ s.published = r.published /\ s.wrote = r.wrote
<1> DEFINE t == NextRunnable(r)
<1>1. t \in Running(r)
  <2>1. CASE r.owner # NoTask
    BY <2>1 DEF NextRunnable, Running, Safe, Exclusive, Runtime
  <2>2. CASE r.owner = NoTask
    <3>1. Running(r) \subseteq Task
      BY DEF Running
    <3> QED
      BY <2>2, <3>1, FirstIsOne DEF NextRunnable
  <2> QED
    BY <2>1, <2>2
<1>2. t \in Task /\ r.tasks[t].state = "running"
  BY <1>1 DEF Running
<1>3. r.owner \in {NoTask, t}
  BY DEF NextRunnable
<1> HIDE DEF t
<1>4. PICK o \in Runtime : /\ o = OpenTransaction(r, t) /\ Safe(o) /\ o.owner = t
                          /\ o.tasks[t].cursor = r.tasks[t].cursor
  BY <1>2, <1>3, OpenTransactionSafe
<1>5. Undebugged(o) /\ Transacts(o) /\ o.wrote = r.wrote /\ o.published = r.published
  BY <1>2, <1>3, <1>4, UndebuggedOpen DEF Quiet
<1>6. PICK m \in Mapping : m = CurrentMapping(o, t) /\ m \in MappingsOf(t)
  BY <1>2, <1>4, NoTaskIsNone, OwnerAtProgram DEF AtProgram
<1>7. s = BeginScan(o, m)
  BY <1>4, <1>6 DEF Ready, CurrentMapping, t
<1>8. /\ s \in Runtime /\ s.owner = t /\ s.tasks = o.tasks
  BY <1>2, <1>4, <1>7, BeginScanSafe
<1>9. /\ Undebugged(s) /\ Transacts(s)
      /\ s.wrote = o.wrote /\ s.published = o.published /\ Scanning(s, m)
  BY <1>2, <1>4, <1>5, <1>6, <1>7, UndebuggedBegin
<1>10. CurrentMapping(s, t) = m
  BY <1>6, <1>8 DEF CurrentMapping
<1>11. InScan(s, t, m)
  BY <1>6, <1>8, <1>9, <1>10 DEF InScan
<1> QED
  BY <1>5, <1>8, <1>9, <1>10, <1>11

\* What the host does between turns: it writes and shows nothing.
LEMMA HostReleases ==
  ASSUME NoDebugger, rt \in Runtime, Safe(rt), Quiet(rt),
         \/ \E t \in Task : TaskCall(t)
         \/ ReportResourceFault
         \/ \E command \in {"continue_", "step_in"} : Control(command)
  PROVE  Quiet(rt') /\ Releases(rt, rt')
<1>1. SameView(rt, rt') /\ Undebugged(rt')
  <2>1. ASSUME NEW t \in Task, TaskCall(t) PROVE SameView(rt, rt') /\ Undebugged(rt')
    <3>1. rt.tasks[t] \in TaskRecord
      BY DEF Runtime
    <3>2. PICK x : /\ x.state = rt.tasks[t].state /\ x.cursor = rt.tasks[t].cursor
                   /\ rt' = [rt EXCEPT !.tasks = [rt.tasks EXCEPT ![t] = x]]
      <4> DEFINE w == [rt.tasks[t] EXCEPT !.wallclock = TRUE]
                 e == [rt.tasks[t] EXCEPT !.reset = TRUE]
                 l == [rt.tasks[t] EXCEPT !.restart = TRUE]
      <4>1. /\ w.state = rt.tasks[t].state /\ w.cursor = rt.tasks[t].cursor
            /\ e.state = rt.tasks[t].state /\ e.cursor = rt.tasks[t].cursor
            /\ l.state = rt.tasks[t].state /\ l.cursor = rt.tasks[t].cursor
        BY <3>1 DEF TaskRecord
      <4>2. \/ rt' = [rt EXCEPT !.tasks = [rt.tasks EXCEPT ![t] = w]]
            \/ rt' = [rt EXCEPT !.tasks = [rt.tasks EXCEPT ![t] = e]]
            \/ rt' = [rt EXCEPT !.tasks = [rt.tasks EXCEPT ![t] = l]]
        BY <2>1 DEF TaskCall, Runtime
      <4> HIDE DEF w, e, l
      <4> QED
        BY <4>1, <4>2
    <3>3. /\ rt'.owner = rt.owner /\ rt'.wrote = rt.wrote /\ rt'.published = rt.published
          /\ rt'.image = rt.image /\ rt'.dirty = rt.dirty
          /\ rt'.current_dirty = rt.current_dirty /\ rt'.instances = rt.instances
          /\ rt'.parked = rt.parked /\ rt'.command = rt.command /\ rt'.mailbox = rt.mailbox
          /\ rt'.tasks = [rt.tasks EXCEPT ![t] = x]
      BY <3>2 DEF Runtime
    <3>4. \A u \in Task : /\ rt'.tasks[u].state = rt.tasks[u].state
                          /\ rt'.tasks[u].cursor = rt.tasks[u].cursor
      BY <3>2, <3>3 DEF Runtime
    <3>5. rt.owner # NoTask => rt.owner \in Task
      BY DEF Runtime
    <3> QED
      BY <3>3, <3>4, <3>5 DEF SameView, Undebugged, Quiet
  <2>2. CASE ReportResourceFault
    <3>1. rt' = [rt EXCEPT !.pending = TRUE]
      BY <2>2 DEF ReportResourceFault
    <3> QED
      BY <3>1 DEF SameView, Undebugged, Quiet, Runtime
  <2>3. ASSUME NEW command \in {"continue_", "step_in"}, Control(command)
        PROVE  SameView(rt, rt') /\ Undebugged(rt')
    <3>1. command = "continue_" /\ rt' = [rt EXCEPT !.mailbox = command]
      BY <2>3 DEF Control, NoDebugger
    <3> QED
      BY <3>1 DEF SameView, Undebugged, Quiet, Runtime
  <2> QED
    BY <2>1, <2>2, <2>3
<1>2. Transacts(rt')
  BY <1>1, OwnerAtProgram, SameViewTransacts DEF Quiet
<1> QED
  BY <1>1, <1>2 DEF Quiet, SameView, Release, Releases

\* load() opens no transaction and starts no program.
LEMMA QuietInit == Init => Quiet(rt)
<1> SUFFICES ASSUME Init PROVE Quiet(rt)
  OBVIOUS
<1>1. InitialTask.state = "idle" /\ InitialInstance.state = "idle" /\ NotParked.is = FALSE
  BY DEF InitialTask, InitialInstance, NotParked
<1>2. /\ rt.owner = NoTask /\ rt.mailbox = "none" /\ rt.command = "continue_"
      /\ \A t \in Task : /\ rt.tasks[t] = InitialTask /\ rt.parked[t] = NotParked
                         /\ rt.wrote[t] = Nothing
      /\ \A m \in Mapping : rt.instances[m] = InitialInstance
  BY DEF Init
<1> QED
  BY <1>1, <1>2 DEF Quiet, Undebugged, Transacts, Scanning

\* Every action keeps the writes where they belong and is a step of AtomicTasks.
LEMMA QuietStep ==
  ASSUME NoDebugger, RuntimeInv, Quiet(rt), [Next]_rt
  PROVE  Quiet(rt') /\ Releases(rt, rt')
<1>1. rt \in Runtime /\ Safe(rt)
  BY DEF RuntimeInv
<1>2. ASSUME NEW events, Boundary(events) PROVE Quiet(rt') /\ Releases(rt, rt')
  <2>1. PICK a : a = AtBoundary(rt, events)
    OBVIOUS
  <2>2. rt.tick < MaxTick /\ rt' = SchedulerBoundary(a)
    BY <1>2, <2>1 DEF Boundary
  <2>3. Quiet(a) /\ Releases(rt, a)
    BY <1>1, <2>1, <2>2, BoundaryAbandons
  <2>4. a \in Runtime /\ Safe(a)
    BY <1>1, <2>1, <2>2, AtBoundarySafe
  <2>5. Quiet(rt') /\ rt'.published = a.published /\ rt'.wrote = a.wrote
    BY <2>2, <2>3, <2>4, QuietBoundary
  <2> QED
    BY <2>3, <2>5 DEF Releases
<1>3. PICK b \in Runtime : b = SchedulerBoundary(rt) /\ Safe(b)
  BY <1>1, SchedulerBoundarySafe
<1>4. Quiet(b) /\ b.published = rt.published /\ b.wrote = rt.wrote
  BY <1>1, <1>3, QuietBoundary
<1>5. Settle(b) = b
  BY <1>3, SettleIs
<1>6. CASE Turn
  <2>1. Running(b) # {} /\ rt' \in Outcomes(Ready(b), Ready(b).owner,
                                          CurrentMapping(Ready(b), Ready(b).owner))
    BY <1>3, <1>5, <1>6 DEF Turn
  <2>2. PICK r \in Runtime : /\ r = Ready(b) /\ Safe(r) /\ r.owner \in Task
                            /\ CurrentMapping(r, r.owner) \in Mapping
    BY <1>3, <2>1, ReadySafe
  <2>3. /\ InScan(r, r.owner, CurrentMapping(r, r.owner))
        /\ r.published = b.published /\ r.wrote = b.wrote
    BY <1>3, <1>4, <2>1, <2>2, ReadyInScan
  <2>4. Quiet(rt') /\ Releases(r, rt')
    BY <2>1, <2>2, <2>3, InstructionReleases
  <2> QED
    BY <1>4, <2>3, <2>4 DEF Releases
<1>7. CASE IdleTurn
  <2>1. rt' = b
    BY <1>3, <1>5, <1>7 DEF IdleTurn
  <2> QED
    BY <1>4, <2>1 DEF Release, Releases
<1>8. CASE \/ \E t \in Task : TaskCall(t)
           \/ ReportResourceFault
           \/ \E command \in {"continue_", "step_in"} : Control(command)
  BY <1>1, <1>8, HostReleases
<1>9. CASE UNCHANGED rt
  BY <1>9 DEF Release, Releases
<1> QED
  BY <1>2, <1>6, <1>7, <1>8, <1>9 DEF Next

\* A release is a transaction (L5-D06): what a task stores in its scan stays in
\* the program and then in the working image, the last halt publishes all of it,
\* and a fault, a reset or a resource fault leaves none of it.  The assumption
\* cannot be dropped: begin_scan of another task forgets what a parked program has
\* stored (process_image.h:389).
THEOREM ReleasesAreAtomic ==
  ASSUME NoDebugger
  PROVE  Spec => ImplementsAtomicTasks
<1>1. Init => Quiet(rt) /\ Atomic!AtomicInit
  <2>1. Init => rt.published = InitialImage /\ rt.wrote = [t \in Task |-> Nothing]
    BY DEF Init
  <2> QED
    BY <2>1, QuietInit DEF Atomic!AtomicInit, Atomic!Nothing, Nothing, InitialImage
<1>2. RuntimeInv /\ Quiet(rt) /\ [Next]_rt => Quiet(rt') /\ Releases(rt, rt')
  BY QuietStep
<1>3. Releases(rt, rt') => [Atomic!AtomicNext]_<<rt.published, rt.wrote>>
  BY DEF Releases, Release, Atomic!AtomicNext, Atomic!Write, Atomic!Commit, Atomic!Abandon,
         Atomic!Nothing, Nothing
<1>4. RuntimeInv /\ Quiet(rt) /\ [Next]_rt =>
          Quiet(rt)' /\ [Atomic!AtomicNext]_<<rt.published, rt.wrote>>
  BY <1>2, <1>3
<1> QED
  BY <1>1, <1>4, RuntimeInvariance, PTL DEF Spec, ImplementsAtomicTasks, Atomic!AtomicSpec
-----------------------------------------------------------------------------
(* Priority.                                                                *)

\* A task of higher priority that still runs a release of the same tick.
Ahead(r, u, t) ==
    /\ Before(u, t)
    /\ r.tasks[u].state = "running" /\ r.tasks[u].release_tick = r.tasks[t].release_tick

\* Only a release that was parked is ahead of the one that has the transaction.
Prior(r) ==
    /\ \A u \in Task : /\ r.tasks[u].release_tick <= r.tick
                       /\ r.tasks[u].state = "paused" => r.parked[u].is = TRUE
    /\ r.owner # NoTask => \A u \in Task : Ahead(r, u, r.owner) => r.parked[u].is = TRUE

\* CommitsByPriority of two states of the runtime.
InOrder(r, s) ==
    \A t, u \in Task :
        /\ s.tasks[t].completed > r.tasks[t].completed
        /\ Before(u, t)
        /\ r.tasks[u].state = "running"
        /\ r.tasks[u].release_tick = s.tasks[t].release_tick
        => r.parked[u].is = TRUE

\* An instruction of task t, or the way to it.
Executes(r, s, t) ==
    /\ s.tick = r.tick /\ s.owner \in {t, NoTask}
    /\ OthersKept(r, s, t)
    /\ s.tasks[t].release_tick = r.tasks[t].release_tick
    /\ s.tasks[t].state = "paused" => s.parked[t].is = TRUE

\* A task that is charged stays where it is.
LEMMA ChargeExecutes ==
  ASSUME NEW r \in Runtime, NEW t \in Task, r.owner = t, r.tasks[t].state = "running",
         NEW m \in Mapping, NEW pc \in Nat, r.tasks[t].budget # 0
  PROVE  Executes(r, Charge(r, t, m, pc), t)
<1>1. PICK c \in Runtime :
           /\ c = Charge(r, t, m, pc) /\ Charges(r, c) /\ GoesOn(r, c)
           /\ OthersKept(r, c, t)
  <2>1. t # NoTask
    BY NoTaskIsNone
  <2>2. /\ Charge(r, t, m, pc) \in Runtime
        /\ Charges(r, Charge(r, t, m, pc))
        /\ GoesOn(r, Charge(r, t, m, pc))
        /\ OthersKept(r, Charge(r, t, m, pc), t)
    BY <2>1, ChargeTypes
  <2> QED
    BY <2>2
<1>2. Kept(r.tasks[t], c.tasks[t])
  BY <1>1 DEF GoesOn
<1>3. /\ c.tick = r.tick /\ c.owner = t /\ c.parked = r.parked
      /\ c.tasks[t].release_tick = r.tasks[t].release_tick
      /\ c.tasks[t].state = "running"
  BY <1>1, <1>2 DEF Charges, Kept
<1>4. Executes(r, c, t)
  BY <1>1, <1>3 DEF Executes
<1> QED
  BY <1>1, <1>4

\* A store touches the task no more than its charge does.
LEMMA StoreExecutes ==
  ASSUME NEW r \in Runtime, Safe(r), NEW t \in Task, r.owner = t, r.tasks[t].state = "running",
         NEW m \in Mapping, NEW v \in Var, r.tasks[t].budget # 0
  PROVE  Executes(r, Store(r, t, m, v), t)
<1>1. r.instances[m].pc + 1 \in Nat
  BY DEF Runtime, InstanceRecord
<1>2. PICK c \in Runtime : /\ c = Charge(r, t, m, r.instances[m].pc + 1)
                          /\ Executes(r, c, t)
  BY <1>1, ChargeTypes, ChargeExecutes
<1>3. PICK s : s = Store(r, t, m, v)
  OBVIOUS
<1>4. s.tasks = c.tasks /\ s.parked = c.parked /\ s.owner = c.owner /\ s.tick = c.tick
  BY <1>2, <1>3, StoreSafe DEF StoresLike
<1> QED
  BY <1>2, <1>3, <1>4 DEF Executes, OthersKept

\* A fault ends a release without completing it.
LEMMA LatchExecutes ==
  ASSUME NEW r \in Runtime, NEW t \in Task, r.owner = t, NEW m \in Mapping,
         NEW why \in {"budget", "wallclock", "runtime"}
  PROVE  Executes(r, Latch(r, t, m, why), t)
<1>1. PICK g : g = [r EXCEPT !.instances[m].fault = TRUE]
  OBVIOUS
<1>2. /\ g.owner = t /\ g.tick = r.tick /\ g.tasks = r.tasks /\ g.parked = r.parked
      /\ DOMAIN g = DOMAIN r
  BY <1>1 DEF Runtime
<1>3. PICK d : d = DiscardScan(g)
  OBVIOUS
<1>4. /\ d.owner = NoTask /\ d.tick = r.tick /\ d.tasks = r.tasks /\ d.parked = r.parked
      /\ DOMAIN d = DOMAIN r
  BY <1>2, <1>3 DEF DiscardScan, Runtime
<1>5. PICK s : s = Latch(r, t, m, why)
  OBVIOUS
<1>6. s = [d EXCEPT !.tasks[t] = FaultedTask(@, why),
                    !.instances = [n \in Mapping |-> IF n \in MappingsOf(t)
                                                     THEN AbortInstance(g.instances[n])
                                                     ELSE g.instances[n]],
                    !.parked[t] = NotParked,
                    !.wrote[t] = Nothing]
  <2>1. s = Fault(g, t, why)
    BY <1>1, <1>5 DEF Latch
  <2>2. DiscardTransactions(g, {t}) = d
    BY <1>2, <1>3 DEF DiscardTransactions
  <2> QED
    BY <2>1, <2>2, Zenon DEF Fault
<1>7. /\ s.owner = NoTask /\ s.tick = r.tick
      /\ s.tasks = [r.tasks EXCEPT ![t] = FaultedTask(@, why)]
      /\ s.parked = [r.parked EXCEPT ![t] = NotParked]
  BY <1>4, <1>6 DEF Runtime
<1>8. /\ s.tasks[t] = FaultedTask(r.tasks[t], why)
      /\ \A u \in Task : u # t => s.tasks[u] = r.tasks[u] /\ s.parked[u] = r.parked[u]
  BY <1>7 DEF Runtime
<1>9. r.tasks[t] \in TaskRecord
  BY DEF Runtime
<1>10. /\ FaultedTask(r.tasks[t], why).state = "faulted"
       /\ FaultedTask(r.tasks[t], why).release_tick = r.tasks[t].release_tick
  BY <1>9 DEF FaultedTask, TaskRecord
<1> QED
  BY <1>5, <1>7, <1>8, <1>10 DEF Executes, OthersKept

\* A task that the debugger stops is parked.
LEMMA PauseExecutes ==
  ASSUME NEW r \in Runtime, NEW t \in Task, r.owner = t, NEW m \in Mapping
  PROVE  Executes(r, Pause(r, t, m), t)
<1> DEFINE x == [r.tasks[t] EXCEPT !.state = "paused", !.transaction = FALSE]
           k == [is |-> TRUE, image |-> r.image, dirty |-> r.dirty]
<1>1. PICK p : p = [r EXCEPT !.parked[t] = k, !.tasks[t] = x, !.stopped = Here(r, m),
                             !.command = "continue_"]
  OBVIOUS
<1>2. /\ p.owner = t /\ p.tick = r.tick
      /\ p.tasks = [r.tasks EXCEPT ![t] = x] /\ p.parked = [r.parked EXCEPT ![t] = k]
      /\ DOMAIN p = DOMAIN r
  BY <1>1 DEF Runtime
<1>3. PICK s : s = Pause(r, t, m)
  OBVIOUS
<1>4. s = DiscardScan(p)
  BY <1>1, <1>2, <1>3 DEF Pause, DiscardTransactions
<1>5. s.owner = NoTask /\ s.tick = r.tick /\ s.tasks = p.tasks /\ s.parked = p.parked
  BY <1>2, <1>4 DEF DiscardScan, Runtime
<1>6. /\ s.parked[t] = k /\ s.tasks[t] = x
      /\ \A u \in Task : u # t => s.tasks[u] = r.tasks[u] /\ s.parked[u] = r.parked[u]
  <2>1. s.tasks = [r.tasks EXCEPT ![t] = x] /\ s.parked = [r.parked EXCEPT ![t] = k]
    BY <1>2, <1>5
  <2> HIDE DEF x, k
  <2> QED
    BY <2>1 DEF Runtime
<1>7. r.tasks[t] \in TaskRecord
  BY DEF Runtime
<1>8. x.release_tick = r.tasks[t].release_tick /\ k.is = TRUE
  BY <1>7 DEF TaskRecord
<1> QED
  BY <1>3, <1>5, <1>6, <1>8 DEF Executes, OthersKept

\* The end of a program, and of a release.
LEMMA HaltExecutes ==
  ASSUME NEW r \in Runtime, NEW t \in Task, r.owner = t, r.tasks[t].state = "running",
         r.tasks[t].transaction = TRUE, NEW m \in Mapping, r.tasks[t].budget # 0
  PROVE  Executes(r, Halt(r, t, m), t)
<1>1. PICK h \in Runtime : h = EndedProgram(r, t, m) /\ ProgramEnds(r, h, t, m)
  BY EndedProgramIs
<1>2. /\ h.owner = t /\ h.tick = r.tick /\ h.parked = r.parked
      /\ Kept(r.tasks[t], h.tasks[t])
      /\ \A u \in Task : u # t => h.tasks[u] = r.tasks[u]
  BY <1>1 DEF ProgramEnds
<1>3. PICK s : s = Halt(r, t, m)
  OBVIOUS
<1>4. CASE s = h
  BY <1>2, <1>3, <1>4 DEF Executes, OthersKept, Kept
<1>5. CASE s = CompleteTask(h, t)
  <2>1. h.tasks[t].transaction = TRUE
    BY <1>2 DEF Kept
  <2>2. Completes(h, s, t)
    BY <1>5, <2>1, CompleteTaskIs
  <2>3. /\ s.tick = r.tick /\ s.owner = NoTask
        /\ s.parked = [r.parked EXCEPT ![t] = NotParked]
        /\ s.tasks = [h.tasks EXCEPT ![t] = CompletedTask(@)]
    BY <1>2, <2>2 DEF Completes
  <2>4. /\ s.tasks[t] = CompletedTask(h.tasks[t])
        /\ \A u \in Task : u # t => s.tasks[u] = r.tasks[u] /\ s.parked[u] = r.parked[u]
    BY <1>2, <2>3 DEF Runtime
  <2>5. h.tasks[t] \in TaskRecord
    BY DEF Runtime
  <2>6. /\ CompletedTask(h.tasks[t]).state = "idle"
        /\ CompletedTask(h.tasks[t]).release_tick = h.tasks[t].release_tick
    BY <2>5 DEF CompletedTask, TaskRecord
  <2> QED
    BY <1>2, <1>3, <2>3, <2>4, <2>6 DEF Executes, OthersKept, Kept
<1>6. s = h \/ s = CompleteTask(h, t)
  BY <1>1, <1>3 DEF Halt, EndedProgram
<1> QED
  BY <1>4, <1>5, <1>6

\* Whatever an instruction comes to, the other tasks do not notice.
LEMMA OutcomesExecute ==
  ASSUME NEW r \in Runtime, Safe(r), NEW t \in Task, r.owner = t, r.tasks[t].state = "running",
         r.tasks[t].transaction = TRUE, NEW m \in Mapping, NEW s \in Outcomes(r, t, m)
  PROVE  Executes(r, s, t)
<1> DEFINE pc == r.instances[m].pc
<1>1. pc \in Nat /\ pc + 1 \in Nat
  BY DEF Runtime, InstanceRecord
<1>2. CASE r.tasks[t].budget = 0
  <2>1. s = Latch(r, t, m, "budget")
    BY <1>2 DEF Outcomes
  <2> QED
    BY <2>1, LatchExecutes
<1>3. CASE r.tasks[t].budget # 0
  <2>1. CASE s = Pause(r, t, m)
    BY <2>1, PauseExecutes
  <2>2. CASE s = Halt(r, t, m)
    BY <1>3, <2>2, HaltExecutes
  <2>3. CASE pc \in DOMAIN Program[m] /\ s = Store(r, t, m, Program[m][pc].var)
    <3>1. Program[m][pc].var \in Var
      BY <2>3, InstructionType
    <3> QED
      BY <1>3, <2>3, <3>1, StoreExecutes
  <2>4. CASE s \in {Charge(r, t, m, pc + 1), Charge(r, t, m, 1)}
    BY <1>1, <1>3, <2>4, ChargeExecutes
  <2>5. CASE s = Latch(Charge(r, t, m, pc), t, m, "runtime")
    <3>1. PICK c \in Runtime : c = Charge(r, t, m, pc) /\ Charges(r, c) /\ Executes(r, c, t)
      BY <1>1, <1>3, ChargeTypes, ChargeExecutes
    <3>2. c.owner = t
      BY <3>1 DEF Charges
    <3>3. Executes(c, Latch(c, t, m, "runtime"), t)
      BY <3>2, LatchExecutes
    <3>4. ASSUME NEW u \in Task, u # t
          PROVE  s.tasks[u] = r.tasks[u] /\ s.parked[u] = r.parked[u]
      <4>1. s.tasks[u] = c.tasks[u] /\ s.parked[u] = c.parked[u]
        BY <2>5, <3>1, <3>3, <3>4 DEF Executes, OthersKept
      <4>2. c.tasks[u] = r.tasks[u] /\ c.parked[u] = r.parked[u]
        BY <3>1, <3>4 DEF Executes, OthersKept
      <4> QED
        BY <4>1, <4>2
    <3>5. /\ s.tick = r.tick /\ s.owner \in {t, NoTask}
          /\ s.tasks[t].release_tick = r.tasks[t].release_tick
          /\ s.tasks[t].state = "paused" => s.parked[t].is = TRUE
      BY <2>5, <3>1, <3>3 DEF Executes, OthersKept
    <3> QED
      BY <3>4, <3>5 DEF Executes, OthersKept
  <2>6. \/ s = Pause(r, t, m)
        \/ s = Halt(r, t, m)
        \/ pc \in DOMAIN Program[m] /\ s = Store(r, t, m, Program[m][pc].var)
        \/ s \in {Charge(r, t, m, pc + 1), Charge(r, t, m, 1)}
        \/ s = Latch(Charge(r, t, m, pc), t, m, "runtime")
    <3>1. CASE Stops(r, t, m) \/ pc \notin DOMAIN Program[m]
      BY <1>3, <3>1 DEF Outcomes
    <3>2. CASE ~Stops(r, t, m) /\ pc \in DOMAIN Program[m]
      <4>1. Program[m][pc].op \in Op
        BY <3>2, InstructionType
      <4> QED
        BY <1>3, <3>2, <4>1 DEF Outcomes, Op
    <3> QED
      BY <3>1, <3>2
  <2> QED
    BY <2>1, <2>2, <2>3, <2>4, <2>5, <2>6
<1> QED
  BY <1>2, <1>3
\* An instruction of the task that has the transaction leaves Prior.
LEMMA ExecutesPrior ==
  ASSUME NEW r \in Runtime, NEW s \in Runtime, NEW t \in Task, r.owner = t, Prior(r),
         Executes(r, s, t)
  PROVE  Prior(s) /\ InOrder(r, s)
<1>1. ASSUME NEW u \in Task
      PROVE  /\ s.tasks[u].release_tick = r.tasks[u].release_tick
             /\ u # t => s.tasks[u] = r.tasks[u] /\ s.parked[u] = r.parked[u]
  BY DEF Executes, OthersKept
<1>2. r.tasks[t] \in TaskRecord /\ s.tick = r.tick
  BY DEF Runtime, Executes
<1>3. ASSUME NEW u \in Task
      PROVE  /\ s.tasks[u].release_tick <= s.tick
             /\ s.tasks[u].state = "paused" => s.parked[u].is = TRUE
  BY <1>1, <1>2 DEF Prior, Executes
<1>4. ASSUME NEW u \in Task, Ahead(s, u, t) PROVE s.parked[u].is = TRUE
  <2>1. u # t
    BY <1>4, NotBeforeItself DEF Ahead
  <2>2. Ahead(r, u, t)
    BY <1>1, <1>4, <2>1 DEF Ahead
  <2> QED
    BY <1>1, <2>1, <2>2, NoTaskIsNone DEF Prior
<1>5. s.owner # NoTask => s.owner = t
  BY DEF Executes
<1>6. Prior(s)
  BY <1>3, <1>4, <1>5 DEF Prior
<1>7. ASSUME NEW v \in Task, NEW u \in Task,
             s.tasks[v].completed > r.tasks[v].completed, Before(u, v),
             r.tasks[u].state = "running",
             r.tasks[u].release_tick = s.tasks[v].release_tick
      PROVE  r.parked[u].is = TRUE
  <2>1. r.tasks[v].completed \in Nat
    BY DEF Runtime, TaskRecord
  <2>2. v = t
    BY <1>1, <1>7, <2>1
  <2>3. Ahead(r, u, t)
    BY <1>1, <1>7, <2>2 DEF Ahead
  <2> QED
    BY <2>3, NoTaskIsNone DEF Prior
<1>8. InOrder(r, s)
  BY <1>7 DEF InOrder
<1> QED
  BY <1>6, <1>8

\* What s shares with r, when s is on the way from r to an instruction of t.
Opens(r, s, t) ==
    /\ s.tick = r.tick /\ s.owner = t
    /\ OthersKept(r, s, t)
    /\ Kept([r.tasks[t] EXCEPT !.transaction = TRUE], s.tasks[t])

\* begin_transaction takes back what was parked of its own task only.
LEMMA OpenTransactionOpens ==
  ASSUME NEW r \in Runtime, Safe(r), NEW t \in Task, r.tasks[t].state = "running",
         r.owner \in {NoTask, t}
  PROVE  Opens(r, OpenTransaction(r, t), t)
<1>0. r.tasks[t] \in TaskRecord
  BY DEF Runtime
<1>1. CASE r.owner = t
  <2>1. r.tasks[t].transaction = TRUE
    BY <1>1 DEF Safe, Exclusive
  <2>2. OpenTransaction(r, t) = r
    BY <2>1 DEF OpenTransaction
  <2>3. Kept([r.tasks[t] EXCEPT !.transaction = TRUE], r.tasks[t])
    BY <1>0, <2>1 DEF Kept, TaskRecord
  <2> QED
    BY <1>1, <2>2, <2>3 DEF Opens, OthersKept
<1>2. CASE r.owner = NoTask
  <2>1. r.tasks[t].transaction = FALSE
    BY <1>2, NoTaskIsNone DEF Safe, Exclusive
  <2> DEFINE x == [r.tasks[t] EXCEPT !.transaction = TRUE]
             tasks == [r.tasks EXCEPT ![t] = x]
  <2>2. PICK b : b = [r EXCEPT !.open = TRUE, !.dirty = {}, !.owner = t, !.tasks = tasks]
    OBVIOUS
  <2>3. b = [r EXCEPT !.open = TRUE, !.dirty = {}, !.owner = t, !.tasks[t].transaction = TRUE]
    BY <2>2 DEF Runtime
  <2>4. Kept(x, x)
    BY DEF Kept
  <2> HIDE DEF x
  <2>5. /\ tasks[t] = x
        /\ \A u \in Task : u # t => tasks[u] = r.tasks[u]
    BY DEF Runtime
  <2> HIDE DEF tasks
  <2>6. b.tasks = tasks /\ b.owner = t /\ b.tick = r.tick /\ b.parked = r.parked
    BY <2>2 DEF Runtime
  <2> DEFINE p == r.parked[t]
             image == [v \in Var |-> IF v \in p.dirty THEN p.image[v] ELSE b.image[v]]
             parked == [b.parked EXCEPT ![t] = NotParked]
             o == [b EXCEPT !.image = image, !.dirty = p.dirty, !.parked = parked]
  <2>7. OpenTransaction(r, t) = IF ~p.is THEN b ELSE o
    BY <2>1, <2>3 DEF OpenTransaction
  <2>8. \A u \in Task : u # t => parked[u] = r.parked[u]
    BY <2>6 DEF Runtime
  <2>9. DOMAIN b = DOMAIN r
    BY <2>2
  <2> HIDE DEF p, image, parked
  <2>10. /\ o.tasks = tasks /\ o.owner = t /\ o.tick = r.tick /\ o.parked = parked
    BY <2>6, <2>9 DEF Runtime
  <2> HIDE DEF o
  <2>11. Opens(r, b, t)
    BY <2>4, <2>5, <2>6 DEF Opens, OthersKept, x
  <2>12. Opens(r, o, t)
    BY <2>4, <2>5, <2>8, <2>10 DEF Opens, OthersKept, x
  <2> QED
    BY <2>7, <2>11, <2>12
<1> QED
  BY <1>1, <1>2

\* The way to an instruction leaves Prior: a transaction is opened by the first
\* of the tasks that run.
LEMMA ReadyPrior ==
  ASSUME NEW r \in Runtime, Safe(r), Prior(r), Running(r) # {}, NEW s, s = Ready(r)
  PROVE  /\ Prior(s) /\ Opens(r, s, s.owner) /\ s.owner \in Task
         /\ r.tasks[s.owner].state = "running"
<1> DEFINE t == NextRunnable(r)
<1>1. t \in Running(r) /\ (r.owner = NoTask => \A u \in Running(r) : ~Before(u, t))
  <2>1. CASE r.owner # NoTask
    BY <2>1 DEF NextRunnable, Running, Safe, Exclusive, Runtime
  <2>2. CASE r.owner = NoTask
    <3>1. Running(r) \subseteq Task
      BY DEF Running
    <3> QED
      BY <2>2, <3>1, FirstIsOne DEF NextRunnable
  <2> QED
    BY <2>1, <2>2
<1>2. t \in Task /\ r.tasks[t].state = "running"
  BY <1>1 DEF Running
<1>3. r.owner \in {NoTask, t}
  BY DEF NextRunnable
<1> HIDE DEF t
<1>4. PICK o \in Runtime : /\ o = OpenTransaction(r, t) /\ Safe(o) /\ Opens(r, o, t)
                          /\ o.tasks[t].cursor = r.tasks[t].cursor
  BY <1>2, <1>3, OpenTransactionSafe, OpenTransactionOpens
<1>5. s = BeginScan(o, CurrentMapping(r, t))
  BY <1>4 DEF Ready, t, CurrentMapping
<1>6. s.owner = t /\ s.tick = r.tick /\ s.tasks = o.tasks /\ s.parked = o.parked
  BY <1>4, <1>5 DEF BeginScan, Opens, Runtime
<1>7. Opens(r, s, t)
  BY <1>4, <1>6 DEF Opens, OthersKept
<1>8. r.tasks[t] \in TaskRecord
  BY <1>2 DEF Runtime
<1>9. /\ s.tasks[t].release_tick = r.tasks[t].release_tick
      /\ s.tasks[t].state = "running"
  BY <1>2, <1>7, <1>8 DEF Opens, Kept, TaskRecord
<1>10. ASSUME NEW u \in Task
       PROVE  /\ s.tasks[u].release_tick <= s.tick
              /\ s.tasks[u].state = "paused" => s.parked[u].is = TRUE
  BY <1>6, <1>7, <1>9 DEF Opens, OthersKept, Prior
<1>11. ASSUME NEW u \in Task, Ahead(s, u, t) PROVE s.parked[u].is = TRUE
  <2>1. u # t /\ Before(u, t)
    BY <1>11, NotBeforeItself DEF Ahead
  <2>2. s.tasks[u] = r.tasks[u] /\ s.parked[u] = r.parked[u]
    BY <1>7, <2>1 DEF Opens, OthersKept
  <2>3. Ahead(r, u, t)
    BY <1>9, <1>11, <2>2 DEF Ahead
  <2>4. r.owner = t
    BY <1>1, <1>3, <2>3 DEF Ahead, Running
  <2> QED
    BY <1>2, <2>2, <2>3, <2>4, NoTaskIsNone DEF Prior
<1>12. Prior(s)
  BY <1>6, <1>10, <1>11 DEF Prior
<1> QED
  BY <1>2, <1>6, <1>7, <1>12

\* A task that the debugger lets go on had been parked.
LEMMA SchedulerBoundaryPrior ==
  ASSUME NEW r \in Runtime, Prior(r), NEW s, s = SchedulerBoundary(r)
  PROVE  /\ Prior(s) /\ s.parked = r.parked
         /\ \A u \in Task :
               /\ s.tasks[u].completed = r.tasks[u].completed
               /\ s.tasks[u].release_tick = r.tasks[u].release_tick
               /\ r.tasks[u].state = "running" => s.tasks[u].state = "running"
<1>1. /\ s.owner = r.owner /\ s.tick = r.tick /\ s.parked = r.parked
      /\ \A t \in Task :
            \/ s.tasks[t] = r.tasks[t]
            \/ /\ r.tasks[t].state = "paused"
               /\ s.tasks[t] = [r.tasks[t] EXCEPT !.state = "running"]
  BY SchedulerBoundaryIs
<1>2. ASSUME NEW u \in Task
      PROVE  /\ s.tasks[u].completed = r.tasks[u].completed
             /\ s.tasks[u].release_tick = r.tasks[u].release_tick
             /\ \/ s.tasks[u].state = r.tasks[u].state
                \/ r.tasks[u].state = "paused" /\ s.tasks[u].state = "running"
  <2>1. r.tasks[u] \in TaskRecord
    BY DEF Runtime
  <2> QED
    BY <1>1, <2>1 DEF TaskRecord
<1>3. r.owner # NoTask => r.owner \in Task
  BY DEF Runtime
<1>4. ASSUME NEW u \in Task
      PROVE  /\ s.tasks[u].release_tick <= s.tick
             /\ s.tasks[u].state = "paused" => s.parked[u].is = TRUE
  BY <1>1, <1>2 DEF Prior
<1>5. ASSUME r.owner # NoTask, NEW u \in Task, Ahead(s, u, r.owner)
      PROVE  s.parked[u].is = TRUE
  <2>1. CASE r.tasks[u].state = "paused"
    BY <1>1, <2>1 DEF Prior
  <2>2. CASE r.tasks[u].state # "paused"
    <3>1. Ahead(r, u, r.owner)
      BY <1>2, <1>3, <1>5, <2>2 DEF Ahead
    <3> QED
      BY <1>1, <1>5, <3>1 DEF Prior
  <2> QED
    BY <2>1, <2>2
<1>6. Prior(s)
  BY <1>1, <1>4, <1>5 DEF Prior
<1> QED
  BY <1>1, <1>2, <1>6

\* A boundary releases at a new tick, and unparks only what it ends.
LEMMA AtBoundaryPrior ==
  ASSUME NEW r \in Runtime, Safe(r), Prior(r), r.tick < MaxTick, NEW events,
         NEW s, s = AtBoundary(r, events)
  PROVE  Prior(s) /\ InOrder(r, s)
<1>1. s \in Runtime /\ Bounds(r, s, events)
  BY AtBoundaryIs
<1>2. r.tick + 1 \in 0 .. MaxTick /\ r.tick \in Nat
  BY MaxTickType DEF Runtime
<1>3. ASSUME NEW t \in Task
      PROVE  /\ TaskBounds(r, t, s.tasks[t])
             /\ t \notin Ends(r) => s.parked[t] = r.parked[t]
             /\ t \notin Unparked(r) => s.parked[t] = r.parked[t]
             /\ r.tasks[t].release_tick \in Nat /\ r.tasks[t].release_tick <= r.tick
             /\ s.tasks[t].completed \in Nat /\ r.tasks[t].completed \in Nat
  <2>1. /\ s.tasks[t] = BoundaryTask(r, t, r.tick + 1, events)
        /\ s.parked[t] = IF t \in Unparked(r) THEN NotParked ELSE r.parked[t]
    BY <1>1 DEF Bounds
  <2>2. TaskBounds(r, t, s.tasks[t])
    BY <1>2, <2>1, BoundaryTaskSafe
  <2>3. r.tasks[t] \in TaskRecord /\ s.tasks[t] \in TaskRecord
    BY <1>1 DEF Runtime
  <2>4. r.tasks[t].release_tick <= r.tick
    BY DEF Prior
  <2>5. t \in Unparked(r) => t \in Ends(r)
    BY DEF Unparked
  <2> QED
    BY <2>1, <2>2, <2>3, <2>4, <2>5 DEF TaskRecord
<1>4. ASSUME NEW u \in Task
      PROVE  /\ s.tasks[u].release_tick <= s.tick
             /\ s.tasks[u].state = "paused" => s.parked[u].is = TRUE
  <2>1. s.tick = r.tick + 1
    BY <1>1 DEF Bounds
  <2>2. s.tasks[u].release_tick \in {r.tasks[u].release_tick, 0, r.tick + 1}
    BY <1>3 DEF TaskBounds
  <2>3. s.tasks[u].state = "paused" => r.tasks[u].state = "paused" /\ u \notin Unparked(r)
    BY <1>3 DEF TaskBounds
  <2>4. r.tasks[u].state = "paused" => r.parked[u].is = TRUE
    BY DEF Prior
  <2> QED
    BY <1>2, <1>3, <2>1, <2>2, <2>3, <2>4
<1>5. ASSUME s.owner # NoTask, NEW u \in Task, Ahead(s, u, s.owner)
      PROVE  s.parked[u].is = TRUE
  <2>1. PICK d \in Runtime :
            d = DiscardTransactions(r, EndedTransactions(r)) /\ s.owner = d.owner
    BY <1>1 DEF Bounds
  <2>2. r.owner \notin EndedTransactions(r) /\ d = r
    BY <1>5, <2>1 DEF DiscardTransactions, DiscardScan, Runtime
  <2>3. PICK t \in Task : t = r.owner /\ r.tasks[t].state = "running"
    BY <1>5, <2>1, <2>2 DEF Safe, Exclusive, Runtime
  <2>4. s.owner = t /\ r.pending = FALSE /\ t \notin Ends(r)
    BY <2>1, <2>2, <2>3 DEF EndedTransactions, Runtime
  <2>5. s.tasks[t].release_tick = r.tasks[t].release_tick
    BY <1>3, <2>3, <2>4 DEF TaskBounds
  <2>6. s.tasks[u].release_tick # r.tick + 1
    BY <1>2, <1>3, <1>5, <2>4, <2>5 DEF Ahead
  <2>7. /\ r.tasks[u].state = "running" /\ u \notin Ends(r)
        /\ s.tasks[u].release_tick = r.tasks[u].release_tick
    BY <1>3, <1>5, <2>6 DEF Ahead, TaskBounds
  <2>8. Ahead(r, u, t)
    BY <1>5, <2>4, <2>5, <2>7 DEF Ahead
  <2> QED
    BY <1>3, <2>3, <2>7, <2>8, NoTaskIsNone DEF Prior
<1>6. Prior(s)
  BY <1>4, <1>5 DEF Prior
<1>7. ASSUME NEW t \in Task, NEW u \in Task,
             s.tasks[t].completed > r.tasks[t].completed,
             r.tasks[u].release_tick = s.tasks[t].release_tick
      PROVE  FALSE
  <2>1. s.tasks[t].completed # r.tasks[t].completed
    BY <1>3, <1>7
  <2>2. s.tasks[t].release_tick = r.tick + 1
    BY <1>3, <2>1 DEF TaskBounds
  <2> QED
    BY <1>2, <1>3, <1>7, <2>2
<1> QED
  BY <1>6, <1>7 DEF InOrder

\* What the host does between turns completes nothing.
LEMMA HostPrior ==
  ASSUME rt \in Runtime, Prior(rt),
         \/ \E t \in Task : TaskCall(t)
         \/ ReportResourceFault
         \/ \E command \in {"continue_", "step_in"} : Control(command)
  PROVE  Prior(rt') /\ InOrder(rt, rt')
<1>1. /\ rt'.owner = rt.owner /\ rt'.tick = rt.tick /\ rt'.parked = rt.parked
      /\ \A u \in Task : Kept(rt.tasks[u], rt'.tasks[u])
  <2>1. ASSUME NEW t \in Task, TaskCall(t)
        PROVE  /\ rt'.owner = rt.owner /\ rt'.tick = rt.tick /\ rt'.parked = rt.parked
               /\ \A u \in Task : Kept(rt.tasks[u], rt'.tasks[u])
    <3>1. rt.tasks[t] \in TaskRecord
      BY DEF Runtime
    <3>2. PICK x : /\ Kept(rt.tasks[t], x)
                   /\ rt' = [rt EXCEPT !.tasks = [rt.tasks EXCEPT ![t] = x]]
      <4> DEFINE w == [rt.tasks[t] EXCEPT !.wallclock = TRUE]
                 e == [rt.tasks[t] EXCEPT !.reset = TRUE]
                 l == [rt.tasks[t] EXCEPT !.restart = TRUE]
      <4>1. Kept(rt.tasks[t], w) /\ Kept(rt.tasks[t], e) /\ Kept(rt.tasks[t], l)
        BY <3>1 DEF TaskRecord, Kept
      <4>2. \/ rt' = [rt EXCEPT !.tasks = [rt.tasks EXCEPT ![t] = w]]
            \/ rt' = [rt EXCEPT !.tasks = [rt.tasks EXCEPT ![t] = e]]
            \/ rt' = [rt EXCEPT !.tasks = [rt.tasks EXCEPT ![t] = l]]
        BY <2>1 DEF TaskCall, Runtime
      <4> HIDE DEF w, e, l
      <4> QED
        BY <4>1, <4>2
    <3>3. /\ rt'.owner = rt.owner /\ rt'.tick = rt.tick /\ rt'.parked = rt.parked
          /\ rt'.tasks = [rt.tasks EXCEPT ![t] = x]
      BY <3>2 DEF Runtime
    <3>4. ASSUME NEW u \in Task PROVE Kept(rt.tasks[u], rt'.tasks[u])
      <4>1. CASE u = t
        BY <3>2, <3>3, <4>1 DEF Runtime
      <4>2. CASE u # t
        BY <3>3, <4>2 DEF Runtime, Kept
      <4> QED
        BY <4>1, <4>2
    <3> QED
      BY <3>3, <3>4
  <2>2. CASE ReportResourceFault
    BY <2>2 DEF ReportResourceFault, Kept, Runtime
  <2>3. ASSUME NEW command \in {"continue_", "step_in"}, Control(command)
        PROVE  /\ rt'.owner = rt.owner /\ rt'.tick = rt.tick /\ rt'.parked = rt.parked
               /\ \A u \in Task : Kept(rt.tasks[u], rt'.tasks[u])
    BY <2>3 DEF Control, Kept, Runtime
  <2> QED
    BY <2>1, <2>2, <2>3
<1>2. rt.owner # NoTask => rt.owner \in Task
  BY DEF Runtime
<1>3. ASSUME NEW u \in Task PROVE rt.tasks[u].completed \in Nat
  BY DEF Runtime, TaskRecord
<1>4. Prior(rt')
  BY <1>1, <1>2 DEF Prior, Ahead, Kept
<1>5. InOrder(rt, rt')
  BY <1>1, <1>3 DEF InOrder, Kept
<1> QED
  BY <1>4, <1>5

\* load() releases nothing.
LEMMA PriorInit == Init => Prior(rt)
<1> SUFFICES ASSUME Init PROVE Prior(rt)
  OBVIOUS
<1>1. InitialTask.state = "idle" /\ InitialTask.release_tick = 0
  BY DEF InitialTask
<1>2. rt.owner = NoTask /\ rt.tick = 0 /\ \A t \in Task : rt.tasks[t] = InitialTask
  BY DEF Init
<1> QED
  BY <1>1, <1>2 DEF Prior

\* Every step keeps Prior and completes releases by priority.
LEMMA PriorStep ==
  ASSUME RuntimeInv, Prior(rt), [Next]_rt
  PROVE  Prior(rt') /\ InOrder(rt, rt')
<1>1. rt \in Runtime /\ Safe(rt)
  BY DEF RuntimeInv
<1>2. ASSUME NEW events, Boundary(events) PROVE Prior(rt') /\ InOrder(rt, rt')
  <2>1. PICK a \in Runtime : a = AtBoundary(rt, events)
    BY <1>1, <1>2, AtBoundarySafe DEF Boundary
  <2>2. rt' = SchedulerBoundary(a)
    BY <1>2, <2>1 DEF Boundary
  <2>3. Prior(a) /\ InOrder(rt, a)
    BY <1>1, <1>2, <2>1, AtBoundaryPrior DEF Boundary
  <2>4. /\ Prior(rt')
        /\ \A u \in Task : /\ rt'.tasks[u].completed = a.tasks[u].completed
                           /\ rt'.tasks[u].release_tick = a.tasks[u].release_tick
    BY <2>2, <2>3, SchedulerBoundaryPrior
  <2> QED
    BY <2>3, <2>4 DEF InOrder
<1>3. PICK b \in Runtime : b = SchedulerBoundary(rt) /\ Safe(b)
  BY <1>1, SchedulerBoundarySafe
<1>4. /\ Prior(b) /\ b.parked = rt.parked
      /\ \A u \in Task :
            /\ b.tasks[u].completed = rt.tasks[u].completed
            /\ b.tasks[u].release_tick = rt.tasks[u].release_tick
            /\ rt.tasks[u].state = "running" => b.tasks[u].state = "running"
  BY <1>1, <1>3, SchedulerBoundaryPrior
<1>5. Settle(b) = b
  BY <1>3, SettleIs
<1>6. ASSUME NEW u \in Task PROVE b.tasks[u] \in TaskRecord /\ rt.tasks[u] \in TaskRecord
  BY <1>1 DEF Runtime
<1>7. CASE Turn
  <2>1. Running(b) # {} /\ rt' \in Outcomes(Ready(b), Ready(b).owner,
                                          CurrentMapping(Ready(b), Ready(b).owner))
    BY <1>3, <1>5, <1>7 DEF Turn
  <2>2. PICK r \in Runtime : /\ r = Ready(b) /\ Safe(r) /\ r.owner \in Task
                            /\ CurrentMapping(r, r.owner) \in Mapping
    BY <1>3, <2>1, ReadySafe
  <2>3. PICK t \in Task : t = r.owner
    BY <2>2
  <2>4. /\ Prior(r) /\ Opens(b, r, t) /\ b.tasks[t].state = "running"
    BY <1>3, <1>4, <2>1, <2>2, <2>3, ReadyPrior
  <2>5. r.tasks[t].state = "running" /\ r.tasks[t].transaction = TRUE
    BY <2>2, <2>3, NoTaskIsNone DEF Safe, Exclusive
  <2>6. rt' \in Runtime /\ Executes(r, rt', t)
    BY <2>1, <2>2, <2>3, <2>5, OutcomesSafe, OutcomesExecute
  <2>7. Prior(rt') /\ InOrder(r, rt')
    BY <2>3, <2>4, <2>6, ExecutesPrior
  <2>8. ASSUME NEW u \in Task
        PROVE  /\ r.tasks[u].completed = b.tasks[u].completed
               /\ r.tasks[u].release_tick = b.tasks[u].release_tick
               /\ r.tasks[u].state = b.tasks[u].state
               /\ u # t => r.parked[u] = b.parked[u]
    BY <1>6, <2>4 DEF Opens, OthersKept, Kept, TaskRecord
  <2>9. ASSUME NEW v \in Task, NEW u \in Task,
               rt'.tasks[v].completed > rt.tasks[v].completed, Before(u, v),
               rt.tasks[u].state = "running",
               rt.tasks[u].release_tick = rt'.tasks[v].release_tick
        PROVE  rt.parked[u].is = TRUE
    <3>1. /\ rt'.tasks[v].completed > r.tasks[v].completed
          /\ r.tasks[u].state = "running"
          /\ r.tasks[u].release_tick = rt'.tasks[v].release_tick
      BY <1>4, <2>8, <2>9
    <3>2. r.parked[u].is = TRUE
      BY <2>7, <2>9, <3>1 DEF InOrder
    <3>3. v = t
      <4>1. r.tasks[v].completed \in Nat
        BY DEF Runtime, TaskRecord
      <4> QED
        BY <2>6, <3>1, <4>1 DEF Executes, OthersKept
    <3>4. u # t
      BY <2>9, <3>3, NotBeforeItself
    <3> QED
      BY <1>4, <2>8, <3>2, <3>4
  <2> QED
    BY <2>7, <2>9 DEF InOrder
<1>8. CASE IdleTurn
  <2>1. rt' = b
    BY <1>3, <1>5, <1>8 DEF IdleTurn
  <2> QED
    BY <1>4, <1>6, <2>1 DEF InOrder, TaskRecord
<1>9. CASE \/ \E t \in Task : TaskCall(t)
           \/ ReportResourceFault
           \/ \E command \in {"continue_", "step_in"} : Control(command)
  BY <1>1, <1>9, HostPrior
<1>10. CASE UNCHANGED rt
  <2>1. InOrder(rt, rt')
    BY <1>6, <1>10 DEF InOrder, TaskRecord
  <2> QED
    BY <1>10, <2>1
<1> QED
  BY <1>2, <1>7, <1>8, <1>9, <1>10 DEF Next

\* Of two tasks released at the same tick the one of higher priority commits first
\* (L5-D03): only a release that the debugger had parked can be overtaken.  Behind
\* it stands Prior: the owner of the transaction was the first that ran when it
\* was opened, and a boundary in between releases at a later tick.
THEOREM ReleasesCommitByPriority == Spec => CommitsByPriority
<1>1. Init => Prior(rt)
  BY PriorInit
<1>2. RuntimeInv /\ Prior(rt) /\ [Next]_rt => Prior(rt)' /\ InOrder(rt, rt')
  BY PriorStep
<1>3. InOrder(rt, rt') =>
        [\A t, u \in Task :
            /\ rt'.tasks[t].completed > rt.tasks[t].completed
            /\ Before(u, t)
            /\ rt.tasks[u].state = "running"
            /\ rt.tasks[u].release_tick = rt'.tasks[t].release_tick
            => rt.parked[u].is]_rt
  BY DEF InOrder
<1> QED
  BY <1>1, <1>2, <1>3, RuntimeInvariance, PTL DEF Spec, CommitsByPriority
=============================================================================
