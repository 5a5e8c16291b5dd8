--------------------------- MODULE AxisGroupProofs ---------------------------
(***************************************************************************)
(* Proofs about a group of axes, for every set of members, every queue and *)
(* every profile.                                                          *)
(***************************************************************************)
EXTENDS AxisGroup, WellFoundedInduction, TLAPS

(* The inductive invariant, on the group's record.                          *)

AtRest(s) == \A a \in Member : ~s.members[a].own

\* The only motions of their own began while a path was queued.
OnlyEarly(s) == \A a \in Member : s.members[a].own => s.members[a].early

PathIn(q) == \E i \in DOMAIN q : q[i].kind = "motion"

\* A member that moves has power, and is in DiscreteMotion unless a path samples
\* it too, which no direct move does; it serves only the one the group watches.
MemberSafe(x, direct) ==
    /\ x.own => x.powered /\ (x.status = "discrete_motion" \/ x.early)
    /\ x.early => direct = 0
    /\ x.serves # 0 => x.own /\ x.serves = direct

MembersSafe(s) == \A a \in Member : MemberSafe(s.members[a], s.direct)

\* Paths and direct moves exist in a moving group only; there, and where a path
\* is queued and may start without a look at the members, no member runs a motion
\* of its own but an early one; a wait that runs holds all others back.
Safe(s) ==
    /\ s.active => s.status \in {"moving", "stopping"} /\ s.direct = 0
    /\ s.direct # 0 => s.status \in {"moving", "stopping"}
    /\ s.status \in {"moving", "stopping", "interrupted"} /\ s.direct = 0 => OnlyEarly(s)
    /\ s.direct = 0 /\ PathIn(s.queue) => OnlyEarly(s)
    /\ s.status = "errorstop" /\ s.failure = "member" => s.queue = <<>>
    /\ s.waitState = "active" => s.status \in {"standby", "disabled", "errorstop"}
    /\ MembersSafe(s)

Good(s) == GroupTypes(s) /\ Len(s.queue) <= QueueCapacity /\ Safe(s)

GroupInv == Good(gr)

\* What a function that only works on the members' states keeps of one.
Kept(x, y) ==
    /\ y.own = x.own /\ y.serves = x.serves /\ y.powered = x.powered
    /\ y.early = x.early
    /\ x.own => y.status = x.status \/ x.status # "discrete_motion"

\* What it is about when it ends the motion of one.
Ended(y) == ~y.own /\ y.serves = 0 /\ ~y.early

-----------------------------------------------------------------------------
(* Numbers and sequences.                                                   *)

\* A set of natural numbers has a least element.
LEMMA Least ==
  ASSUME NEW T, T \subseteq Nat, T # {}
  PROVE  \E x \in T : \A y \in T : x <= y
<1>1. IsWellFoundedOn(OpToRel(<, Nat), Nat)
  BY NatLessThanWellFounded
<1>2. PICK x \in T : \A y \in T : ~(<<y, x>> \in OpToRel(<, Nat))
  BY <1>1, WFMin
<1>3. ASSUME NEW y \in T PROVE x <= y
  <2>1. x \in Nat /\ y \in Nat
    OBVIOUS
  <2>2. ~(y < x)
    BY <1>2, <2>1 DEF OpToRel
  <2> QED
    BY <2>1, <2>2
<1> QED
  BY <1>3

\* A bounded one has a greatest.
LEMMA Greatest ==
  ASSUME NEW n \in Nat, NEW T, T \subseteq 0 .. n, T # {}
  PROVE  \E x \in T : \A y \in T : y <= x
<1> DEFINE S == {n - x : x \in T}
<1>1. S \subseteq Nat
  <2> SUFFICES ASSUME NEW x \in T PROVE n - x \in Nat
    OBVIOUS
  <2>1. x \in 0 .. n
    OBVIOUS
  <2> QED
    BY <2>1
<1>2. S # {}
  OBVIOUS
<1>3. PICK m \in S : \A k \in S : m <= k
  <2> HIDE DEF S
  <2> QED
    BY <1>1, <1>2, Least
<1>4. PICK x \in T : m = n - x
  OBVIOUS
<1>5. ASSUME NEW y \in T PROVE y <= x
  <2>1. n - y \in S
    OBVIOUS
  <2>2. m <= n - y
    BY <1>3, <2>1
  <2>3. x \in 0 .. n /\ y \in 0 .. n
    OBVIOUS
  <2> QED
    BY <1>4, <2>2, <2>3
<1> QED
  BY <1>5

\* A path takes as long as one of its members.
LEMMA LongestType ==
  ASSUME NEW d \in Durations
  PROVE  Longest(d) \in Ticks
<1> DEFINE T == {d[a] : a \in Member}
<1>1. T \subseteq 0 .. MaxTicks /\ T # {} /\ T \subseteq Ticks
  BY GroupAssumption DEF Durations, Ticks
<1>2. \E n \in T : \A k \in T : k <= n
  <2> HIDE DEF T
  <2> QED
    BY <1>1, Greatest, GroupAssumption
<1>3. PICK n \in T : \A a \in Member : d[a] <= n
  BY <1>2
<1>4. Longest(d) \in T
  BY <1>3 DEF Longest
<1> QED
  BY <1>1, <1>4

\* The ids of the queue are ids.
LEMMA QueuedIdsType ==
  ASSUME NEW s, s.queue \in Seq(Command), NEW kind
  PROVE  QueuedIds(s, kind) \subseteq 1 .. MaxId
<1>1. ASSUME NEW i \in DOMAIN s.queue PROVE s.queue[i].id \in 1 .. MaxId
  <2>1. s.queue[i] \in Command
    OBVIOUS
  <2> QED
    BY <2>1 DEF Command
<1> QED
  BY <1>1 DEF QueuedIds

\* The latest of some ids is one of them.
LEMMA LatestType ==
  ASSUME NEW ids, ids \subseteq 0 .. MaxId, NEW default \in 0 .. MaxId
  PROVE  Latest(ids, default) \in 0 .. MaxId
  BY Greatest, GroupAssumption DEF Latest

\* The rest of a queue is a shorter queue of the same commands.
LEMMA TailType ==
  ASSUME NEW q \in Seq(Command), q # <<>>
  PROVE  /\ Tail(q) \in Seq(Command) /\ Len(Tail(q)) < Len(q)
         /\ Head(q) \in Command
         /\ PathIn(Tail(q)) => PathIn(q)
         /\ Head(q).kind = "motion" => PathIn(q)
  BY DEF PathIn

\* Zero and the empty queue are of the types they are used as.
LEMMA Zero == /\ 0 \in 0 .. MaxId /\ 0 \in 0 .. MaxTicks
              /\ <<>> \in Seq(Command)
              /\ Ticks \subseteq 0 .. MaxTicks /\ 1 .. MaxId \subseteq 0 .. MaxId
  BY GroupAssumption DEF Ticks

-----------------------------------------------------------------------------
(* The members.                                                             *)

\* The functions on a member keep its type.
LEMMA MemberTypes ==
  ASSUME NEW x \in MemberRecord
  PROVE  /\ Abandoned(x) \in MemberRecord
         /\ clear_synchronized(x) \in MemberRecord
         /\ abort_group_owned_motion(x) \in MemberRecord
         /\ set_synchronized_position(x) \in MemberRecord
         /\ reset_error(x) \in MemberRecord
         /\ trigger_error(x) \in MemberRecord
         /\ \A enabled, withdrawn \in BOOLEAN : set_power(x, enabled, withdrawn) \in MemberRecord
         /\ \A id \in 0 .. MaxId, n \in Ticks : Driven(x, id, n) \in MemberRecord
         /\ MemberCycle(x) \in MemberRecord
<1> USE Zero
<1>1. Rest(x) \in MemberStatus
  BY DEF Rest, MemberStatus
<1>2. Abandoned(x) \in MemberRecord
  BY DEF Abandoned, MemberRecord
<1>3. clear_synchronized(x) \in MemberRecord /\ reset_error(x) \in MemberRecord
  BY <1>1 DEF clear_synchronized, reset_error, MemberRecord
<1>4. abort_group_owned_motion(x) \in MemberRecord
  BY <1>1, <1>2 DEF abort_group_owned_motion, MemberRecord
<1>5. set_synchronized_position(x) \in MemberRecord
  BY DEF set_synchronized_position, MemberRecord, MemberStatus
<1>9. Severed(x) \in MemberRecord /\ trigger_error(x) \in MemberRecord
  <2>1. (x.ended \/ x.serves # 0) \in BOOLEAN
    OBVIOUS
  <2>2. Severed(x) \in MemberRecord
    BY <1>2, <2>1 DEF Severed, MemberRecord
  <2> QED
    BY <2>2 DEF trigger_error, MemberRecord, MemberStatus
<1>6. ASSUME NEW enabled \in BOOLEAN, NEW withdrawn \in BOOLEAN
      PROVE  set_power(x, enabled, withdrawn) \in MemberRecord
  BY <1>9 DEF set_power, MemberRecord, MemberStatus
<1>7. ASSUME NEW id \in 0 .. MaxId, NEW n \in Ticks PROVE Driven(x, id, n) \in MemberRecord
  BY FALSE \in BOOLEAN DEF Driven, MemberRecord, MemberStatus
<1>8. MemberCycle(x) \in MemberRecord
  <2>1. CASE ~x.own
    BY <2>1 DEF MemberCycle
  <2>2. CASE x.own /\ x.left > 1
    <3>1. x.left - 1 \in 0 .. MaxTicks
      BY <2>2, GroupAssumption DEF MemberRecord
    <3> QED
      BY <2>2, <3>1 DEF MemberCycle, MemberRecord
  <2>3. CASE x.own /\ ~(x.left > 1)
    <3>1. (x.serves # 0) \in BOOLEAN
      OBVIOUS
    <3> QED
      BY <1>2, <2>3, <3>1 DEF MemberCycle, MemberRecord, MemberStatus
  <2> QED
    BY <2>1, <2>2, <2>3
<1> QED
  BY <1>2, <1>3, <1>4, <1>5, <1>6, <1>7, <1>8, <1>9

\* And a member safe: what it serves is ended, or goes on as it was.
LEMMA MemberFacts ==
  ASSUME NEW x \in MemberRecord
  PROVE  /\ Ended(Abandoned(x)) /\ Ended(trigger_error(x))
         /\ LET y == abort_group_owned_motion(x) IN Ended(y) /\ y.powered = x.powered
         /\ Kept(x, clear_synchronized(x)) /\ Kept(x, reset_error(x))
         /\ LET y == set_synchronized_position(x)
            IN  /\ y.own = x.own /\ y.serves = x.serves /\ y.powered = x.powered
                /\ y.early = x.early
         /\ \A enabled, withdrawn \in BOOLEAN :
               LET y == set_power(x, enabled, withdrawn) IN y = x \/ Ended(y)
         /\ \A enabled \in BOOLEAN :
               enabled # x.powered => Ended(set_power(x, enabled, FALSE))
         /\ LET y == MemberCycle(x)
            IN  \/ /\ y.own = x.own /\ y.serves = x.serves /\ y.status = x.status
                   /\ y.powered = x.powered /\ y.early = x.early
                \/ Ended(y)
<1>1. Ended(Abandoned(x)) /\ Abandoned(x).powered = x.powered
  BY DEF Abandoned, Ended, MemberRecord
<1>2. LET y == abort_group_owned_motion(x) IN Ended(y) /\ y.powered = x.powered
  BY DEF Abandoned, Ended, abort_group_owned_motion, MemberRecord
<1>3. Kept(x, clear_synchronized(x)) /\ Kept(x, reset_error(x))
  BY DEF clear_synchronized, reset_error, Kept, MemberRecord
<1>4. LET y == set_synchronized_position(x)
      IN  /\ y.own = x.own /\ y.serves = x.serves /\ y.powered = x.powered
          /\ y.early = x.early
  BY DEF set_synchronized_position, MemberRecord
<1>5. ASSUME NEW enabled \in BOOLEAN, NEW withdrawn \in BOOLEAN
      PROVE  LET y == set_power(x, enabled, withdrawn) IN y = x \/ Ended(y)
  BY DEF set_power, Severed, Abandoned, Ended, MemberRecord
<1>8. ASSUME NEW enabled \in BOOLEAN, enabled # x.powered
      PROVE  Ended(set_power(x, enabled, FALSE))
  BY <1>8 DEF set_power, Severed, Abandoned, Ended, MemberRecord
<1>7. LET y == MemberCycle(x)
      IN  \/ /\ y.own = x.own /\ y.serves = x.serves /\ y.status = x.status
             /\ y.powered = x.powered /\ y.early = x.early
          \/ Ended(y)
  BY DEF MemberCycle, Abandoned, Ended, MemberRecord
<1>9. Ended(trigger_error(x))
  BY DEF trigger_error, Severed, Abandoned, Ended, MemberRecord
<1> QED
  BY <1>1, <1>2, <1>3, <1>4, <1>5, <1>7, <1>8, <1>9

\* A member under an order moves for whom it serves.
LEMMA DrivenFacts ==
  ASSUME NEW x \in MemberRecord, NEW id, NEW n
  PROVE  LET y == Driven(x, id, n)
         IN  /\ y.own /\ y.serves = id /\ y.powered = x.powered
             /\ ~y.early /\ y.status = "discrete_motion"
  BY DEF Driven, MemberRecord

-----------------------------------------------------------------------------
(* Aborting.                                                                *)

\* Fields that a function leaves alone.
Same(s, t, F) == \A f \in F : t[f] = s[f]

\* A wait or a halt that is given up changes nothing else.
LEMMA EndsTypes ==
  ASSUME NEW s, GroupTypes(s)
  PROVE  /\ GroupTypes(abort_wait(s)) /\ GroupTypes(abort_halt(s))
         /\ GroupTypes(abort_queued_management(s))
         /\ Same(s, abort_wait(s), GroupFields \ {"waitState", "waitLeft"})
         /\ abort_wait(s).waitState # "active"
         /\ Same(s, abort_halt(s), GroupFields \ {"haltLive", "halt"})
         /\ Same(s, abort_queued_management(s), GroupFields \ {"haltLive"})
<1>1. /\ GroupTypes(abort_wait(s)) /\ abort_wait(s).waitState # "active"
      /\ Same(s, abort_wait(s), GroupFields \ {"waitState", "waitLeft"})
  <2> DEFINE t == [s EXCEPT !.waitState = "idle", !.waitLeft = 0]
  <2>1. GroupTypes(t)
    BY Zero DEF GroupTypes, GroupFields, WaitState
  <2>2. t.waitState = "idle" /\ Same(s, t, GroupFields \ {"waitState", "waitLeft"})
    BY DEF GroupTypes, GroupFields, Same
  <2>3. Same(s, s, GroupFields \ {"waitState", "waitLeft"})
    BY DEF Same
  <2>4. abort_wait(s) = t \/ (abort_wait(s) = s /\ s.waitState # "active")
    BY DEF abort_wait, WaitPending
  <2> HIDE DEF t
  <2> QED
    BY <2>1, <2>2, <2>3, <2>4
<1>2. /\ GroupTypes(abort_halt(s))
      /\ Same(s, abort_halt(s), GroupFields \ {"haltLive", "halt"})
  BY Zero DEF GroupTypes, GroupFields, abort_halt, Same
<1>3. /\ GroupTypes(abort_queued_management(s))
      /\ Same(s, abort_queued_management(s), GroupFields \ {"haltLive"})
  <2>1. (s.haltLive /\ s.halt \notin QueuedIds(s, "halt")) \in BOOLEAN
    OBVIOUS
  <2> QED
    BY <2>1 DEF GroupTypes, GroupFields, abort_queued_management, Same
<1> QED
  BY <1>1, <1>2, <1>3

\* So do an error and the id of a command.
LEMMA StatusTypes ==
  ASSUME NEW s, GroupTypes(s)
  PROVE  /\ GroupTypes(Standby(s)) /\ Standby(s).status = "standby"
         /\ Same(s, Standby(s), GroupFields \ {"status", "failure"})
         /\ \A f \in Failures :
               LET t == set_group_error(s, f) IN
               /\ GroupTypes(t) /\ t.status = "errorstop" /\ t.failure = f
               /\ Same(s, t, GroupFields \ {"status", "failure"})
         /\ s.nextId <= MaxId =>
               /\ GroupTypes(NewId(s)) /\ s.nextId \in 1 .. MaxId
               /\ Same(s, NewId(s), GroupFields \ {"nextId"})
<1>1. s.nextId <= MaxId => s.nextId \in 1 .. MaxId /\ s.nextId + 1 \in 1 .. MaxId + 1
  BY GroupAssumption DEF GroupTypes
<1>2. s.nextId <= MaxId => GroupTypes(NewId(s)) /\ Same(s, NewId(s), GroupFields \ {"nextId"})
  BY <1>1 DEF GroupTypes, GroupFields, NewId, Same
<1>3. /\ GroupTypes(Standby(s)) /\ Standby(s).status = "standby"
      /\ Same(s, Standby(s), GroupFields \ {"status", "failure"})
  BY DEF GroupTypes, GroupFields, Standby, Same, GroupStatus, Failures
<1>4. ASSUME NEW f \in Failures
      PROVE  LET t == set_group_error(s, f) IN
             /\ GroupTypes(t) /\ t.status = "errorstop" /\ t.failure = f
             /\ Same(s, t, GroupFields \ {"status", "failure"})
  BY DEF GroupTypes, GroupFields, set_group_error, Same, GroupStatus
<1> QED
  BY <1>1, <1>2, <1>3, <1>4

\* The members of the group after a function on each of them.
LEMMA MembersReplaced ==
  ASSUME NEW s, GroupTypes(s), NEW m \in [Member -> MemberRecord]
  PROVE  LET t == [s EXCEPT !.members = m] IN
         GroupTypes(t) /\ t.members = m /\ Same(s, t, GroupFields \ {"members"})
  BY DEF GroupTypes, GroupFields, Same

\* The members give up the motion of a direct move, and keep their power.
LEMMA AbortMembersTypes ==
  ASSUME NEW s, GroupTypes(s)
  PROVE  LET t == abort_direct_members(s) IN
         /\ GroupTypes(t) /\ Same(s, t, GroupFields \ {"members"})
         /\ \A a \in Member : /\ Ended(t.members[a])
                             /\ t.members[a].powered = s.members[a].powered
<1> DEFINE m == [a \in Member |-> abort_group_owned_motion(s.members[a])]
<1>1. s.members \in [Member -> MemberRecord]
  BY DEF GroupTypes
<1>2. m \in [Member -> MemberRecord]
  BY <1>1, MemberTypes
<1>3. \A a \in Member : Ended(m[a]) /\ m[a].powered = s.members[a].powered
  BY <1>1, MemberFacts
<1>4. abort_direct_members(s) = [s EXCEPT !.members = m]
  BY DEF abort_direct_members
<1> HIDE DEF m
<1> DEFINE t == abort_direct_members(s)
<1>5. GroupTypes(t) /\ Same(s, t, GroupFields \ {"members"}) /\ t.members = m
  BY <1>2, <1>4, MembersReplaced
<1> HIDE DEF t
<1>6. \A a \in Member : /\ Ended(t.members[a])
                        /\ t.members[a].powered = s.members[a].powered
  BY <1>3, <1>5
<1> QED
  BY <1>5, <1>6 DEF t

\* The members that follow a path give it up.
LEMMA ClearTypes ==
  ASSUME NEW s, GroupTypes(s)
  PROVE  LET t == clear_axes_synchronized(s) IN
         /\ GroupTypes(t) /\ Same(s, t, GroupFields \ {"members"})
         /\ \A a \in Member : Kept(s.members[a], t.members[a])
<1> DEFINE m == [a \in Member |-> clear_synchronized(s.members[a])]
<1>1. s.members \in [Member -> MemberRecord]
  BY DEF GroupTypes
<1>2. m \in [Member -> MemberRecord]
  BY <1>1, MemberTypes
<1>3. \A a \in Member : Kept(s.members[a], m[a])
  BY <1>1, MemberFacts
<1>4. clear_axes_synchronized(s) = [s EXCEPT !.members = m]
  BY DEF clear_axes_synchronized
<1> HIDE DEF m
<1> QED
  BY <1>2, <1>3, <1>4, MembersReplaced

\* What it clears.
Cleared(s, da) ==
    [s EXCEPT !.directAborted = da,
              !.direct = 0, !.directStopping = FALSE,
              !.active = FALSE, !.left = 0, !.moves = FALSE, !.connector = FALSE,
              !.beyond = FALSE, !.paused = FALSE,
              !.interrupting = FALSE, !.interruptedPlain = FALSE,
              !.queue = <<>>]

\* It leaves well-typed fields.
LEMMA ClearedTypes ==
  ASSUME NEW s, GroupTypes(s), NEW da \in 0 .. MaxId
  PROVE  /\ GroupTypes(Cleared(s, da))
         /\ ~Cleared(s, da).active /\ Cleared(s, da).direct = 0 /\ Cleared(s, da).queue = <<>>
         /\ Same(s, Cleared(s, da), {"status", "nextId", "waitState", "waitLeft", "failure", "members"})
<1>1. 0 \in 0 .. MaxId /\ 0 \in 0 .. MaxTicks /\ <<>> \in Seq(Command)
  BY Zero
<1>2. GroupTypes(Cleared(s, da))
  BY <1>1 DEF GroupTypes, GroupFields, Cleared
<1> QED
  BY <1>2 DEF GroupTypes, GroupFields, Cleared, Same

\* abort_motion leaves no path, no direct move and no queue.
LEMMA AbortTypes ==
  ASSUME NEW s, GroupTypes(s)
  PROVE  LET t == abort_motion(s) IN
         /\ GroupTypes(t)
         /\ ~t.active /\ t.direct = 0 /\ t.queue = <<>>
         /\ t.status = s.status /\ t.nextId = s.nextId /\ t.waitState = s.waitState
         /\ t.failure = s.failure
         /\ \A a \in Member : Kept(s.members[a], t.members[a])
<1> DEFINE dropped == QueuedIds(s, "direct") \cup ({s.direct} \ {0})
           b == abort_queued_management(s)
           da == Latest(dropped, b.directAborted)
           c == Cleared(b, da)
<1>0. GroupTypes(b)
  BY EndsTypes
<1>1. Same(s, b, GroupFields \ {"haltLive"})
  BY EndsTypes
<1>2. dropped \subseteq 0 .. MaxId
  BY QueuedIdsType, Zero DEF GroupTypes
<1>3. da \in 0 .. MaxId
  <2> HIDE DEF dropped, b
  <2> QED
    BY <1>0, <1>2, LatestType DEF GroupTypes
<1>4. abort_motion(s) = clear_axes_synchronized(c)
  BY DEF abort_motion, Cleared
<1> HIDE DEF b, da, dropped
<1>5. /\ GroupTypes(c) /\ ~c.active /\ c.direct = 0 /\ c.queue = <<>>
      /\ Same(b, c, {"status", "nextId", "waitState", "waitLeft", "failure", "members"})
  BY <1>0, <1>3, ClearedTypes
<1> HIDE DEF c
<1> QED
  BY <1>1, <1>4, <1>5, ClearTypes DEF GroupFields, Same

-----------------------------------------------------------------------------
(* What keeps a group good.                                                 *)

\* The fields the invariant is about.
Kernel == {"status", "queue", "active", "direct", "waitState", "failure",
           "members"}

\* They are the same field by field.
LEMMA KernelFields ==
  ASSUME NEW s, NEW t, NEW F, Kernel \subseteq F, Same(s, t, F)
  PROVE  /\ t.status = s.status /\ t.queue = s.queue /\ t.active = s.active
         /\ t.direct = s.direct /\ t.waitState = s.waitState /\ t.members = s.members
         /\ t.failure = s.failure
<1>1. \A f \in Kernel : t[f] = s[f]
  BY DEF Same
<1> QED
  BY <1>1 DEF Kernel

\* A step that leaves them alone keeps the invariant.
LEMMA SameGood ==
  ASSUME NEW s, NEW t, NEW F, Kernel \subseteq F, Good(s), GroupTypes(t), Same(s, t, F)
  PROVE  Good(t)
<1>1. /\ t.status = s.status /\ t.queue = s.queue /\ t.active = s.active
      /\ t.direct = s.direct /\ t.waitState = s.waitState /\ t.members = s.members
      /\ t.failure = s.failure
  BY KernelFields
<1>2. Safe(t)
  BY <1>1 DEF Good, Safe, MembersSafe, OnlyEarly
<1> QED
  BY <1>1, <1>2 DEF Good

\* A member that only changes its own state stays safe.
LEMMA KeptSafe ==
  ASSUME NEW x, NEW y, NEW direct, MemberSafe(x, direct), Kept(x, y)
  PROVE  MemberSafe(y, direct)
  BY DEF MemberSafe, Kept

\* A group with nothing to do is safe in every state but an interruption or an
\* end that is still awaited, and there if no member moves but early.
LEMMA QuietGood ==
  ASSUME NEW t, GroupTypes(t), ~t.active, t.direct = 0, t.queue = <<>>,
         MembersSafe(t),
         t.status \in {"moving", "stopping", "interrupted"} =>
             OnlyEarly(t) /\ t.waitState # "active"
  PROVE  Good(t)
<1>1. Safe(t)
  BY DEF Safe, PathIn, WaitState, GroupTypes, GroupStatus
<1> QED
  BY <1>1, GroupAssumption DEF Good

\* abort_motion when no member serves a direct move any more.
LEMMA AbortSafe ==
  ASSUME NEW s, GroupTypes(s), \A a \in Member : MemberSafe(s.members[a], 0)
  PROVE  LET t == abort_motion(s) IN
         /\ GroupTypes(t) /\ MembersSafe(t)
         /\ ~t.active /\ t.direct = 0 /\ t.queue = <<>>
         /\ t.status = s.status /\ t.nextId = s.nextId /\ t.waitState = s.waitState
         /\ OnlyEarly(s) => OnlyEarly(t)
<1> DEFINE t == abort_motion(s)
<1>1. /\ GroupTypes(t)
      /\ ~t.active /\ t.direct = 0 /\ t.queue = <<>>
      /\ t.status = s.status /\ t.nextId = s.nextId /\ t.waitState = s.waitState
      /\ \A a \in Member : Kept(s.members[a], t.members[a])
  BY AbortTypes
<1> HIDE DEF t
<1>2. MembersSafe(t)
  BY <1>1, KeptSafe DEF MembersSafe
<1>3. OnlyEarly(s) => OnlyEarly(t)
  BY <1>1 DEF OnlyEarly, Kept
<1> QED
  BY <1>1, <1>2, <1>3 DEF t

\* Without a direct move no member serves one.
LEMMA NoneServed ==
  ASSUME NEW s, MembersSafe(s), s.direct = 0
  PROVE  \A a \in Member : MemberSafe(s.members[a], 0)
  BY DEF MembersSafe

\* With their motion aborted the members serve nothing and are at rest.
LEMMA AbortedMembers ==
  ASSUME NEW s, GroupTypes(s)
  PROVE  LET t == abort_direct_members(s) IN
         OnlyEarly(t) /\ \A a \in Member, direct \in Nat : MemberSafe(t.members[a], direct)
<1> DEFINE t == abort_direct_members(s)
<1>1. \A a \in Member : Ended(t.members[a])
  BY AbortMembersTypes
<1> HIDE DEF t
<1>2. OnlyEarly(t) /\ \A a \in Member, direct \in Nat : MemberSafe(t.members[a], direct)
  BY <1>1 DEF OnlyEarly, MemberSafe, Ended
<1> QED
  BY <1>2 DEF t

\* Which is safe when the group watches no direct move.
LEMMA AbortedGood ==
  ASSUME NEW s, Good(s), ~s.active, s.direct = 0
  PROVE  LET t == abort_direct_members(s) IN Good(t) /\ ~t.active /\ t.direct = 0
<1> DEFINE t == abort_direct_members(s)
<1>0. GroupTypes(s) /\ Safe(s) /\ Len(s.queue) <= QueueCapacity
  BY DEF Good
<1>1. /\ GroupTypes(t) /\ Same(s, t, GroupFields \ {"members"})
  BY <1>0, AbortMembersTypes
<1>2. OnlyEarly(t) /\ \A a \in Member, direct \in Nat : MemberSafe(t.members[a], direct)
  BY <1>0, AbortedMembers
<1> HIDE DEF t
<1>3. /\ t.status = s.status /\ t.queue = s.queue /\ ~t.active /\ t.direct = 0
      /\ t.waitState = s.waitState /\ t.failure = s.failure
  BY <1>1 DEF Same, GroupFields
<1>4. MembersSafe(t)
  BY <1>2, <1>3 DEF MembersSafe
<1>5. Safe(t)
  BY <1>0, <1>2, <1>3, <1>4 DEF Safe
<1>6. Good(t)
  BY <1>0, <1>1, <1>3, <1>5 DEF Good
<1> QED
  BY <1>3, <1>6 DEF t

\* An error of the group that drops everything.
LEMMA ErrorGood ==
  ASSUME NEW s, GroupTypes(s), \A a \in Member : MemberSafe(s.members[a], 0)
  PROVE  Good(set_group_error(abort_motion(s), "member"))
<1> DEFINE b == abort_motion(s)
           t == set_group_error(b, "member")
<1>1. /\ GroupTypes(b) /\ MembersSafe(b) /\ ~b.active /\ b.direct = 0 /\ b.queue = <<>>
  BY AbortSafe
<1> HIDE DEF b
<1>2. GroupTypes(t) /\ t.status = "errorstop" /\ Same(b, t, GroupFields \ {"status", "failure"})
  BY <1>1, StatusTypes DEF Failures
<1> HIDE DEF t
<1>3. ~t.active /\ t.direct = 0 /\ t.queue = <<>> /\ t.members = b.members
  BY <1>1, <1>2 DEF Same, GroupFields
<1>4. MembersSafe(t)
  BY <1>1, <1>3 DEF MembersSafe
<1>5. Good(t)
  BY <1>2, <1>3, <1>4, QuietGood
<1> QED
  BY <1>5 DEF t, b

\* One that keeps the queue.
LEMMA ErrorKeptGood ==
  ASSUME NEW s, Good(s), ~s.active, s.direct = 0, NEW f \in Failures, f # "member"
  PROVE  Good(set_group_error(s, f))
<1> DEFINE t == set_group_error(s, f)
<1>0. GroupTypes(s) /\ Safe(s) /\ Len(s.queue) <= QueueCapacity
  BY DEF Good
<1>1. /\ GroupTypes(t) /\ t.status = "errorstop" /\ t.failure = f
      /\ Same(s, t, GroupFields \ {"status", "failure"})
  BY <1>0, StatusTypes
<1> HIDE DEF t
<1>2. /\ t.queue = s.queue /\ ~t.active /\ t.direct = 0 /\ t.members = s.members
      /\ t.waitState = s.waitState
  BY <1>1 DEF Same, GroupFields
<1>3. MembersSafe(t) /\ (OnlyEarly(s) <=> OnlyEarly(t))
  BY <1>0, <1>2 DEF Safe, MembersSafe, OnlyEarly
<1>4. Safe(t)
  BY <1>0, <1>1, <1>2, <1>3 DEF Safe
<1>5. Good(t)
  BY <1>0, <1>1, <1>2, <1>4 DEF Good
<1> QED
  BY <1>5 DEF t

\* A group that stands by after its members gave up the path.
LEMMA ClearGood ==
  ASSUME NEW s, Good(s)
  PROVE  LET t == clear_axes_synchronized(s) IN
         Good(t) /\ Same(s, t, GroupFields \ {"members"})
<1> DEFINE t == clear_axes_synchronized(s)
<1>0. GroupTypes(s) /\ Safe(s) /\ Len(s.queue) <= QueueCapacity
  BY DEF Good
<1>1. /\ GroupTypes(t) /\ Same(s, t, GroupFields \ {"members"})
      /\ \A a \in Member : Kept(s.members[a], t.members[a])
  BY <1>0, ClearTypes
<1> HIDE DEF t
<1>2. /\ t.status = s.status /\ t.queue = s.queue /\ t.active = s.active
      /\ t.direct = s.direct /\ t.waitState = s.waitState /\ t.failure = s.failure
  BY <1>1 DEF Same, GroupFields
<1>3. MembersSafe(s)
  BY <1>0 DEF Safe
<1>4. MembersSafe(t)
  BY <1>1, <1>2, <1>3, KeptSafe DEF MembersSafe
<1>5. OnlyEarly(s) => OnlyEarly(t)
  BY <1>1 DEF OnlyEarly, Kept
<1>6. Safe(t)
  BY <1>0, <1>2, <1>4, <1>5 DEF Safe
<1>7. Good(t)
  BY <1>0, <1>1, <1>2, <1>6 DEF Good
<1> QED
  BY <1>1, <1>7 DEF t

\* A group may stand by when no motion is left.
LEMMA StandbyGood ==
  ASSUME NEW s, Good(s), ~s.active, s.direct = 0
  PROVE  Good(Standby(s)) /\ Standby(s).status = "standby"
         /\ Same(s, Standby(s), GroupFields \ {"status", "failure"})
<1> DEFINE t == Standby(s)
<1>0. GroupTypes(s) /\ Safe(s) /\ Len(s.queue) <= QueueCapacity
  BY DEF Good
<1>1. /\ GroupTypes(t) /\ t.status = "standby"
      /\ Same(s, t, GroupFields \ {"status", "failure"})
  BY <1>0, StatusTypes
<1> HIDE DEF t
<1>2. /\ t.queue = s.queue /\ ~t.active /\ t.direct = 0 /\ t.members = s.members
      /\ t.waitState = s.waitState
  BY <1>1 DEF Same, GroupFields
<1>3. MembersSafe(t) /\ (OnlyEarly(s) <=> OnlyEarly(t))
  BY <1>0, <1>2 DEF Safe, MembersSafe, OnlyEarly
<1>4. Safe(t)
  BY <1>0, <1>1, <1>2, <1>3 DEF Safe
<1>5. Good(t)
  BY <1>0, <1>1, <1>2, <1>4 DEF Good
<1> QED
  BY <1>1, <1>5 DEF t

\* The answer of a call carries the group.
LEMMA Answers ==
  ASSUME NEW s
  PROVE  /\ Accepted(s).s = s /\ Accepted(s).ok
         /\ Rejected(s).s = s /\ ~Rejected(s).ok
  BY DEF Accepted, Rejected

-----------------------------------------------------------------------------
(* Starting.                                                                *)

\* A path makes the group move and leaves the members alone.
LEMMA StartTypes ==
  ASSUME NEW s, GroupTypes(s), NEW n \in Ticks, NEW connector \in BOOLEAN, NEW moves \in BOOLEAN
  PROVE  LET t == start(s, n, connector, moves, "started").s IN
         /\ GroupTypes(t) /\ t.active /\ t.status = "moving"
         /\ Same(s, t, {"queue", "direct", "members", "waitState", "nextId"})
<1> DEFINE t == [s EXCEPT !.active = TRUE, !.left = n, !.moves = moves,
                          !.connector = connector, !.beyond = FALSE,
                          !.status = "moving", !.failure = "none"]
<1>1. n \in 0 .. MaxTicks
  BY Zero
<1>2. start(s, n, connector, moves, "started").s = t
  BY DEF start, Accepted
<1>3. GroupTypes(t)
  BY <1>1 DEF GroupTypes, GroupFields, GroupStatus, Failures
<1>4. /\ t.active /\ t.status = "moving"
      /\ Same(s, t, {"queue", "direct", "members", "waitState", "nextId"})
  BY DEF GroupTypes, GroupFields, Same
<1> QED
  BY <1>2, <1>3, <1>4

\* A path may start if no direct move is left, no wait runs and all members that
\* move began while it was queued.
LEMMA StartGood ==
  ASSUME NEW s, Good(s), s.direct = 0, s.waitState # "active", OnlyEarly(s),
         NEW n \in Ticks, NEW connector \in BOOLEAN, NEW moves \in BOOLEAN, NEW o \in Outcomes
  PROVE  Good(start(s, n, connector, moves, o).s)
<1>0. GroupTypes(s) /\ Safe(s) /\ Len(s.queue) <= QueueCapacity
  BY DEF Good
<1>1. CASE o = "started"
  <2> DEFINE t == start(s, n, connector, moves, o).s
  <2>1. /\ GroupTypes(t) /\ t.active /\ t.status = "moving"
        /\ Same(s, t, {"queue", "direct", "members", "waitState", "nextId"})
    BY <1>0, <1>1, StartTypes
  <2> HIDE DEF t
  <2>2. /\ t.queue = s.queue /\ t.direct = 0 /\ t.members = s.members
        /\ t.waitState = s.waitState
    BY <2>1 DEF Same
  <2>3. OnlyEarly(t) /\ MembersSafe(t)
    BY <1>0, <2>2 DEF OnlyEarly, Safe, MembersSafe
  <2>4. Safe(t)
    BY <2>1, <2>2, <2>3 DEF Safe
  <2>5. Good(t)
    BY <1>0, <2>1, <2>2, <2>4 DEF Good
  <2> QED
    BY <2>5 DEF t
<1>2. CASE o # "started"
  <2> DEFINE t == [s EXCEPT !.connector = FALSE]
  <2>1. start(s, n, connector, moves, o).s = t
    BY <1>2 DEF start, Rejected
  <2>2. GroupTypes(t) /\ Same(s, t, GroupFields \ {"connector"})
    BY <1>0 DEF GroupTypes, GroupFields, Same
  <2>3. Kernel \subseteq GroupFields \ {"connector"}
    BY DEF Kernel, GroupFields
  <2> HIDE DEF t
  <2>4. Good(t)
    BY <2>2, <2>3, SameGood
  <2> QED
    BY <2>1, <2>4
<1> QED
  BY <1>1, <1>2

\* The group after a direct move has started.
Serving(s, id, d) ==
    [s EXCEPT !.direct = id, !.directStopping = FALSE, !.status = "moving",
              !.failure = "none",
              !.members = [a \in Member |-> Driven(@[a], id, d[a])]]

\* A direct move makes every member serve it.
LEMMA ServingTypes ==
  ASSUME NEW s, GroupTypes(s), NEW id \in 1 .. MaxId, NEW d \in Durations
  PROVE  LET t == Serving(s, id, d) IN
         /\ GroupTypes(t) /\ t.direct = id /\ t.status = "moving"
         /\ Same(s, t, {"queue", "active", "waitState", "nextId"})
         /\ \A a \in Member : /\ t.members[a].own /\ t.members[a].serves = id
                             /\ t.members[a].powered = s.members[a].powered
                             /\ ~t.members[a].early
                             /\ t.members[a].status = "discrete_motion"
<1> DEFINE m == [a \in Member |-> Driven(s.members[a], id, d[a])]
           b == [s EXCEPT !.direct = id, !.directStopping = FALSE, !.status = "moving",
                          !.failure = "none"]
           t == Serving(s, id, d)
<1>1. s.members \in [Member -> MemberRecord] /\ \A a \in Member : d[a] \in Ticks
  BY DEF GroupTypes, Durations
<1>2. id \in 0 .. MaxId
  BY Zero
<1>3. m \in [Member -> MemberRecord]
  BY <1>1, <1>2, MemberTypes
<1>4. \A a \in Member : /\ m[a].own /\ m[a].serves = id /\ m[a].powered = s.members[a].powered
                        /\ ~m[a].early /\ m[a].status = "discrete_motion"
  BY <1>1, DrivenFacts
<1>5. t = [b EXCEPT !.members = m]
  BY DEF Serving
<1>6. GroupTypes(b)
  BY <1>2 DEF GroupTypes, GroupFields, GroupStatus, Failures
<1>7. b.direct = id /\ b.status = "moving" /\ Same(s, b, {"queue", "active", "waitState", "nextId"})
  BY DEF GroupTypes, GroupFields, Same
<1> HIDE DEF m, b
<1>8. GroupTypes(t) /\ t.members = m /\ Same(b, t, GroupFields \ {"members"})
  BY <1>3, <1>5, <1>6, MembersReplaced
<1> HIDE DEF t
<1>9. \A a \in Member : /\ t.members[a].own /\ t.members[a].serves = id
                        /\ t.members[a].powered = s.members[a].powered
                        /\ ~t.members[a].early
                        /\ t.members[a].status = "discrete_motion"
  BY <1>4, <1>8
<1>10. t.direct = id /\ t.status = "moving" /\ Same(s, t, {"queue", "active", "waitState", "nextId"})
  BY <1>7, <1>8 DEF Same, GroupFields
<1> QED
  BY <1>8, <1>9, <1>10 DEF t

\* A direct move is safe if no path is left, no wait runs and all members have power.
LEMMA ServingGood ==
  ASSUME NEW s, Good(s), ~s.active, s.waitState # "active", \A a \in Member : s.members[a].powered,
         NEW id \in 1 .. MaxId, NEW d \in Durations
  PROVE  Good(Serving(s, id, d))
<1> DEFINE t == Serving(s, id, d)
<1>0. GroupTypes(s) /\ Len(s.queue) <= QueueCapacity
  BY DEF Good
<1>1. /\ GroupTypes(t) /\ t.direct = id /\ t.status = "moving"
      /\ Same(s, t, {"queue", "active", "waitState", "nextId"})
      /\ \A a \in Member : /\ t.members[a].own /\ t.members[a].serves = id
                          /\ t.members[a].powered = s.members[a].powered
                          /\ ~t.members[a].early
                          /\ t.members[a].status = "discrete_motion"
  BY <1>0, ServingTypes
<1>2. id # 0
  OBVIOUS
<1> HIDE DEF t
<1>3. MembersSafe(t)
  BY <1>1 DEF MembersSafe, MemberSafe
<1>4. t.active = s.active /\ t.queue = s.queue /\ t.waitState = s.waitState
  BY <1>1 DEF Same
<1>5. Safe(t)
  BY <1>1, <1>2, <1>3, <1>4 DEF Safe
<1> QED
  BY <1>0, <1>1, <1>4, <1>5 DEF Good, t

\* Members that are ready have power, and in standby none of them moves.
LEMMA ReadyMembers ==
  ASSUME NEW s, members_ready(s)
  PROVE  /\ \A a \in Member : s.members[a].powered
         /\ s.status = "standby" => AtRest(s)
  BY DEF members_ready, Faulty, AtRest

\* A direct move starts, is refused, or makes an error of the group.
LEMMA StartDirectGood ==
  ASSUME NEW s, Good(s), ~s.active, s.direct = 0, s.waitState # "active",
         NEW id \in 1 .. MaxId, NEW d \in Durations, NEW o \in Outcomes
  PROVE  Good(start_direct(s, id, d, o).s)
<1> DEFINE p == Serving(s, id, d)
           b == abort_direct_members(s)
           e == set_group_error(b, "start")
<1>0. GroupTypes(s)
  BY DEF Good
<1>1. start_direct(s, id, d, o) =
         CASE members_ready(s) /\ o = "started" -> Accepted(p)
           [] members_ready(s) /\ o = "failed" -> Rejected(e)
           [] OTHER -> Rejected(s)
  BY DEF start_direct, Serving
<1>2. members_ready(s) => Good(p)
  <2> SUFFICES ASSUME members_ready(s) PROVE Good(p)
    OBVIOUS
  <2>1. \A a \in Member : s.members[a].powered
    BY ReadyMembers
  <2> QED
    BY <2>1, ServingGood
<1>3. Good(b) /\ ~b.active /\ b.direct = 0
  BY AbortedGood
<1> HIDE DEF b, p
<1>4. "start" \in Failures
  BY DEF Failures
<1>5. Good(e)
  BY <1>3, <1>4, ErrorKeptGood
<1> HIDE DEF e
<1>6. CASE members_ready(s) /\ o = "started"
  BY <1>1, <1>2, <1>6, Answers
<1>7. CASE members_ready(s) /\ o = "failed"
  BY <1>1, <1>5, <1>7, Answers
<1>8. CASE ~(members_ready(s) /\ o = "started") /\ ~(members_ready(s) /\ o = "failed")
  BY <1>1, <1>8, Answers
<1> QED
  BY <1>6, <1>7, <1>8

\* What is in the queue may start when no motion is left and no wait runs.
LEMMA NextGood ==
  ASSUME NEW s, Good(s), NEW d \in Durations, NEW o \in Outcomes,
         s.queue = <<>> \/ (~s.active /\ s.direct = 0 /\ s.waitState # "active")
  PROVE  Good(start_next_queued(s, d, o))
<1>0. GroupTypes(s) /\ Safe(s) /\ Len(s.queue) <= QueueCapacity
  BY DEF Good
<1>1. CASE s.queue = <<>>
  BY <1>1 DEF start_next_queued
<1>2. CASE s.queue # <<>>
  <2> DEFINE next == Head(s.queue)
             t == [s EXCEPT !.queue = Tail(@)]
             direct == start_direct(t, next.id, d, o)
  <2>1. ~s.active /\ s.direct = 0 /\ s.waitState # "active"
    BY <1>2
  <2>2. s.queue \in Seq(Command)
    BY <1>0 DEF GroupTypes
  <2>3. /\ Tail(s.queue) \in Seq(Command) /\ Len(Tail(s.queue)) < Len(s.queue)
        /\ next \in Command
        /\ PathIn(Tail(s.queue)) => PathIn(s.queue)
        /\ next.kind = "motion" => PathIn(s.queue)
    BY <1>2, <2>2, TailType
  <2>4. GroupTypes(t)
    BY <1>0, <2>3 DEF GroupTypes, GroupFields
  <2>5. t.queue = Tail(s.queue) /\ Same(s, t, GroupFields \ {"queue"})
    BY <1>0 DEF GroupTypes, GroupFields, Same
  <2>6. Len(s.queue) \in Nat /\ Len(t.queue) \in Nat
    BY <2>2, <2>3, <2>5
  <2>7. Len(t.queue) <= QueueCapacity
    BY <1>0, <2>3, <2>5, <2>6, GroupAssumption
  <2>8. next.id \in 1 .. MaxId /\ next.kind \in {"motion", "direct", "halt"}
    BY <2>3 DEF Command
  <2>9. start_next_queued(s, d, o) =
           CASE next.kind = "motion" -> start(t, Longest(d), FALSE, FALSE, o).s
             [] next.kind = "halt" -> execute_halt(t, next.id)
             [] OTHER -> IF direct.ok THEN direct.s
                         ELSE [direct.s EXCEPT !.directAborted = next.id]
    BY <1>2 DEF start_next_queued
  <2> HIDE DEF t, next
  <2>10. /\ t.status = s.status /\ t.failure = s.failure /\ t.waitState = s.waitState
         /\ t.active = s.active /\ t.direct = s.direct /\ t.members = s.members
    BY <2>5 DEF Same, GroupFields
  <2>11. OnlyEarly(s) <=> OnlyEarly(t)
    BY <2>10 DEF OnlyEarly
  <2>12. MembersSafe(t)
    BY <1>0, <2>10 DEF Safe, MembersSafe
  <2>13. Good(t)
    <3>1. Safe(t)
      BY <1>0, <1>2, <2>1, <2>3, <2>5, <2>10, <2>11, <2>12 DEF Safe
    <3> QED
      BY <2>4, <2>7, <3>1 DEF Good
  <2>14. CASE next.kind = "motion"
    <3>1. OnlyEarly(t)
      BY <1>0, <2>1, <2>3, <2>11, <2>14 DEF Safe
    <3>2. Longest(d) \in Ticks /\ FALSE \in BOOLEAN
      BY LongestType
    <3>3. Good(start(t, Longest(d), FALSE, FALSE, o).s)
      BY <2>1, <2>10, <2>13, <3>1, <3>2, StartGood
    <3> QED
      BY <2>9, <2>14, <3>3
  <2>15. CASE next.kind = "halt"
    <3> DEFINE u == [t EXCEPT !.queue = <<>>, !.halt = next.id, !.haltLive = TRUE]
    <3>1. GroupTypes(u)
      BY <2>4, <2>8, Zero DEF GroupTypes, GroupFields
    <3>2. u.queue = <<>> /\ Same(t, u, GroupFields \ {"queue", "halt", "haltLive"})
      BY <2>4 DEF GroupTypes, GroupFields, Same
    <3>3. start_next_queued(s, d, o) = u
      BY <2>9, <2>15 DEF execute_halt
    <3> HIDE DEF u
    <3>4. /\ u.status = t.status /\ ~u.active /\ u.direct = 0 /\ u.waitState = t.waitState
          /\ u.members = t.members /\ u.failure = t.failure
      BY <2>1, <2>10, <3>2 DEF Same, GroupFields
    <3>5. MembersSafe(u) /\ (OnlyEarly(t) <=> OnlyEarly(u))
      BY <2>1, <2>10, <2>12, <3>4 DEF MembersSafe, OnlyEarly
    <3>6. Safe(t)
      BY <2>13 DEF Good
    <3>7. Safe(u)
      BY <2>1, <2>10, <3>2, <3>4, <3>5, <3>6 DEF Safe, PathIn
    <3>8. Len(u.queue) <= QueueCapacity
      BY <3>2, GroupAssumption
    <3> QED
      BY <3>1, <3>3, <3>7, <3>8 DEF Good
  <2>16. CASE next.kind = "direct"
    <3> DEFINE e == direct.s
               u == [e EXCEPT !.directAborted = next.id]
    <3>1. Good(e)
      BY <2>1, <2>8, <2>10, <2>13, StartDirectGood
    <3>2. start_next_queued(s, d, o) = IF direct.ok THEN e ELSE u
      BY <2>9, <2>16
    <3> HIDE DEF e
    <3>3. GroupTypes(e)
      BY <3>1 DEF Good
    <3>4. GroupTypes(u)
      BY <2>8, <3>3, Zero DEF GroupTypes, GroupFields
    <3>5. Same(e, u, GroupFields \ {"directAborted"})
      BY <3>3 DEF GroupTypes, GroupFields, Same
    <3>6. Kernel \subseteq GroupFields \ {"directAborted"}
      BY DEF Kernel, GroupFields
    <3> HIDE DEF u
    <3>7. Good(u)
      BY <3>1, <3>4, <3>5, <3>6, SameGood
    <3> QED
      BY <3>1, <3>2, <3>7
  <2> QED
    BY <2>8, <2>14, <2>15, <2>16
<1> QED
  BY <1>1, <1>2

\* The end of a path lets the next command start.
LEMMA FinishGood ==
  ASSUME NEW s, Good(s), s.active, s.waitState # "active", NEW d \in Durations, NEW o \in Outcomes
  PROVE  Good(finish_active(s, d, o))
<1> DEFINE t == [s EXCEPT !.active = FALSE, !.connector = FALSE]
           c == clear_axes_synchronized(t)
           u == Standby(c)
<1>0. GroupTypes(s) /\ Safe(s) /\ Len(s.queue) <= QueueCapacity
  BY DEF Good
<1>1. /\ s.status \in {"moving", "stopping"} /\ s.direct = 0 /\ OnlyEarly(s) /\ MembersSafe(s)
  BY <1>0 DEF Safe
<1>2. GroupTypes(t)
  BY <1>0 DEF GroupTypes, GroupFields
<1>3. ~t.active /\ Same(s, t, GroupFields \ {"active", "connector"})
  BY <1>0 DEF GroupTypes, GroupFields, Same
<1>4. finish_active(s, d, o) = IF s.paused THEN s ELSE IF s.interrupting THEN t
                               ELSE start_next_queued(u, d, o)
  BY <1>0 DEF finish_active, GroupTypes
<1> HIDE DEF t
<1>5. /\ t.status = s.status /\ t.direct = 0 /\ t.members = s.members /\ t.queue = s.queue
      /\ t.waitState = s.waitState /\ t.failure = s.failure
  BY <1>1, <1>3 DEF Same, GroupFields
<1>6. OnlyEarly(t) /\ MembersSafe(t)
  BY <1>1, <1>5 DEF OnlyEarly, MembersSafe
<1>7. Good(t)
  <2>1. Safe(t)
    BY <1>0, <1>1, <1>3, <1>5, <1>6 DEF Safe
  <2> QED
    BY <1>0, <1>2, <1>5, <2>1 DEF Good
<1>8. Good(c) /\ Same(t, c, GroupFields \ {"members"})
  BY <1>7, ClearGood
<1>9. OnlyEarly(c)
  <2>1. \A a \in Member : Kept(t.members[a], c.members[a])
    BY <1>2, ClearTypes
  <2> QED
    BY <1>6, <2>1 DEF OnlyEarly, Kept
<1> HIDE DEF c
<1>10. c.direct = 0 /\ ~c.active /\ c.waitState # "active"
  BY <1>3, <1>5, <1>8 DEF Same, GroupFields
<1>11. Good(u) /\ Same(c, u, GroupFields \ {"status", "failure"})
  BY <1>8, <1>9, <1>10, StandbyGood
<1> HIDE DEF u
<1>12. u.direct = 0 /\ ~u.active /\ u.waitState # "active"
  BY <1>10, <1>11 DEF Same, GroupFields
<1>13. Good(start_next_queued(u, d, o))
  BY <1>11, <1>12, NextGood
<1> QED
  BY <1>4, <1>7, <1>13

-----------------------------------------------------------------------------
(* The calls.                                                               *)

\* A new id, and the end of a wait or a halt, keep the invariant.
LEMMA EndsGood ==
  ASSUME NEW s, Good(s)
  PROVE  /\ Good(abort_wait(s)) /\ abort_wait(s).status = s.status
         /\ abort_wait(s).nextId = s.nextId
         /\ Good(abort_queued_management(s)) /\ abort_queued_management(s).status = s.status
         /\ abort_queued_management(s).nextId = s.nextId
         /\ s.nextId <= MaxId =>
               /\ Good(NewId(s)) /\ s.nextId \in 1 .. MaxId
               /\ Same(s, NewId(s), GroupFields \ {"nextId"})
<1>0. GroupTypes(s) /\ Safe(s) /\ Len(s.queue) <= QueueCapacity
  BY DEF Good
<1>1. s.nextId <= MaxId => Good(NewId(s)) /\ Same(s, NewId(s), GroupFields \ {"nextId"})
  <2>1. Kernel \subseteq GroupFields \ {"nextId"}
    BY DEF Kernel, GroupFields
  <2> QED
    BY <1>0, <2>1, StatusTypes, SameGood
<1>2. /\ Good(abort_queued_management(s)) /\ abort_queued_management(s).status = s.status
      /\ abort_queued_management(s).nextId = s.nextId
  <2>1. /\ GroupTypes(abort_queued_management(s))
        /\ Same(s, abort_queued_management(s), GroupFields \ {"haltLive"})
    BY <1>0, EndsTypes
  <2>2. Kernel \subseteq GroupFields \ {"haltLive"}
    BY DEF Kernel, GroupFields
  <2>3. Good(abort_queued_management(s))
    BY <2>1, <2>2, SameGood
  <2> QED
    BY <2>1, <2>3 DEF Same, GroupFields
<1> DEFINE t == abort_wait(s)
<1>3. /\ GroupTypes(t) /\ Same(s, t, GroupFields \ {"waitState", "waitLeft"})
      /\ t.waitState # "active"
  BY <1>0, EndsTypes
<1> HIDE DEF t
<1>4. /\ t.status = s.status /\ t.queue = s.queue /\ t.active = s.active
      /\ t.direct = s.direct /\ t.members = s.members /\ t.nextId = s.nextId
      /\ t.failure = s.failure
  BY <1>3 DEF Same, GroupFields
<1>5. Safe(t)
  BY <1>0, <1>3, <1>4 DEF Safe, MembersSafe, OnlyEarly
<1>6. Good(t)
  BY <1>0, <1>3, <1>4, <1>5 DEF Good
<1> QED
  BY <1>0, <1>1, <1>2, <1>4, <1>6, StatusTypes DEF t

\* A command may join the queue of a group that is enabled; a path that joins it
\* in standby finds the members at rest.
LEMMA PushedGood ==
  ASSUME NEW s, Good(s), NEW id \in 1 .. MaxId, NEW kind \in {"motion", "direct", "halt"},
         s.status \notin {"disabled", "errorstop"},
         s.status = "standby" /\ kind = "motion" => OnlyEarly(s)
  PROVE  LET r == Pushed(s, id, kind) IN Good(r.s) /\ r.s.nextId = s.nextId
<1> DEFINE e == [id |-> id, kind |-> kind]
           t == [s EXCEPT !.queue = Append(@, e)]
<1>0. GroupTypes(s) /\ Safe(s) /\ Len(s.queue) <= QueueCapacity
  BY DEF Good
<1>1. Pushed(s, id, kind) = IF Len(s.queue) = QueueCapacity THEN Rejected(s) ELSE Accepted(t)
  BY DEF Pushed
<1>2. e \in Command /\ s.queue \in Seq(Command) /\ e.kind = kind
  BY <1>0 DEF Command, GroupTypes
<1> HIDE DEF e
<1>3. /\ Append(s.queue, e) \in Seq(Command) /\ Len(Append(s.queue, e)) = Len(s.queue) + 1
      /\ Len(s.queue) \in Nat
  BY <1>2
<1>4. PathIn(Append(s.queue, e)) => PathIn(s.queue) \/ kind = "motion"
  BY <1>2 DEF PathIn
<1>5. GroupTypes(t)
  BY <1>0, <1>3 DEF GroupTypes, GroupFields
<1>6. t.queue = Append(s.queue, e) /\ Same(s, t, GroupFields \ {"queue"})
  BY <1>0 DEF GroupTypes, GroupFields, Same
<1> HIDE DEF t
<1>7. /\ t.status = s.status /\ t.active = s.active /\ t.waitState = s.waitState
      /\ t.direct = s.direct /\ t.members = s.members /\ t.nextId = s.nextId
      /\ t.failure = s.failure
  BY <1>6 DEF Same, GroupFields
<1>8. s.status \in {"standby", "moving", "stopping", "interrupted"}
  BY <1>0 DEF GroupTypes, GroupStatus
<1>9. MembersSafe(t) /\ (OnlyEarly(s) <=> OnlyEarly(t))
  BY <1>0, <1>7 DEF Safe, MembersSafe, OnlyEarly
<1>10. Safe(t)
  BY <1>0, <1>4, <1>6, <1>7, <1>8, <1>9 DEF Safe
<1>11. Len(s.queue) # QueueCapacity => Good(t)
  BY <1>0, <1>3, <1>5, <1>6, <1>10, GroupAssumption DEF Good
<1> QED
  BY <1>1, <1>7, <1>11 DEF Accepted, Rejected

\* A command that has taken over leaves nothing of what the group did.
LEMMA TakenOverGood ==
  ASSUME NEW s, GroupTypes(s), s.waitState # "active",
         \A a \in Member : MemberSafe(s.members[a], 0), OnlyEarly(s)
  PROVE  LET t == TakenOver(s) IN
         /\ Good(t) /\ ~t.active /\ t.direct = 0 /\ t.waitState # "active" /\ OnlyEarly(t)
<1> DEFINE b == abort_motion(s)
           f == IF s.status = "moving" THEN "takeover" ELSE b.failure
           t == TakenOver(s)
<1>1. /\ GroupTypes(b) /\ MembersSafe(b)
      /\ ~b.active /\ b.direct = 0 /\ b.queue = <<>>
      /\ b.status = s.status /\ b.nextId = s.nextId /\ b.waitState = s.waitState
      /\ OnlyEarly(b)
  BY AbortSafe
<1>2. t = [b EXCEPT !.failure = f]
  BY DEF TakenOver
<1> HIDE DEF b
<1>3. f \in Failures
  BY <1>1 DEF GroupTypes, Failures
<1> HIDE DEF f
<1>4. GroupTypes(t) /\ Same(b, t, GroupFields \ {"failure"})
  BY <1>1, <1>2, <1>3 DEF GroupTypes, GroupFields, Same
<1> HIDE DEF t
<1>5. /\ ~t.active /\ t.direct = 0 /\ t.queue = <<>> /\ t.waitState # "active"
      /\ t.members = b.members
  BY <1>1, <1>4 DEF Same, GroupFields
<1>6. MembersSafe(t) /\ OnlyEarly(t)
  BY <1>1, <1>5 DEF MembersSafe, OnlyEarly
<1>7. Good(t)
  BY <1>4, <1>5, <1>6, QuietGood
<1> QED
  BY <1>5, <1>6, <1>7 DEF t

\* MC_MoveDirect
LEMMA SubmitDirectGood ==
  ASSUME NEW s, Good(s), s.nextId <= MaxId, NEW mode \in Modes, NEW d \in Durations,
         NEW o \in Outcomes
  PROVE  Good(submit_direct(s, mode, d, o).s)
<1> DEFINE id == s.nextId
           t == NewId(s)
           w == abort_wait(t)
           h == abort_halt(w)
           b == abort_direct_members(h)
           c == TakenOver(b)
           after == s.active \/ s.direct # 0 \/ WaitPending(s)
           ready == s.status \in {"standby", "moving"}
           refused == ~members_ready(s) \/ o = "limited"
<1>0. GroupTypes(s) /\ Safe(s) /\ Len(s.queue) <= QueueCapacity
  BY DEF Good
<1>1. /\ GroupTypes(t) /\ id \in 1 .. MaxId /\ Same(s, t, GroupFields \ {"nextId"}) /\ Good(t)
  BY <1>0, StatusTypes, EndsGood
<1>2. submit_direct(s, mode, d, o) =
         CASE s.status \notin {"standby", "moving"} -> Rejected(s)
           [] s.status \in {"standby", "moving"} /\ refused -> Rejected(t)
           [] OTHER ->
                IF mode = "aborting" THEN start_direct(c, id, d, o)
                ELSE IF after THEN Pushed(t, id, "direct")
                ELSE start_direct(t, id, d, o)
  BY DEF submit_direct
<1> HIDE DEF t
<1>3. /\ t.status = s.status /\ t.active = s.active
      /\ t.direct = s.direct /\ t.waitState = s.waitState
  BY <1>1 DEF Same, GroupFields
<1>4. GroupTypes(w) /\ w.waitState # "active"
  BY <1>1, EndsTypes
<1> HIDE DEF w
<1>5. GroupTypes(h) /\ h.waitState = w.waitState
  BY <1>4, EndsTypes DEF Same, GroupFields
<1> HIDE DEF h
<1>6. GroupTypes(b) /\ b.waitState = h.waitState
  BY <1>5, AbortMembersTypes DEF Same, GroupFields
<1>7. OnlyEarly(b) /\ \A a \in Member : MemberSafe(b.members[a], 0)
  BY <1>5, AbortedMembers
<1> HIDE DEF b
<1>8. Good(c) /\ ~c.active /\ c.direct = 0 /\ c.waitState # "active"
  BY <1>4, <1>5, <1>6, <1>7, TakenOverGood
<1> HIDE DEF c, id
<1>9. Good(start_direct(c, id, d, o).s)
  BY <1>1, <1>8, StartDirectGood
<1>10. ready => Good(Pushed(t, id, "direct").s)
  BY <1>1, <1>3, PushedGood
<1>11. ~after => Good(start_direct(t, id, d, o).s)
  <2> SUFFICES ASSUME ~after PROVE Good(start_direct(t, id, d, o).s)
    OBVIOUS
  <2>1. ~t.active /\ t.direct = 0 /\ t.waitState # "active"
    BY <1>3 DEF WaitPending
  <2> QED
    BY <1>1, <2>1, StartDirectGood
<1>12. CASE ~ready
  BY <1>2, <1>12, Answers
<1>13. CASE ready /\ refused
  BY <1>1, <1>2, <1>13, Answers
<1>14. CASE ready /\ ~refused /\ mode = "aborting"
  BY <1>2, <1>9, <1>14
<1>15. CASE ready /\ ~refused /\ mode # "aborting" /\ after
  BY <1>2, <1>10, <1>15
<1>16. CASE ready /\ ~refused /\ mode # "aborting" /\ ~after
  BY <1>2, <1>11, <1>16
<1> QED
  BY <1>12, <1>13, <1>14, <1>15, <1>16

\* A path may start when the members are at rest, moved early, or are brought to
\* rest first.
LEMMA SubmitLinearGood ==
  ASSUME NEW s, Good(s), s.nextId <= MaxId, NEW mode \in Modes, NEW n \in Ticks,
         NEW captured \in BOOLEAN, NEW onward \in BOOLEAN, NEW o \in Outcomes
  PROVE  Good(submit_linear(s, mode, n, captured, onward, o).s)
<1> DEFINE takeover == s.haltLive /\ s.status = "stopping" /\ mode = "aborting"
           s1 == IF s.status = "interrupted"
                 THEN [s EXCEPT !.interruptedPlain = FALSE, !.interrupting = FALSE] ELSE s
           t == NewId(s1)
           s2 == IF takeover /\ s.direct # 0 THEN abort_direct_members(t) ELSE t
           h == abort_halt(s2)
           w == abort_wait(h)
           c == TakenOver(w)
           connector == captured /\ s.active
           moves == captured /\ onward /\ s.active /\ s.moves
           after == s.active \/ WaitPending(s)
           refused1 == \/ mode = "buffered" /\ (QueuedIds(s, "halt") # {} \/ s.status = "interrupted")
                       \/ s.direct # 0 /\ ~takeover
           refused2 == \/ s.status \notin {"standby", "moving", "interrupted"} /\ ~takeover
                       \/ ~members_ready(s)
<1>0. GroupTypes(s) /\ Safe(s) /\ Len(s.queue) <= QueueCapacity
  BY DEF Good
<1>1. GroupTypes(s1) /\ Same(s, s1, GroupFields \ {"interruptedPlain", "interrupting"})
  <2> DEFINE x == [s EXCEPT !.interruptedPlain = FALSE, !.interrupting = FALSE]
  <2>1. GroupTypes(x)
    BY <1>0 DEF GroupTypes, GroupFields
  <2>2. Same(s, x, GroupFields \ {"interruptedPlain", "interrupting"})
    BY <1>0 DEF GroupTypes, GroupFields, Same
  <2>3. Same(s, s, GroupFields \ {"interruptedPlain", "interrupting"})
    BY DEF Same
  <2> QED
    BY <1>0, <2>1, <2>2, <2>3
<1>2. submit_linear(s, mode, n, captured, onward, o) =
         IF refused1 THEN Rejected(s)
         ELSE IF refused2 THEN Rejected(s1)
         ELSE IF o = "limited" THEN Rejected(t)
         ELSE IF mode = "aborting" THEN start(c, n, connector, moves, o)
         ELSE IF after THEN Pushed(t, s.nextId, "motion")
         ELSE start(t, n, FALSE, FALSE, o)
  BY DEF submit_linear
<1> HIDE DEF s1
<1>3. Good(s1) /\ s1.nextId = s.nextId
  <2>1. Kernel \subseteq GroupFields \ {"interruptedPlain", "interrupting"}
    BY DEF Kernel, GroupFields
  <2>2. Good(s1)
    BY <1>1, <2>1, SameGood
  <2> QED
    BY <1>1, <2>2 DEF Same, GroupFields
<1>4. /\ GroupTypes(t) /\ s.nextId \in 1 .. MaxId /\ Same(s1, t, GroupFields \ {"nextId"})
      /\ Good(t)
  BY <1>1, <1>3, StatusTypes, EndsGood
<1> HIDE DEF t
<1>5. /\ t.status = s.status /\ t.active = s.active
      /\ t.direct = s.direct /\ t.waitState = s.waitState /\ t.members = s.members
  BY <1>1, <1>4 DEF Same, GroupFields
<1>6. connector \in BOOLEAN /\ moves \in BOOLEAN
  BY <1>0 DEF GroupTypes
<1>7. members_ready(s) /\ s.direct = 0 /\ s.status \in {"standby", "moving", "stopping", "interrupted"}
         => OnlyEarly(s)
  BY <1>0, ReadyMembers DEF Safe, AtRest, OnlyEarly
<1>8. OnlyEarly(s) <=> OnlyEarly(t)
  BY <1>5 DEF OnlyEarly
<1>9. ~refused1 /\ ~refused2 => Good(start(c, n, connector, moves, o).s)
  <2> SUFFICES ASSUME ~refused1, ~refused2 PROVE Good(start(c, n, connector, moves, o).s)
    OBVIOUS
  <2>1. GroupTypes(s2) /\ OnlyEarly(s2) /\ \A a \in Member : MemberSafe(s2.members[a], 0)
    <3>1. CASE takeover /\ s.direct # 0
      BY <1>4, <3>1, AbortMembersTypes, AbortedMembers
    <3>2. CASE ~(takeover /\ s.direct # 0)
      <4>1. s.direct = 0
        BY <3>2
      <4>2. OnlyEarly(t)
        BY <1>7, <1>8, <4>1
      <4>3. s2 = t
        BY <3>2
      <4>4. MembersSafe(t) /\ t.direct = 0
        BY <1>4, <1>5, <4>1 DEF Good, Safe
      <4> QED
        BY <1>4, <4>2, <4>3, <4>4, NoneServed
    <3> QED
      BY <3>1, <3>2
  <2> HIDE DEF s2
  <2>2. GroupTypes(h) /\ h.members = s2.members
    BY <2>1, EndsTypes DEF Same, GroupFields
  <2> HIDE DEF h
  <2>3. GroupTypes(w) /\ w.members = h.members /\ w.waitState # "active"
    BY <2>2, EndsTypes DEF Same, GroupFields
  <2> HIDE DEF w
  <2>4. OnlyEarly(w) /\ \A a \in Member : MemberSafe(w.members[a], 0)
    BY <2>1, <2>2, <2>3 DEF OnlyEarly
  <2>5. Good(c) /\ c.direct = 0 /\ c.waitState # "active" /\ OnlyEarly(c)
    BY <2>3, <2>4, TakenOverGood
  <2> HIDE DEF c, connector, moves
  <2> QED
    BY <1>6, <2>5, StartGood
<1>10. mode = "buffered" => ~takeover
  OBVIOUS
<1>11. mode = "aborting" \/ mode = "buffered"
  BY DEF Modes
<1>12. ~refused1 /\ ~refused2 /\ mode = "buffered" =>
         /\ members_ready(s) /\ s.direct = 0 /\ s.status \in {"standby", "moving"}
         /\ OnlyEarly(t)
  BY <1>7, <1>8, <1>10
<1>13. ~refused1 /\ ~refused2 /\ mode = "buffered" => Good(Pushed(t, s.nextId, "motion").s)
  BY <1>4, <1>5, <1>12, PushedGood
<1>14. ~refused1 /\ ~refused2 /\ mode = "buffered" /\ ~after
         => Good(start(t, n, FALSE, FALSE, o).s)
  <2> SUFFICES ASSUME ~refused1, ~refused2, mode = "buffered", ~after
               PROVE  Good(start(t, n, FALSE, FALSE, o).s)
    OBVIOUS
  <2>1. t.waitState # "active" /\ t.direct = 0 /\ OnlyEarly(t)
    BY <1>5, <1>12 DEF WaitPending
  <2>2. FALSE \in BOOLEAN
    OBVIOUS
  <2> QED
    BY <1>4, <2>1, <2>2, StartGood
<1> HIDE DEF refused1, refused2, takeover, h, w, s2, c, connector, moves, after
<1>15. CASE refused1
  BY <1>2, <1>15, Answers
<1>16. CASE ~refused1 /\ refused2
  BY <1>2, <1>3, <1>16, Answers
<1>17. CASE ~refused1 /\ ~refused2 /\ o = "limited"
  BY <1>2, <1>4, <1>17, Answers
<1>18. CASE ~refused1 /\ ~refused2 /\ o # "limited" /\ mode = "aborting"
  BY <1>2, <1>9, <1>18
<1>19. CASE ~refused1 /\ ~refused2 /\ o # "limited" /\ mode # "aborting" /\ after
  BY <1>2, <1>11, <1>13, <1>19
<1>20. CASE ~refused1 /\ ~refused2 /\ o # "limited" /\ mode # "aborting" /\ ~after
  BY <1>2, <1>11, <1>14, <1>20
<1> QED
  BY <1>15, <1>16, <1>17, <1>18, <1>19, <1>20

\* Stopping a direct move: it is braked by its members, or dropped, with an error
\* or without.
LEMMA StopDirectGood ==
  ASSUME NEW s, Good(s), s.direct # 0, NEW d \in Durations, NEW ok \in BOOLEAN
  PROVE  LET r == stop_direct_members(s, d, ok) IN
         /\ Good(r.s) /\ r.s.nextId = s.nextId
         /\ r.ok => r.s.status = "stopping" /\ r.s.waitState = s.waitState
<1> DEFINE b == abort_direct_members(s)
           c == abort_motion(b)
           e == set_group_error(c, "member")
           u == Standby(c)
           m == [a \in Member |-> Driven(s.members[a], 0, d[a])]
           p == [s EXCEPT !.directStopping = TRUE, !.status = "stopping"]
           q == [p EXCEPT !.members = m]
<1>0. GroupTypes(s) /\ Safe(s) /\ Len(s.queue) <= QueueCapacity
  BY DEF Good
<1>1. stop_direct_members(s, d, ok) =
         CASE AnyFaulty(s) -> Rejected(e)
           [] ~AnyFaulty(s) /\ ~ok -> Rejected(u)
           [] OTHER -> Accepted(q)
  BY DEF stop_direct_members
<1>2. GroupTypes(b) /\ b.nextId = s.nextId /\ \A a \in Member : MemberSafe(b.members[a], 0)
  <2>1. GroupTypes(b) /\ Same(s, b, GroupFields \ {"members"})
    BY <1>0, AbortMembersTypes
  <2>2. \A a \in Member : MemberSafe(b.members[a], 0)
    BY <1>0, AbortedMembers
  <2> QED
    BY <2>1, <2>2 DEF Same, GroupFields
<1> HIDE DEF b
<1>3. /\ GroupTypes(c) /\ MembersSafe(c) /\ ~c.active /\ c.direct = 0 /\ c.queue = <<>>
      /\ c.nextId = s.nextId
  BY <1>2, AbortSafe
<1>4. Good(e) /\ e.nextId = s.nextId
  <2>1. e.nextId = c.nextId
    BY <1>3, StatusTypes DEF Same, GroupFields, Failures
  <2>2. Good(e)
    BY <1>2, ErrorGood
  <2> QED
    BY <1>3, <2>1, <2>2
<1> HIDE DEF c
<1>5. Good(u) /\ u.nextId = s.nextId
  <2>1. GroupTypes(u) /\ u.status = "standby" /\ Same(c, u, GroupFields \ {"status", "failure"})
    BY <1>3, StatusTypes
  <2> HIDE DEF u
  <2>2. /\ ~u.active /\ u.direct = 0 /\ u.queue = <<>> /\ u.members = c.members
        /\ u.nextId = c.nextId
    BY <1>3, <2>1 DEF Same, GroupFields
  <2>3. MembersSafe(u)
    BY <1>3, <2>2 DEF MembersSafe
  <2> QED
    BY <1>3, <2>1, <2>2, <2>3, QuietGood
<1>6. GroupTypes(p) /\ p.status = "stopping" /\ Same(s, p, GroupFields \ {"directStopping", "status"})
  BY <1>0 DEF GroupTypes, GroupFields, GroupStatus, Same
<1>7. s.members \in [Member -> MemberRecord] /\ \A a \in Member : d[a] \in Ticks
  BY <1>0 DEF GroupTypes, Durations
<1>8. m \in [Member -> MemberRecord]
  BY <1>7, MemberTypes, Zero
<1>9. \A a \in Member : /\ m[a].own /\ m[a].serves = 0 /\ m[a].powered = s.members[a].powered
                        /\ ~m[a].early /\ m[a].status = "discrete_motion"
  BY <1>7, DrivenFacts
<1> HIDE DEF m, p
<1>10. GroupTypes(q) /\ q.members = m /\ Same(p, q, GroupFields \ {"members"})
  BY <1>6, <1>8, MembersReplaced
<1> HIDE DEF q
<1>11. /\ q.status = "stopping" /\ q.active = s.active /\ q.direct = s.direct
       /\ q.queue = s.queue /\ q.waitState = s.waitState /\ q.nextId = s.nextId
  BY <1>6, <1>10 DEF Same, GroupFields
<1>12. ~AnyFaulty(s) => Good(q)
  <2> SUFFICES ASSUME ~AnyFaulty(s) PROVE Good(q)
    OBVIOUS
  <2>1. \A a \in Member : s.members[a].powered
    BY DEF AnyFaulty, Faulty
  <2>2. MembersSafe(q)
    BY <1>9, <1>10, <2>1 DEF MembersSafe, MemberSafe
  <2>3. Safe(q)
    BY <1>0, <1>11, <2>2 DEF Safe
  <2> QED
    BY <1>0, <1>10, <1>11, <2>3 DEF Good
<1> HIDE DEF e, u
<1>13. CASE AnyFaulty(s)
  BY <1>1, <1>4, <1>13, Answers
<1>14. CASE ~AnyFaulty(s) /\ ~ok
  BY <1>1, <1>5, <1>14, Answers
<1>15. CASE ~AnyFaulty(s) /\ ok
  BY <1>1, <1>11, <1>12, <1>15, Answers
<1> QED
  BY <1>13, <1>14, <1>15

\* MC_GroupStop leaves a group that stands, brakes, is interrupted or, when a
\* member cannot be halted, stands or is in ErrorStop.
LEMMA StopGood ==
  ASSUME NEW s, Good(s), NEW d \in Durations, NEW ok \in BOOLEAN
  PROVE  LET r == stop(s, d, ok) IN
         /\ Good(r.s) /\ r.s.nextId = s.nextId
         /\ r.ok => /\ r.s.status \in {"standby", "stopping", "interrupted"}
                    /\ r.s.status = "interrupted" => s.status = "interrupted"
<1> DEFINE stops == s.active /\ s.moves /\ ok
           n == Longest(d)
           p == [s EXCEPT !.queue = <<>>, !.left = n, !.connector = FALSE, !.status = "stopping"]
           z == [s EXCEPT !.queue = <<>>]
           c == abort_motion(z)
           u == Standby(c)
<1>0. GroupTypes(s) /\ Safe(s) /\ Len(s.queue) <= QueueCapacity
  BY DEF Good
<1>1. stop(s, d, ok) =
         CASE s.status \in {"disabled", "errorstop"} -> Rejected(s)
           [] s.status \in {"standby", "stopping", "interrupted"} -> Accepted(s)
           [] OTHER -> IF s.direct # 0 THEN stop_direct_members(s, d, ok)
                       ELSE IF stops THEN Accepted(p) ELSE Accepted(u)
  BY DEF stop
<1>2. n \in 0 .. MaxTicks
  BY LongestType, Zero
<1> HIDE DEF n
<1>3. GroupTypes(p) /\ GroupTypes(z)
  BY <1>0, <1>2, Zero DEF GroupTypes, GroupFields, GroupStatus
<1>4. /\ p.status = "stopping" /\ p.queue = <<>>
      /\ Same(s, p, {"active", "direct", "waitState", "members", "nextId"})
      /\ z.queue = <<>> /\ Same(s, z, GroupFields \ {"queue"})
  BY <1>0 DEF GroupTypes, GroupFields, Same
<1> HIDE DEF p, z
<1>5. s.status \in {"moving", "stopping"} => Good(p)
  <2> SUFFICES ASSUME s.status \in {"moving", "stopping"} PROVE Good(p)
    OBVIOUS
  <2>1. /\ p.active = s.active /\ p.direct = s.direct /\ p.waitState = s.waitState
        /\ p.members = s.members
    BY <1>4 DEF Same
  <2>2. Safe(p)
    BY <1>0, <1>4, <2>1 DEF Safe, MembersSafe, OnlyEarly, PathIn
  <2> QED
    BY <1>3, <1>4, <2>2, GroupAssumption DEF Good
<1>6. s.status = "moving" /\ s.direct = 0 => Good(u) /\ u.status = "standby" /\ u.nextId = s.nextId
  <2> SUFFICES ASSUME s.status = "moving", s.direct = 0
               PROVE  Good(u) /\ u.status = "standby" /\ u.nextId = s.nextId
    OBVIOUS
  <2>1. z.members = s.members /\ z.nextId = s.nextId /\ z.direct = 0
    BY <1>4 DEF Same, GroupFields
  <2>2. MembersSafe(z)
    BY <1>0, <2>1 DEF Safe, MembersSafe
  <2>3. \A a \in Member : MemberSafe(z.members[a], 0)
    BY <2>1, <2>2, NoneServed
  <2>4. /\ GroupTypes(c) /\ MembersSafe(c) /\ ~c.active /\ c.direct = 0 /\ c.queue = <<>>
        /\ c.nextId = z.nextId
    BY <1>3, <2>3, AbortSafe
  <2> HIDE DEF c
  <2>5. GroupTypes(u) /\ u.status = "standby" /\ Same(c, u, GroupFields \ {"status", "failure"})
    BY <2>4, StatusTypes
  <2> HIDE DEF u
  <2>6. /\ ~u.active /\ u.direct = 0 /\ u.queue = <<>> /\ u.members = c.members
        /\ u.nextId = c.nextId
    BY <2>4, <2>5 DEF Same, GroupFields
  <2>7. MembersSafe(u)
    BY <2>4, <2>6 DEF MembersSafe
  <2> QED
    BY <2>1, <2>4, <2>5, <2>6, <2>7, QuietGood
<1>7. p.nextId = s.nextId
  BY <1>4 DEF Same
<1>8. s.status \in GroupStatus
  BY <1>0 DEF GroupTypes
<1> HIDE DEF u, stops
<1>9. CASE s.status \in {"disabled", "errorstop"}
  BY <1>1, <1>9, Answers
<1>10. CASE s.status \in {"standby", "stopping", "interrupted"}
  BY <1>1, <1>10, Answers
<1>11. CASE s.status = "moving" /\ s.direct # 0
  BY <1>1, <1>11, StopDirectGood
<1>12. CASE s.status = "moving" /\ s.direct = 0
  BY <1>1, <1>4, <1>5, <1>6, <1>7, <1>12, Answers
<1> QED
  BY <1>8, <1>9, <1>10, <1>11, <1>12 DEF GroupStatus

\* MC_GroupHalt
LEMMA HaltGood ==
  ASSUME NEW s, Good(s), s.nextId <= MaxId, NEW mode \in Modes, NEW d \in Durations,
         NEW ok \in BOOLEAN
  PROVE  Good(halt(s, mode, d, ok).s)
<1> DEFINE id == s.nextId
           queued == Pushed(NewId(s), id, "halt")
           e == abort_queued_management(abort_wait(s))
           stopped == stop(e, d, ok)
           Live(t) == [t EXCEPT !.halt = id, !.haltLive = TRUE]
<1>1. /\ Good(NewId(s)) /\ id \in 1 .. MaxId /\ Same(s, NewId(s), GroupFields \ {"nextId"})
      /\ Good(e) /\ e.nextId = id
  BY EndsGood
<1>2. halt(s, mode, d, ok) =
         CASE s.status \in {"disabled", "errorstop"} -> Rejected(s)
           [] s.status \notin {"disabled", "errorstop"} /\ mode = "buffered" ->
                IF queued.ok THEN Accepted(Live(queued.s)) ELSE queued
           [] OTHER -> IF stopped.ok THEN Accepted(Live(NewId(stopped.s))) ELSE stopped
  BY DEF halt
<1> HIDE DEF id
<1>3. ASSUME NEW t, Good(t) PROVE Good(Live(t))
  <2>1. GroupTypes(t)
    BY <1>3 DEF Good
  <2>2. GroupTypes(Live(t))
    BY <1>1, <2>1, Zero DEF GroupTypes, GroupFields
  <2>3. Same(t, Live(t), GroupFields \ {"halt", "haltLive"})
    BY <2>1 DEF GroupTypes, GroupFields, Same
  <2>4. Kernel \subseteq GroupFields \ {"halt", "haltLive"}
    BY DEF Kernel, GroupFields
  <2> HIDE DEF Live
  <2> QED
    BY <1>3, <2>2, <2>3, <2>4, SameGood
<1> HIDE DEF Live
<1>4. s.status \notin {"disabled", "errorstop"} => Good(queued.s)
  <2>1. NewId(s).status = s.status
    BY <1>1 DEF Same, GroupFields
  <2> QED
    BY <1>1, <2>1, PushedGood
<1>5. Good(stopped.s) /\ stopped.s.nextId = id
  <2> HIDE DEF e
  <2> QED
    BY <1>1, StopGood
<1> HIDE DEF queued, stopped
<1>6. Good(NewId(stopped.s))
  <2>1. stopped.s.nextId <= MaxId
    BY <1>1, <1>5, GroupAssumption
  <2> QED
    BY <1>5, <2>1, EndsGood
<1> DEFINE r == halt(s, mode, d, ok)
<1>7. CASE s.status \in {"disabled", "errorstop"}
  BY <1>2, <1>7, Answers
<1>8. CASE s.status \notin {"disabled", "errorstop"} /\ mode = "buffered"
  BY <1>2, <1>3, <1>4, <1>8, Answers
<1>9. CASE s.status \notin {"disabled", "errorstop"} /\ mode # "buffered"
  BY <1>2, <1>3, <1>5, <1>6, <1>9, Answers
<1> QED
  BY <1>7, <1>8, <1>9

\* MC_GroupWaitTime, in a group that is not interrupted.
LEMMA SubmitWaitGood ==
  ASSUME NEW s, Good(s), s.nextId <= MaxId, s.status # "interrupted", NEW mode \in Modes,
         NEW w \in Ticks, NEW d \in Durations, NEW ok \in BOOLEAN
  PROVE  Good(submit_wait(s, mode, w, d, ok).s)
<1> DEFINE i == NewId(s)
           t == [i EXCEPT !.waitLeft = w]
           stopped == stop(t, d, ok)
           Waiting(x, st) == [x EXCEPT !.waitState = st]
           bst == IF s.status = "standby" THEN "active" ELSE "queued"
           ast == IF stopped.s.status = "stopping" THEN "stopping" ELSE "active"
           refused == \/ s.status \in {"disabled", "errorstop"} \/ WaitPending(s)
                      \/ mode = "buffered" /\ s.queue # <<>>
<1>1. Good(i) /\ i.status = s.status
  BY EndsGood DEF Same, GroupFields
<1>2. submit_wait(s, mode, w, d, ok) =
         IF refused THEN Rejected(s)
         ELSE IF mode = "buffered" THEN Accepted(Waiting(t, bst))
         ELSE IF ~stopped.ok THEN stopped
         ELSE Accepted(Waiting(stopped.s, ast))
  BY DEF submit_wait
<1> HIDE DEF i
<1>3. GroupTypes(i)
  BY <1>1 DEF Good
<1>4. GroupTypes(t) /\ Same(i, t, GroupFields \ {"waitLeft"})
  <2>1. w \in 0 .. MaxTicks
    BY Zero
  <2> QED
    BY <1>3, <2>1 DEF GroupTypes, GroupFields, Same
<1> HIDE DEF t
<1>5. Good(t) /\ t.status = s.status
  <2>1. Kernel \subseteq GroupFields \ {"waitLeft"}
    BY DEF Kernel, GroupFields
  <2>2. Good(t)
    BY <1>1, <1>4, <2>1, SameGood
  <2> QED
    BY <1>1, <1>4, <2>2 DEF Same, GroupFields
<1>6. ASSUME NEW x, Good(x), NEW st \in {"active", "queued", "stopping"},
             st = "active" => x.status = "standby"
      PROVE  Good(Waiting(x, st))
  <2> DEFINE y == Waiting(x, st)
  <2>1. GroupTypes(x) /\ Safe(x) /\ Len(x.queue) <= QueueCapacity
    BY <1>6 DEF Good
  <2>2. GroupTypes(y)
    BY <2>1 DEF GroupTypes, GroupFields, WaitState
  <2>3. Same(x, y, GroupFields \ {"waitState"}) /\ y.waitState = st
    BY <2>1 DEF GroupTypes, GroupFields, Same
  <2> HIDE DEF y
  <2>4. /\ y.status = x.status /\ y.queue = x.queue /\ y.active = x.active
        /\ y.direct = x.direct /\ y.members = x.members /\ y.failure = x.failure
    BY <2>3 DEF Same, GroupFields
  <2>5. Safe(y)
    BY <1>6, <2>1, <2>3, <2>4 DEF Safe, MembersSafe, OnlyEarly
  <2>6. Good(y)
    BY <2>1, <2>2, <2>4, <2>5 DEF Good
  <2> QED
    BY <2>6 DEF y
<1> HIDE DEF Waiting
<1>7. Good(Waiting(t, bst))
  BY <1>5, <1>6
<1>8. /\ Good(stopped.s)
      /\ stopped.ok => stopped.s.status \in {"standby", "stopping"}
  BY <1>5, StopGood
<1> HIDE DEF stopped
<1>9. stopped.ok => Good(Waiting(stopped.s, ast))
  BY <1>6, <1>8
<1> HIDE DEF refused, bst, ast
<1>10. CASE refused
  BY <1>2, <1>10, Answers
<1>11. CASE ~refused /\ mode = "buffered"
  BY <1>2, <1>7, <1>11, Answers
<1>12. CASE ~refused /\ mode # "buffered"
  BY <1>2, <1>8, <1>9, <1>12, Answers
<1> QED
  BY <1>10, <1>11, <1>12

\* MC_GroupInterrupt
LEMMA InterruptGood ==
  ASSUME NEW s, Good(s), NEW n \in Ticks, NEW ok \in BOOLEAN
  PROVE  Good(interrupt(s, n, ok).s)
<1> DEFINE p == [s EXCEPT !.left = n, !.interrupting = TRUE, !.interruptedPlain = TRUE,
                          !.status = "stopping"]
           q == [s EXCEPT !.interruptedPlain = s.active, !.active = FALSE,
                          !.left = 0, !.moves = FALSE, !.status = "interrupted"]
           refused == s.status # "moving" \/ s.direct # 0 \/ s.connector
<1>0. GroupTypes(s) /\ Safe(s) /\ Len(s.queue) <= QueueCapacity
  BY DEF Good
<1>1. interrupt(s, n, ok) = IF refused THEN Rejected(s)
                            ELSE IF s.active /\ s.moves /\ ok THEN Accepted(p) ELSE Accepted(q)
  BY DEF interrupt
<1>2. n \in 0 .. MaxTicks /\ 0 \in 0 .. MaxTicks
  BY Zero
<1>3. GroupTypes(p) /\ GroupTypes(q)
  BY <1>0, <1>2 DEF GroupTypes, GroupFields, GroupStatus
<1>4. /\ p.status = "stopping" /\ q.status = "interrupted" /\ ~q.active
      /\ Same(s, p, {"queue", "active", "direct", "waitState", "members"})
      /\ Same(s, q, {"queue", "direct", "waitState", "members"})
  BY <1>0 DEF GroupTypes, GroupFields, Same
<1> HIDE DEF p, q
<1>5. ~refused => Good(p) /\ Good(q)
  <2> SUFFICES ASSUME ~refused PROVE Good(p) /\ Good(q)
    OBVIOUS
  <2>1. s.status = "moving" /\ s.direct = 0 /\ OnlyEarly(s) /\ s.waitState # "active"
    BY <1>0 DEF Safe
  <2>2. /\ p.queue = s.queue /\ p.active = s.active /\ p.direct = 0 /\ p.members = s.members
        /\ p.waitState = s.waitState
        /\ q.queue = s.queue /\ q.direct = 0 /\ q.members = s.members
        /\ q.waitState = s.waitState
    BY <1>4, <2>1 DEF Same
  <2>3. MembersSafe(p) /\ MembersSafe(q) /\ OnlyEarly(p) /\ OnlyEarly(q)
    BY <1>0, <2>1, <2>2 DEF Safe, MembersSafe, OnlyEarly
  <2>4. Safe(p)
    BY <1>4, <2>1, <2>2, <2>3 DEF Safe
  <2>5. Safe(q)
    BY <1>4, <2>1, <2>2, <2>3 DEF Safe
  <2> QED
    BY <1>0, <1>3, <2>2, <2>4, <2>5 DEF Good
<1> HIDE DEF refused
<1>6. CASE refused
  BY <1>1, <1>6, Answers
<1>7. CASE ~refused /\ s.active /\ s.moves /\ ok
  BY <1>1, <1>5, <1>7, Answers
<1>8. CASE ~refused /\ ~(s.active /\ s.moves /\ ok)
  BY <1>1, <1>5, <1>8, Answers
<1> QED
  BY <1>6, <1>7, <1>8

\* MC_GroupContinue
LEMMA ContinueGood ==
  ASSUME NEW s, Good(s), NEW rest \in BOOLEAN, NEW d \in Durations,
         NEW o \in Outcomes
  PROVE  Good(continue_motion(s, rest, d, o).s)
<1> DEFINE t == [s EXCEPT !.interruptedPlain = FALSE]
           resumes == s.interruptedPlain /\ rest /\ ~s.beyond
           n == Longest(d)
           p == [t EXCEPT !.active = TRUE, !.left = n, !.moves = FALSE,
                          !.interrupting = FALSE, !.status = "moving"]
           b == Standby(t)
           c == clear_axes_synchronized(b)
           refused == s.status # "interrupted" \/ (resumes /\ ~s.override)
<1>0. GroupTypes(s) /\ Safe(s) /\ Len(s.queue) <= QueueCapacity
  BY DEF Good
<1>1. continue_motion(s, rest, d, o) =
         IF refused THEN Rejected(s)
         ELSE IF resumes THEN Accepted(p) ELSE Accepted(start_next_queued(c, d, o))
  BY DEF continue_motion
<1>2. n \in 0 .. MaxTicks
  BY LongestType, Zero
<1> HIDE DEF n
<1>3. GroupTypes(t) /\ Same(s, t, GroupFields \ {"interruptedPlain"})
  BY <1>0 DEF GroupTypes, GroupFields, Same
<1>4. Good(t)
  <2>1. Kernel \subseteq GroupFields \ {"interruptedPlain"}
    BY DEF Kernel, GroupFields
  <2> HIDE DEF t
  <2> QED
    BY <1>3, <2>1, SameGood
<1> HIDE DEF t
<1>5. GroupTypes(p) /\ p.active /\ p.status = "moving"
      /\ Same(t, p, {"queue", "direct", "waitState", "members"})
  BY <1>2, <1>3 DEF GroupTypes, GroupFields, GroupStatus, Same
<1> HIDE DEF p
<1>6. s.status = "interrupted" =>
         /\ t.status = "interrupted" /\ t.direct = 0 /\ ~t.active /\ OnlyEarly(t)
         /\ t.waitState # "active" /\ MembersSafe(t) /\ Len(t.queue) <= QueueCapacity
  <2>1. t.status = s.status
    BY <1>3 DEF Same, GroupFields
  <2> QED
    BY <1>4, <2>1 DEF Good, Safe
<1>7. s.status = "interrupted" => Good(p)
  <2> SUFFICES ASSUME s.status = "interrupted" PROVE Good(p)
    OBVIOUS
  <2>1. /\ p.queue = t.queue /\ p.direct = 0 /\ p.members = t.members
        /\ p.waitState # "active"
    BY <1>5, <1>6 DEF Same
  <2>2. MembersSafe(p) /\ OnlyEarly(p)
    BY <1>6, <2>1 DEF MembersSafe, OnlyEarly
  <2>3. Safe(p)
    BY <1>5, <2>1, <2>2 DEF Safe
  <2> QED
    BY <1>5, <1>6, <2>1, <2>3 DEF Good
<1>8. s.status = "interrupted" => Good(start_next_queued(c, d, o))
  <2> SUFFICES ASSUME s.status = "interrupted" PROVE Good(start_next_queued(c, d, o))
    OBVIOUS
  <2>1. /\ Good(b) /\ b.status = "standby" /\ Same(t, b, GroupFields \ {"status", "failure"})
    BY <1>4, <1>6, StandbyGood
  <2> HIDE DEF b
  <2>2. Good(c) /\ Same(b, c, GroupFields \ {"members"})
    BY <2>1, ClearGood
  <2> HIDE DEF c
  <2>3. ~c.active /\ c.direct = 0 /\ c.waitState # "active"
    BY <1>6, <2>1, <2>2 DEF Same, GroupFields
  <2> QED
    BY <2>2, <2>3, NextGood
<1> HIDE DEF resumes, c
<1>9. CASE refused
  BY <1>1, <1>9, Answers
<1>10. CASE ~refused /\ resumes
  BY <1>1, <1>7, <1>10, Answers
<1>11. CASE ~refused /\ ~resumes
  BY <1>1, <1>8, <1>11, Answers
<1> QED
  BY <1>9, <1>10, <1>11

\* MC_GroupSetOverride does not touch what the invariant is about.
LEMMA OverrideGood ==
  ASSUME NEW s, Good(s), NEW positive \in BOOLEAN, NEW n \in Ticks, NEW ok \in BOOLEAN,
         NEW beyond \in BOOLEAN
  PROVE  Good(set_group_override(s, positive, n, ok, beyond).s)
<1> DEFINE F == GroupFields \ {"override", "paused", "beyond", "left"}
           t == [s EXCEPT !.override = positive]
           h == [s EXCEPT !.paused = @ /\ ~positive]
           p == [t EXCEPT !.paused = FALSE, !.beyond = FALSE, !.left = n]
           m == IF s.moves THEN n ELSE 0
           q == [t EXCEPT !.paused = TRUE, !.beyond = beyond /\ s.moves, !.left = m]
           r == set_group_override(s, positive, n, ok, beyond).s
<1>0. GroupTypes(s)
  BY DEF Good
<1>1. r \in {s, t, h, p, q}
  <2> HIDE DEF t, h, p, q
  <2>1. set_group_override(s, positive, n, ok, beyond)
           \in {Rejected(s), Accepted(t), Rejected(h), Accepted(p), Accepted(q)}
    BY DEF set_group_override, t, h, p, q
  <2> QED
    BY <2>1, Answers
<1>2. n \in 0 .. MaxTicks /\ m \in 0 .. MaxTicks
  BY <1>0, Zero DEF GroupTypes
<1> HIDE DEF m
<1>3. GroupTypes(t) /\ Same(s, t, F)
  BY <1>0 DEF GroupTypes, GroupFields, Same
<1>4. GroupTypes(h) /\ Same(s, h, F)
  BY <1>0 DEF GroupTypes, GroupFields, Same
<1>5. GroupTypes(p) /\ Same(s, p, F)
  BY <1>0, <1>2 DEF GroupTypes, GroupFields, Same
<1>6. GroupTypes(q) /\ Same(s, q, F)
  <2>1. (beyond /\ s.moves) \in BOOLEAN
    OBVIOUS
  <2> QED
    BY <1>0, <1>2, <2>1 DEF GroupTypes, GroupFields, Same
<1>7. Kernel \subseteq F
  BY DEF Kernel, GroupFields
<1> HIDE DEF t, h, p, q, F
<1>8. Good(t) /\ Good(h) /\ Good(p) /\ Good(q)
  BY <1>3, <1>4, <1>5, <1>6, <1>7, SameGood
<1> QED
  BY <1>1, <1>8

\* MC_GroupPower, unless a member of a group that moves has just failed.
LEMMA PowerGood ==
  ASSUME NEW s, Good(s), NEW enabled \in BOOLEAN, NEW switched \in SUBSET Member,
         switched # Member => enabled /\ AnyFaulty(s),
         ~enabled \/ ~AnyFaulty(s) \/ s.status \in {"disabled", "standby", "errorstop"}
  PROVE  Good(set_group_power(s, enabled, switched).s)
<1> DEFINE m == [a \in Member |-> IF a \in switched THEN set_power(s.members[a], enabled, FALSE)
                                  ELSE s.members[a]]
           t == [s EXCEPT !.members = m]
           k == set_group_error(s, "power")
           j == set_group_error(t, "power")
           e == set_group_error(abort_motion(t), "member")
           stuck == \E a \in Member : s.members[a].status = "errorstop"
<1>0. GroupTypes(s) /\ Safe(s) /\ Len(s.queue) <= QueueCapacity
  BY DEF Good
<1>1. set_group_power(s, enabled, switched) =
         CASE enabled /\ stuck -> Rejected(k)
           [] enabled /\ ~stuck -> IF switched = Member THEN Accepted(t) ELSE Rejected(j)
           [] OTHER -> Accepted(IF s.status # "disabled" THEN e ELSE t)
  BY DEF set_group_power
<1>2. s.members \in [Member -> MemberRecord] /\ MembersSafe(s)
  BY <1>0 DEF GroupTypes, Safe
<1>3. FALSE \in BOOLEAN
  OBVIOUS
<1>4. m \in [Member -> MemberRecord]
  BY <1>2, <1>3, MemberTypes
<1>5. ASSUME NEW a \in Member PROVE m[a] = s.members[a] \/ Ended(m[a])
  <2>1. s.members[a] \in MemberRecord
    BY <1>2
  <2>2. m[a] = s.members[a] \/ m[a] = set_power(s.members[a], enabled, FALSE)
    OBVIOUS
  <2>3. LET y == set_power(s.members[a], enabled, FALSE) IN y = s.members[a] \/ Ended(y)
    BY <1>3, <2>1, MemberFacts
  <2> QED
    BY <2>2, <2>3
<1>6. ASSUME NEW a \in Member, ~enabled
      PROVE  (m[a] = s.members[a] /\ ~s.members[a].powered) \/ Ended(m[a])
  <2>1. s.members[a] \in MemberRecord
    BY <1>2
  <2>2. m[a] = set_power(s.members[a], enabled, FALSE)
    BY <1>6
  <2>3. enabled # s.members[a].powered => Ended(set_power(s.members[a], enabled, FALSE))
    BY <2>1, MemberFacts
  <2>4. enabled = s.members[a].powered => ~s.members[a].powered
    BY <1>6
  <2> QED
    BY <1>5, <2>2, <2>3, <2>4
<1> HIDE DEF m
<1>7. GroupTypes(t) /\ t.members = m /\ Same(s, t, GroupFields \ {"members"})
  BY <1>0, <1>4, MembersReplaced
<1> HIDE DEF t
<1>8. /\ t.status = s.status /\ t.queue = s.queue /\ t.active = s.active
      /\ t.direct = s.direct /\ t.waitState = s.waitState /\ t.failure = s.failure
  BY <1>7 DEF Same, GroupFields
<1>9. MembersSafe(t)
  <2>1. ASSUME NEW a \in Member PROVE MemberSafe(t.members[a], t.direct)
    <3>1. MemberSafe(s.members[a], s.direct)
      BY <1>2 DEF MembersSafe
    <3>2. m[a] = s.members[a] \/ Ended(m[a])
      BY <1>5
    <3> QED
      BY <1>7, <1>8, <3>1, <3>2 DEF MemberSafe, Ended
  <2> QED
    BY <2>1 DEF MembersSafe
<1>10. OnlyEarly(s) => OnlyEarly(t)
  BY <1>5, <1>7 DEF OnlyEarly, Ended
<1>11. Good(t)
  <2>1. Safe(t)
    BY <1>0, <1>8, <1>9, <1>10 DEF Safe
  <2> QED
    BY <1>0, <1>7, <1>8, <2>1 DEF Good
<1>12. ~enabled => Good(e)
  <2> SUFFICES ASSUME ~enabled PROVE Good(e)
    OBVIOUS
  <2>1. ASSUME NEW a \in Member PROVE MemberSafe(t.members[a], 0)
    <3>1. MemberSafe(s.members[a], s.direct)
      BY <1>2 DEF MembersSafe
    <3>2. (m[a] = s.members[a] /\ ~s.members[a].powered) \/ Ended(m[a])
      BY <1>6
    <3> QED
      BY <1>7, <3>1, <3>2 DEF MemberSafe, Ended
  <2> QED
    BY <1>7, <2>1, ErrorGood
<1>13. "power" \in Failures
  BY DEF Failures
<1>14. s.status \in {"disabled", "standby", "errorstop"} => Good(k) /\ Good(j)
  <2> SUFFICES ASSUME s.status \in {"disabled", "standby", "errorstop"} PROVE Good(k) /\ Good(j)
    OBVIOUS
  <2>1. ~s.active /\ s.direct = 0 /\ ~t.active /\ t.direct = 0
    BY <1>0, <1>8 DEF Safe
  <2> QED
    BY <1>11, <1>13, <2>1, ErrorKeptGood
<1> HIDE DEF e, j, k
<1>15. stuck => AnyFaulty(s)
  BY DEF AnyFaulty, Faulty
<1> HIDE DEF stuck
<1>16. CASE enabled /\ stuck
  BY <1>1, <1>14, <1>15, <1>16, Answers
<1>17. CASE enabled /\ ~stuck
  BY <1>1, <1>11, <1>14, <1>17, Answers
<1>18. CASE ~enabled
  BY <1>1, <1>11, <1>12, <1>18, Answers
<1> QED
  BY <1>16, <1>17, <1>18

\* The group is disabled.
LEMMA DisableGood ==
  ASSUME NEW s, Good(s)
  PROVE  Good(disable(s))
<1> DEFINE x == abort_direct_members(s)
           y == [x EXCEPT !.directAborted = s.direct]
           t == IF s.direct = 0 THEN s ELSE y
           b == abort_motion(t)
           u == [b EXCEPT !.status = "disabled", !.failure = "none"]
<1>0. GroupTypes(s) /\ Safe(s) /\ MembersSafe(s) /\ s.direct \in 0 .. MaxId
  BY DEF Good, Safe, GroupTypes
<1>1. disable(s) = u
  BY DEF disable
<1>2. GroupTypes(x) /\ \A a \in Member : MemberSafe(x.members[a], 0)
  BY <1>0, AbortMembersTypes, AbortedMembers
<1> HIDE DEF x
<1>3. GroupTypes(y) /\ y.members = x.members
  BY <1>0, <1>2 DEF GroupTypes, GroupFields
<1> HIDE DEF y
<1>4. GroupTypes(t) /\ \A a \in Member : MemberSafe(t.members[a], 0)
  <2>1. CASE s.direct = 0
    BY <1>0, <2>1, NoneServed
  <2>2. CASE s.direct # 0
    BY <1>2, <1>3, <2>2
  <2> QED
    BY <2>1, <2>2
<1> HIDE DEF t
<1>5. GroupTypes(b) /\ MembersSafe(b) /\ ~b.active /\ b.direct = 0 /\ b.queue = <<>>
  BY <1>4, AbortSafe
<1> HIDE DEF b
<1>6. GroupTypes(u) /\ u.status = "disabled" /\ Same(b, u, GroupFields \ {"status", "failure"})
  BY <1>5 DEF GroupTypes, GroupFields, GroupStatus, Failures, Same
<1> HIDE DEF u
<1>7. ~u.active /\ u.direct = 0 /\ u.queue = <<>> /\ u.members = b.members
  BY <1>5, <1>6 DEF Same, GroupFields
<1>8. MembersSafe(u)
  BY <1>5, <1>7 DEF MembersSafe
<1>9. Good(u)
  BY <1>6, <1>7, <1>8, QuietGood
<1> QED
  BY <1>1, <1>9

\* MC_GroupReset, from ErrorStop; it may still have a queue.
LEMMA ResetGood ==
  ASSUME NEW s, Good(s), s.status = "errorstop"
  PROVE  Good(reset(s))
<1> DEFINE m == [a \in Member |-> reset_error(s.members[a])]
           t == [s EXCEPT !.members = m]
<1>0. GroupTypes(s) /\ Safe(s) /\ Len(s.queue) <= QueueCapacity
  BY DEF Good
<1>1. reset(s) = Standby(t)
  BY DEF reset
<1>2. s.members \in [Member -> MemberRecord]
  BY <1>0 DEF GroupTypes
<1>3. m \in [Member -> MemberRecord]
  BY <1>2, MemberTypes
<1>4. \A a \in Member : Kept(s.members[a], m[a])
  BY <1>2, MemberFacts
<1> HIDE DEF m
<1>5. GroupTypes(t) /\ t.members = m /\ Same(s, t, GroupFields \ {"members"})
  BY <1>0, <1>3, MembersReplaced
<1> HIDE DEF t
<1>6. /\ t.status = s.status /\ t.queue = s.queue /\ t.active = s.active
      /\ t.direct = s.direct /\ t.waitState = s.waitState /\ t.failure = s.failure
  BY <1>5 DEF Same, GroupFields
<1>7. ~s.active /\ s.direct = 0 /\ MembersSafe(s)
  BY <1>0 DEF Safe
<1>8. MembersSafe(t)
  BY <1>4, <1>5, <1>6, <1>7, KeptSafe DEF MembersSafe
<1>9. OnlyEarly(s) => OnlyEarly(t)
  BY <1>4, <1>5 DEF OnlyEarly, Kept
<1>10. Good(t)
  <2>1. Safe(t)
    BY <1>0, <1>6, <1>8, <1>9 DEF Safe
  <2> QED
    BY <1>0, <1>5, <1>6, <2>1 DEF Good
<1>11. Good(Standby(t))
  BY <1>6, <1>7, <1>10, StandbyGood
<1> QED
  BY <1>1, <1>11

-----------------------------------------------------------------------------
(* cycle(), and the cycles of the members.                                  *)

\* A wait that ends lets the next command start.
LEMMA WaitGood ==
  ASSUME NEW s, Good(s), NEW d \in Durations, NEW o \in Outcomes,
         s.status \notin {"moving", "stopping"}
  PROVE  Good(cycle_wait(s, d, o))
<1> DEFINE p == [s EXCEPT !.waitLeft = @ - 1]
           q == [s EXCEPT !.waitLeft = 0, !.waitState = "idle"]
<1>0. GroupTypes(s) /\ Safe(s) /\ Len(s.queue) <= QueueCapacity
  BY DEF Good
<1>1. cycle_wait(s, d, o) = IF s.waitLeft > 1 THEN p ELSE start_next_queued(q, d, o)
  BY DEF cycle_wait
<1>2. CASE s.waitLeft > 1
  <2>1. s.waitLeft - 1 \in 0 .. MaxTicks
    BY <1>0, <1>2, GroupAssumption DEF GroupTypes
  <2>2. GroupTypes(p) /\ Same(s, p, GroupFields \ {"waitLeft"})
    BY <1>0, <2>1 DEF GroupTypes, GroupFields, Same
  <2>3. Kernel \subseteq GroupFields \ {"waitLeft"}
    BY DEF Kernel, GroupFields
  <2> HIDE DEF p
  <2>4. Good(p)
    BY <2>2, <2>3, SameGood
  <2> QED
    BY <1>1, <1>2, <2>4
<1>3. CASE ~(s.waitLeft > 1)
  <2>1. GroupTypes(q)
    BY <1>0, Zero DEF GroupTypes, GroupFields, WaitState
  <2>2. q.waitState = "idle" /\ Same(s, q, GroupFields \ {"waitLeft", "waitState"})
    BY <1>0 DEF GroupTypes, GroupFields, Same
  <2> HIDE DEF q
  <2>3. /\ q.status = s.status /\ q.queue = s.queue /\ q.active = s.active
        /\ q.direct = s.direct /\ q.members = s.members /\ q.failure = s.failure
    BY <2>2 DEF Same, GroupFields
  <2>4. Safe(q)
    BY <1>0, <2>2, <2>3 DEF Safe, MembersSafe, OnlyEarly
  <2>5. Good(q)
    BY <1>0, <2>1, <2>3, <2>4 DEF Good
  <2>6. ~q.active /\ q.direct = 0 /\ q.waitState # "active"
    BY <1>0, <2>2, <2>3 DEF Safe
  <2>7. Good(start_next_queued(q, d, o))
    BY <2>5, <2>6, NextGood
  <2> QED
    BY <1>1, <1>3, <2>7
<1> QED
  BY <1>2, <1>3

\* A member that fails ends everything.
LEMMA FaultGood ==
  ASSUME NEW s, Good(s)
  PROVE  Good(cycle_fault(s))
<1> DEFINE b == abort_direct_members(s)
           t == IF s.direct = 0 THEN s ELSE b
<1>1. GroupTypes(s) /\ MembersSafe(s)
  BY DEF Good, Safe
<1>2. GroupTypes(b) /\ \A a \in Member : MemberSafe(b.members[a], 0)
  BY <1>1, AbortMembersTypes, AbortedMembers
<1>3. GroupTypes(t) /\ \A a \in Member : MemberSafe(t.members[a], 0)
  BY <1>1, <1>2, NoneServed
<1>4. cycle_fault(s) = set_group_error(abort_motion(t), "member")
  BY DEF cycle_fault
<1> HIDE DEF t
<1> QED
  BY <1>3, <1>4, ErrorGood

\* A direct move ends when all its members stand; no member is driven then.
LEMMA DirectGood ==
  ASSUME NEW s, Good(s), s.direct # 0, s.waitState # "active", NEW d \in Durations,
         NEW o \in Outcomes
  PROVE  Good(cycle_direct(s, d, o))
<1> DEFINE ended == IF s.directStopping THEN [s EXCEPT !.directAborted = s.direct]
                    ELSE [s EXCEPT !.directDone = s.direct]
           t == [ended EXCEPT !.direct = 0, !.directStopping = FALSE]
           u == Standby(t)
           moving == \E a \in Member : s.members[a].status # "standstill"
<1>0. GroupTypes(s) /\ Safe(s) /\ MembersSafe(s) /\ Len(s.queue) <= QueueCapacity
  BY DEF Good, Safe
<1>1. cycle_direct(s, d, o) = IF moving THEN s ELSE start_next_queued(u, d, o)
  BY DEF cycle_direct
<1>2. CASE ~moving
  <2>1. \A a \in Member : ~s.members[a].own /\ s.members[a].serves = 0
    BY <1>0, <1>2 DEF MembersSafe, MemberSafe
  <2>2. GroupTypes(ended) /\ Same(s, ended, GroupFields \ {"directAborted", "directDone"})
    BY <1>0 DEF GroupTypes, GroupFields, Same
  <2> HIDE DEF ended
  <2>3. GroupTypes(t)
    BY <2>2, Zero DEF GroupTypes, GroupFields
  <2>4. t.direct = 0 /\ Same(ended, t, GroupFields \ {"direct", "directStopping"})
    BY <2>2 DEF GroupTypes, GroupFields, Same
  <2> HIDE DEF t
  <2>5. /\ t.status = s.status /\ t.queue = s.queue /\ t.active = s.active
        /\ t.members = s.members /\ t.waitState = s.waitState /\ t.failure = s.failure
    BY <2>2, <2>4 DEF Same, GroupFields
  <2>6. MembersSafe(t) /\ OnlyEarly(t)
    BY <2>1, <2>4, <2>5 DEF MembersSafe, MemberSafe, OnlyEarly
  <2>7. ~t.active
    BY <1>0, <2>5 DEF Safe
  <2>8. Safe(t)
    BY <1>0, <2>4, <2>5, <2>6, <2>7 DEF Safe
  <2>9. Good(t)
    BY <1>0, <2>3, <2>5, <2>8 DEF Good
  <2>10. Good(u) /\ Same(t, u, GroupFields \ {"status", "failure"})
    BY <2>4, <2>7, <2>9, StandbyGood
  <2> HIDE DEF u
  <2>11. ~u.active /\ u.direct = 0 /\ u.waitState # "active"
    BY <2>4, <2>5, <2>7, <2>10 DEF Same, GroupFields
  <2>12. Good(start_next_queued(u, d, o))
    BY <2>10, <2>11, NextGood
  <2> QED
    BY <1>1, <1>2, <2>12
<1> QED
  BY <1>1, <1>2

\* A group without a motion settles, and starts what is queued.
LEMMA IdleGood ==
  ASSUME NEW s, Good(s), ~s.active, s.direct = 0, s.waitState # "active", NEW d \in Durations,
         NEW o \in Outcomes
  PROVE  Good(cycle_idle(s, d, o))
<1> DEFINE st == IF s.interrupting THEN "interrupted" ELSE "standby"
           p == [s EXCEPT !.status = st, !.interrupting = FALSE]
           t == IF s.status # "stopping" THEN s ELSE p
<1>0. GroupTypes(s) /\ Safe(s) /\ Len(s.queue) <= QueueCapacity
  BY DEF Good
<1>1. cycle_idle(s, d, o) = IF t.status = "standby" THEN start_next_queued(t, d, o) ELSE t
  BY DEF cycle_idle
<1>2. GroupTypes(p)
  BY <1>0 DEF GroupTypes, GroupFields, GroupStatus
<1>3. p.status \in {"standby", "interrupted"} /\ Same(s, p, GroupFields \ {"status", "interrupting"})
  BY <1>0 DEF GroupTypes, GroupFields, Same
<1> HIDE DEF p
<1>4. /\ p.queue = s.queue /\ p.active = s.active /\ p.direct = s.direct
      /\ p.members = s.members /\ p.waitState = s.waitState /\ p.failure = s.failure
  BY <1>3 DEF Same, GroupFields
<1>5. s.status = "stopping" => Good(p)
  <2> SUFFICES ASSUME s.status = "stopping" PROVE Good(p)
    OBVIOUS
  <2>1. OnlyEarly(s)
    BY <1>0 DEF Safe
  <2>2. MembersSafe(p) /\ OnlyEarly(p)
    BY <1>0, <1>4, <2>1 DEF Safe, MembersSafe, OnlyEarly
  <2>3. Safe(p)
    BY <1>0, <1>3, <1>4, <2>2 DEF Safe
  <2> QED
    BY <1>0, <1>2, <1>4, <2>3 DEF Good
<1>6. Good(t) /\ ~t.active /\ t.direct = 0 /\ t.waitState # "active"
  BY <1>4, <1>5
<1> HIDE DEF t
<1> QED
  BY <1>1, <1>6, NextGood

\* A sampled path writes the set points of members that do not move themselves,
\* or have done so since it was queued.
LEMMA PathGood ==
  ASSUME NEW s, Good(s), s.active, s.waitState # "active", NEW d \in Durations, NEW o \in Outcomes
  PROVE  Good(cycle_path(s, d, o))
<1> DEFINE m == [a \in Member |-> set_synchronized_position(s.members[a])]
           n == IF s.left = 0 THEN 0 ELSE s.left - 1
           p == [s EXCEPT !.left = n, !.moves = s.left > 1]
           t == Tick(s)
<1>0. GroupTypes(s) /\ Safe(s) /\ Len(s.queue) <= QueueCapacity
  BY DEF Good
<1>1. n \in 0 .. MaxTicks
  BY <1>0, GroupAssumption DEF GroupTypes
<1>2. t = [p EXCEPT !.members = m]
  BY DEF Tick
<1> HIDE DEF n
<1>3. (s.left > 1) \in BOOLEAN
  OBVIOUS
<1>4. GroupTypes(p) /\ Same(s, p, GroupFields \ {"left", "moves"})
  BY <1>0, <1>1, <1>3 DEF GroupTypes, GroupFields, Same
<1>5. s.members \in [Member -> MemberRecord]
  BY <1>0 DEF GroupTypes
<1>6. m \in [Member -> MemberRecord]
  BY <1>5, MemberTypes
<1>7. \A a \in Member : /\ m[a].own = s.members[a].own /\ m[a].serves = s.members[a].serves
                        /\ m[a].powered = s.members[a].powered
                        /\ m[a].early = s.members[a].early
  BY <1>5, MemberFacts
<1> HIDE DEF m, p
<1>8. GroupTypes(t) /\ t.members = m /\ Same(p, t, GroupFields \ {"members"})
  BY <1>2, <1>4, <1>6, MembersReplaced
<1> HIDE DEF t
<1>9. /\ t.status = s.status /\ t.queue = s.queue /\ t.active = s.active
      /\ t.direct = s.direct /\ t.waitState = s.waitState /\ t.failure = s.failure
  BY <1>4, <1>8 DEF Same, GroupFields
<1>10. OnlyEarly(s) /\ MembersSafe(s) /\ s.direct = 0
  BY <1>0 DEF Safe
<1>11. OnlyEarly(t)
  BY <1>7, <1>8, <1>10 DEF OnlyEarly
<1>12. MembersSafe(t)
  BY <1>7, <1>8, <1>9, <1>10 DEF OnlyEarly, MembersSafe, MemberSafe
<1>13. Safe(t)
  BY <1>0, <1>9, <1>11, <1>12 DEF Safe
<1>14. Good(t)
  BY <1>0, <1>8, <1>9, <1>13 DEF Good
<1>15. cycle_path(s, d, o) = IF t.left = 0 THEN finish_active(t, d, o) ELSE t
  BY DEF cycle_path, t
<1> QED
  BY <1>9, <1>14, <1>15, FinishGood

\* One cycle of the group.
LEMMA CycleGood ==
  ASSUME NEW s, Good(s), NEW d \in Durations, NEW o \in Outcomes
  PROVE  Good(cycle(s, d, o))
<1> DEFINE dwells == \/ s.waitState = "active"
                     \/ s.waitState \in {"queued", "stopping"} /\ s.status = "standby"
           p == [s EXCEPT !.waitState = "active"]
<1>0. GroupTypes(s) /\ Safe(s) /\ Len(s.queue) <= QueueCapacity
  BY DEF Good
<1>1. CASE dwells
  <2>1. GroupTypes(p) /\ p.waitState = "active" /\ Same(s, p, GroupFields \ {"waitState"})
    BY <1>0 DEF GroupTypes, GroupFields, WaitState, Same
  <2>2. cycle(s, d, o) = cycle_wait(p, d, o)
    BY <1>1 DEF cycle
  <2> HIDE DEF p
  <2>3. /\ p.status = s.status /\ p.queue = s.queue /\ p.active = s.active
        /\ p.direct = s.direct /\ p.members = s.members /\ p.failure = s.failure
    BY <2>1 DEF Same, GroupFields
  <2>4. s.status \in {"standby", "disabled", "errorstop"}
    BY <1>0, <1>1 DEF Safe
  <2>5. MembersSafe(p) /\ (OnlyEarly(s) <=> OnlyEarly(p))
    BY <1>0, <2>3 DEF Safe, MembersSafe, OnlyEarly
  <2>6. Safe(p)
    BY <1>0, <2>1, <2>3, <2>4, <2>5 DEF Safe
  <2>7. Good(p)
    BY <1>0, <2>1, <2>3, <2>6 DEF Good
  <2>8. p.status \notin {"moving", "stopping"}
    BY <2>3, <2>4
  <2> QED
    BY <2>2, <2>7, <2>8, WaitGood
<1>2. CASE ~dwells /\ s.status \in {"errorstop", "disabled", "interrupted"}
  BY <1>2 DEF cycle
<1>3. CASE ~dwells /\ s.status \notin {"errorstop", "disabled", "interrupted"}
  <2>1. cycle(s, d, o) = IF AnyFaulty(s) THEN cycle_fault(s)
                         ELSE IF s.direct # 0 THEN cycle_direct(s, d, o)
                         ELSE IF s.active THEN cycle_path(s, d, o)
                         ELSE cycle_idle(s, d, o)
    BY <1>3 DEF cycle
  <2>2. s.waitState # "active" /\ s.active \in BOOLEAN
    BY <1>0, <1>3 DEF GroupTypes
  <2> QED
    BY <2>1, <2>2, FaultGood, DirectGood, PathGood, IdleGood
<1> QED
  BY <1>1, <1>2, <1>3

\* The members' cycles end their motions or go on with them.
LEMMA MembersGood ==
  ASSUME NEW s, Good(s)
  PROVE  Good(cycle_members(s))
<1> DEFINE m == [a \in Member |-> MemberCycle(s.members[a])]
           t == cycle_members(s)
<1>0. GroupTypes(s) /\ Safe(s) /\ MembersSafe(s) /\ Len(s.queue) <= QueueCapacity
  BY DEF Good, Safe
<1>1. t = [s EXCEPT !.members = m]
  BY DEF cycle_members
<1>2. s.members \in [Member -> MemberRecord]
  BY <1>0 DEF GroupTypes
<1>3. m \in [Member -> MemberRecord]
  BY <1>2, MemberTypes
<1>4. ASSUME NEW a \in Member
      PROVE  \/ /\ m[a].own = s.members[a].own /\ m[a].serves = s.members[a].serves
                /\ m[a].status = s.members[a].status
                /\ m[a].powered = s.members[a].powered
                /\ m[a].early = s.members[a].early
             \/ Ended(m[a])
  <2>1. s.members[a] \in MemberRecord
    BY <1>2
  <2>2. m[a] = MemberCycle(s.members[a])
    OBVIOUS
  <2> QED
    BY <2>1, <2>2, MemberFacts
<1> HIDE DEF m, t
<1>5. GroupTypes(t) /\ t.members = m /\ Same(s, t, GroupFields \ {"members"})
  BY <1>0, <1>1, <1>3, MembersReplaced
<1>6. /\ t.status = s.status /\ t.queue = s.queue /\ t.active = s.active
      /\ t.direct = s.direct /\ t.waitState = s.waitState /\ t.failure = s.failure
  BY <1>5 DEF Same, GroupFields
<1>7. MembersSafe(t)
  BY <1>0, <1>4, <1>5, <1>6 DEF MembersSafe, MemberSafe, Ended
<1>8. OnlyEarly(s) => OnlyEarly(t)
  BY <1>4, <1>5 DEF OnlyEarly, Ended
<1>9. Safe(t)
  BY <1>0, <1>6, <1>7, <1>8 DEF Safe
<1>10. Good(t)
  BY <1>0, <1>5, <1>6, <1>9 DEF Good
<1> QED
  BY <1>10 DEF t

-----------------------------------------------------------------------------
(* The specification.                                                       *)

\* A group starts disabled with its members at rest.
LEMMA InitGood ==
  ASSUME NEW calls \in Programs
  PROVE  Good(GroupInit(calls))
<1> DEFINE t == GroupInit(calls)
<1>1. MemberInit \in MemberRecord
  <2>1. FALSE \in BOOLEAN /\ TRUE \in BOOLEAN
    OBVIOUS
  <2> QED
    BY <2>1, Zero DEF MemberInit, MemberRecord, MemberStatus
<1>2. [a \in Member |-> MemberInit] \in [Member -> MemberRecord]
  BY <1>1
<1>3. 1 \in 1 .. MaxId + 1
  BY GroupAssumption
<1>4. GroupTypes(t)
  BY <1>2, <1>3, Zero DEF GroupInit, GroupTypes, GroupFields, GroupStatus, WaitState, Failures
<1>5. /\ ~t.active /\ t.direct = 0 /\ t.queue = <<>> /\ t.status = "disabled"
      /\ t.members = [a \in Member |-> MemberInit]
  BY DEF GroupInit
<1> HIDE DEF t
<1>6. MembersSafe(t)
  BY <1>5 DEF MembersSafe, MemberSafe, MemberInit
<1>7. Good(t)
  BY <1>4, <1>5, <1>6, QuietGood
<1> QED
  BY <1>7 DEF t

\* A member whose motion ends, whose own state changes, or which moves by itself
\* in a group that stands by, early if a path is queued.
LEMMA MemberStepGood ==
  ASSUME NEW s, Good(s), NEW a \in Member, NEW y \in MemberRecord,
         \/ Ended(y)
         \/ Kept(s.members[a], y)
         \/ /\ s.status = "standby" /\ MemberSafe(y, 0) /\ y.serves = 0
            /\ PathIn(s.queue) => y.early
  PROVE  Good([s EXCEPT !.members[a] = y])
<1> DEFINE m == [s.members EXCEPT ![a] = y]
           t == [s EXCEPT !.members[a] = y]
<1>0. GroupTypes(s) /\ Safe(s) /\ MembersSafe(s) /\ Len(s.queue) <= QueueCapacity
  BY DEF Good, Safe
<1>1. s.members \in [Member -> MemberRecord]
  BY <1>0 DEF GroupTypes
<1>2. m \in [Member -> MemberRecord] /\ m[a] = y /\ \A b \in Member \ {a} : m[b] = s.members[b]
  BY <1>1
<1>3. t = [s EXCEPT !.members = m]
  OBVIOUS
<1> HIDE DEF m, t
<1>4. GroupTypes(t) /\ t.members = m /\ Same(s, t, GroupFields \ {"members"})
  BY <1>0, <1>2, <1>3, MembersReplaced
<1>5. /\ t.status = s.status /\ t.queue = s.queue /\ t.active = s.active
      /\ t.direct = s.direct /\ t.waitState = s.waitState /\ t.failure = s.failure
  BY <1>4 DEF Same, GroupFields
<1>6. MemberSafe(y, s.direct)
  <2>1. MemberSafe(s.members[a], s.direct)
    BY <1>0 DEF MembersSafe
  <2>2. CASE Ended(y)
    BY <2>2 DEF Ended, MemberSafe
  <2>3. CASE Kept(s.members[a], y)
    BY <2>1, <2>3, KeptSafe
  <2>4. CASE s.status = "standby" /\ MemberSafe(y, 0)
    <3>1. s.direct = 0
      BY <1>0, <2>4 DEF Safe
    <3> QED
      BY <2>4, <3>1
  <2> QED
    BY <2>2, <2>3, <2>4
<1>7. MembersSafe(t)
  BY <1>0, <1>2, <1>4, <1>5, <1>6 DEF MembersSafe
<1>8. OnlyEarly(s) /\ (y.own => y.early) => OnlyEarly(t)
  BY <1>2, <1>4 DEF OnlyEarly
<1>9. Ended(y) \/ Kept(s.members[a], y) => (OnlyEarly(s) => (y.own => y.early))
  BY DEF OnlyEarly, Ended, Kept
<1>10. Ended(y) \/ Kept(s.members[a], y) => Safe(t)
  BY <1>0, <1>5, <1>7, <1>8, <1>9 DEF Safe
<1>11. s.status = "standby" /\ (PathIn(s.queue) => y.early) => Safe(t)
  BY <1>0, <1>5, <1>7, <1>8 DEF Safe
<1>12. Safe(t)
  BY <1>10, <1>11
<1> QED
  BY <1>0, <1>4, <1>5, <1>12 DEF Good, t

\* A queue with a path has the id of one.
LEMMA PathQueued ==
  ASSUME NEW s, PathIn(s.queue)
  PROVE  QueuedIds(s, "motion") # {}
<1>1. PICK i \in DOMAIN s.queue : s.queue[i].kind = "motion"
  BY DEF PathIn
<1>2. s.queue[i].id \in QueuedIds(s, "motion")
  BY <1>1 DEF QueuedIds
<1> QED
  BY <1>2

\* The profiles of the actions are profiles.
LEMMA Planned ==
  ASSUME NEW planned \in BOOLEAN
  PROVE  DurationsIf(planned) \subseteq Durations /\ TicksIf(planned) \subseteq Ticks
<1>1. 1 \in Ticks
  BY GroupAssumption DEF Ticks
<1>2. [a \in Member |-> 1] \in Durations
  BY <1>1 DEF Durations
<1> QED
  BY <1>1, <1>2 DEF DurationsIf, TicksIf

\* The calls the environment does not make: MC_GroupPower(TRUE) in the scan in
\* which a member of a group that moves fails or loses its power, and
\* MC_GroupWaitTime while the group is interrupted.
Careful == \A p \in Programs : "power_race" \notin p /\ "wait_interrupted" \notin p

\* Every step of the group keeps the invariant.
LEMMA StepGood ==
  ASSUME Careful, GroupInv, [Next]_gr
  PROVE  GroupInv'
<1>0. Good(gr) /\ GroupTypes(gr) /\ Safe(gr) /\ gr.members \in [Member -> MemberRecord]
  BY DEF GroupInv, Good, GroupTypes
<1>00. "power_race" \notin gr.calls /\ "wait_interrupted" \notin gr.calls
  <2>1. gr.calls \in Programs
    BY <1>0 DEF GroupTypes
  <2> QED
    BY <2>1 DEF Careful
<1>01. Feasible \subseteq BOOLEAN /\ FALSE \in BOOLEAN /\ TRUE \in BOOLEAN
  BY GroupAssumption
<1>02. \A b \in BOOLEAN : DurationsIf(b) \subseteq Durations /\ TicksIf(b) \subseteq Ticks
  BY Planned
<1>1. SUFFICES Good(gr')
  BY DEF GroupInv
<1>2. CASE UNCHANGED gr
  BY <1>0, <1>2
<1>3. CASE Enable
  <2>1. gr' = Standby(gr) /\ gr.status = "disabled"
    BY <1>3 DEF Enable
  <2>2. ~gr.active /\ gr.direct = 0
    BY <1>0, <2>1 DEF Safe
  <2> QED
    BY <1>0, <2>1, <2>2, StandbyGood
<1>4. CASE Disable
  BY <1>0, <1>4, DisableGood DEF Disable
<1>5. CASE SetGroupPower
  <2>1. PICK enabled \in BOOLEAN, switched \in SUBSET Member :
           /\ switched # Member => enabled /\ \E a \in Member \ switched : ~gr.members[a].powered
           /\ "power_race" \notin gr.calls =>
                 \/ ~enabled \/ ~AnyFaulty(gr)
                 \/ gr.status \in {"disabled", "standby", "errorstop"}
           /\ gr' = set_group_power(gr, enabled, switched).s
    BY <1>5 DEF SetGroupPower
  <2>2. switched # Member => enabled /\ AnyFaulty(gr)
    BY <2>1 DEF AnyFaulty, Faulty
  <2>3. \/ ~enabled \/ ~AnyFaulty(gr)
        \/ gr.status \in {"disabled", "standby", "errorstop"}
    BY <1>00, <2>1
  <2>4. Good(set_group_power(gr, enabled, switched).s)
    BY <1>0, <2>2, <2>3, PowerGood
  <2> QED
    BY <2>1, <2>4
<1>6. CASE Reset
  BY <1>0, <1>6, ResetGood DEF Reset
<1>7. CASE SubmitLinear
  <2>1. PICK mode \in Modes, o \in Outcomes, captured \in BOOLEAN, onward \in BOOLEAN :
           \E n \in TicksIf(o = "started") :
               gr' = submit_linear(gr, mode, n, captured, onward, o).s
    BY <1>7 DEF SubmitLinear
  <2>2. (o = "started") \in BOOLEAN
    OBVIOUS
  <2>3. PICK n \in Ticks : gr' = submit_linear(gr, mode, n, captured, onward, o).s
    BY <1>02, <2>1, <2>2
  <2>4. gr.nextId <= MaxId
    BY <1>7 DEF SubmitLinear
  <2> QED
    BY <1>0, <2>3, <2>4, SubmitLinearGood
<1>8. CASE SubmitDirect
  <2>1. PICK mode \in Modes, o \in Outcomes :
           \E d \in DurationsIf(o = "started") : gr' = submit_direct(gr, mode, d, o).s
    BY <1>8 DEF SubmitDirect
  <2>2. (o = "started") \in BOOLEAN
    OBVIOUS
  <2>3. PICK d \in Durations : gr' = submit_direct(gr, mode, d, o).s
    BY <1>02, <2>1, <2>2
  <2>4. gr.nextId <= MaxId
    BY <1>8 DEF SubmitDirect
  <2> QED
    BY <1>0, <2>3, <2>4, SubmitDirectGood
<1>9. CASE Stop
  <2>1. PICK ok \in Feasible : \E d \in DurationsIf(ok) : gr' = stop(gr, d, ok).s
    BY <1>9 DEF Stop
  <2>2. ok \in BOOLEAN
    BY <1>01
  <2>3. PICK d \in Durations : gr' = stop(gr, d, ok).s
    BY <1>02, <2>1, <2>2
  <2> QED
    BY <1>0, <2>2, <2>3, StopGood
<1>10. CASE Halt
  <2>1. PICK mode \in Modes, ok \in Feasible :
           \E d \in DurationsIf(ok) : gr' = halt(gr, mode, d, ok).s
    BY <1>10 DEF Halt
  <2>2. ok \in BOOLEAN /\ gr.nextId <= MaxId
    BY <1>01, <1>10 DEF Halt
  <2>3. PICK d \in Durations : gr' = halt(gr, mode, d, ok).s
    BY <1>02, <2>1, <2>2
  <2> QED
    BY <1>0, <2>2, <2>3, HaltGood
<1>11. CASE SubmitWait
  <2>1. PICK mode \in Modes, w \in Ticks, ok \in Feasible :
           \E d \in DurationsIf(ok) : gr' = submit_wait(gr, mode, w, d, ok).s
    BY <1>11 DEF SubmitWait
  <2>2. ok \in BOOLEAN /\ gr.nextId <= MaxId /\ gr.status # "interrupted"
    BY <1>00, <1>01, <1>11 DEF SubmitWait
  <2>3. PICK d \in Durations : gr' = submit_wait(gr, mode, w, d, ok).s
    BY <1>02, <2>1, <2>2
  <2> QED
    BY <1>0, <2>2, <2>3, SubmitWaitGood
<1>12. CASE Interrupt
  <2>1. PICK ok \in Feasible : \E n \in TicksIf(ok) : gr' = interrupt(gr, n, ok).s
    BY <1>12 DEF Interrupt
  <2>2. ok \in BOOLEAN
    BY <1>01
  <2>3. PICK n \in Ticks : gr' = interrupt(gr, n, ok).s
    BY <1>02, <2>1, <2>2
  <2> QED
    BY <1>0, <2>2, <2>3, InterruptGood
<1>13. CASE ContinueMotion
  <2>1. PICK rest \in BOOLEAN, o \in Outcomes :
           \E d \in DurationsIf(o = "started") : gr' = continue_motion(gr, rest, d, o).s
    BY <1>13 DEF ContinueMotion
  <2>2. (o = "started") \in BOOLEAN
    OBVIOUS
  <2>3. PICK d \in Durations : gr' = continue_motion(gr, rest, d, o).s
    BY <1>02, <2>1, <2>2
  <2> QED
    BY <1>0, <2>3, ContinueGood
<1>14. CASE SetOverride
  <2>1. PICK positive \in BOOLEAN, beyond \in BOOLEAN, ok \in Feasible :
           \E n \in TicksIf(ok) : gr' = set_group_override(gr, positive, n, ok, beyond).s
    BY <1>14 DEF SetOverride
  <2>2. ok \in BOOLEAN
    BY <1>01
  <2>3. PICK n \in Ticks : gr' = set_group_override(gr, positive, n, ok, beyond).s
    BY <1>02, <2>1, <2>2
  <2> QED
    BY <1>0, <2>2, <2>3, OverrideGood
<1>15. ASSUME NEW a \in Member, MemberFault(a) PROVE Good(gr')
  <2>1. PICK powered \in BOOLEAN :
           gr' = [gr EXCEPT !.members[a] =
                    [trigger_error(gr.members[a]) EXCEPT !.powered = powered]]
    BY <1>15 DEF MemberFault
  <2> DEFINE x == trigger_error(gr.members[a])
             y == [x EXCEPT !.powered = powered]
  <2>2. x \in MemberRecord /\ Ended(x)
    BY <1>0, MemberTypes, MemberFacts
  <2> HIDE DEF x
  <2>3. y \in MemberRecord /\ Ended(y)
    BY <2>2 DEF MemberRecord, Ended
  <2>4. gr' = [gr EXCEPT !.members[a] = y]
    BY <2>1 DEF x
  <2> HIDE DEF y
  <2> QED
    BY <1>0, <2>3, <2>4, MemberStepGood
<1>16. ASSUME NEW a \in Member, MemberReset(a) PROVE Good(gr')
  <2> DEFINE x == gr.members[a]
             y == reset_error(x)
  <2>1. gr' = [gr EXCEPT !.members[a] = y]
    BY <1>16 DEF MemberReset
  <2>2. y \in MemberRecord /\ Kept(x, y)
    BY <1>0, MemberTypes, MemberFacts
  <2> HIDE DEF y
  <2> QED
    BY <1>0, <2>1, <2>2, MemberStepGood
<1>17. ASSUME NEW a \in Member, MemberPower(a) PROVE Good(gr')
  <2>1. PICK enabled \in BOOLEAN, withdrawn \in BOOLEAN :
           gr' = [gr EXCEPT !.members[a] = set_power(gr.members[a], enabled, withdrawn)]
    BY <1>17 DEF MemberPower
  <2> DEFINE x == gr.members[a]
             y == set_power(x, enabled, withdrawn)
  <2>2. x \in MemberRecord
    BY <1>0
  <2>3. y \in MemberRecord /\ (y = x \/ Ended(y))
    BY <2>2, MemberTypes, MemberFacts
  <2>4. Kept(x, x)
    BY DEF Kept
  <2>5. gr' = [gr EXCEPT !.members[a] = y]
    BY <2>1
  <2> HIDE DEF y
  <2> QED
    BY <1>0, <2>3, <2>4, <2>5, MemberStepGood
<1>18. ASSUME NEW a \in Member, MemberMoves(a) PROVE Good(gr')
  <2> DEFINE x == gr.members[a]
             e == (QueuedIds(gr, "motion") # {})
  <2>1. PICK n \in Ticks :
           gr' = [gr EXCEPT !.members[a] = [Driven(gr.members[a], 0, n) EXCEPT
                                               !.early = (QueuedIds(gr, "motion") # {})]]
    BY <1>18 DEF MemberMoves
  <2>2. x \in MemberRecord /\ x.powered /\ gr.status = "standby"
    BY <1>0, <1>18 DEF MemberMoves, Faulty
  <2> DEFINE z == Driven(x, 0, n)
             y == [z EXCEPT !.early = e]
  <2>3. gr' = [gr EXCEPT !.members[a] = y]
    BY <2>1
  <2>4. z \in MemberRecord
    BY <2>2, MemberTypes, Zero
  <2>5. z.own /\ z.serves = 0 /\ z.powered /\ z.status = "discrete_motion"
    BY <2>2, DrivenFacts
  <2>6. e \in BOOLEAN
    OBVIOUS
  <2>7. PathIn(gr.queue) => e = TRUE
    BY PathQueued
  <2> HIDE DEF z, e
  <2>8. y \in MemberRecord /\ y.early = e
    BY <2>4, <2>6 DEF MemberRecord
  <2>9. y.own /\ y.serves = 0 /\ y.powered /\ y.status = "discrete_motion"
    BY <2>4, <2>5 DEF MemberRecord
  <2> HIDE DEF y
  <2>10. MemberSafe(y, 0)
    BY <2>9 DEF MemberSafe
  <2>11. PathIn(gr.queue) => y.early
    BY <2>7, <2>8
  <2> QED
    BY <1>0, <2>2, <2>3, <2>8, <2>9, <2>10, <2>11, MemberStepGood
<1>19. CASE Cycle
  <2> DEFINE outcomes == IF gr.queue = <<>> THEN {"started"} ELSE Outcomes
  <2>1. PICK o \in outcomes :
           \E d \in DurationsIf(gr.queue # <<>> /\ o = "started") :
               gr' = cycle_members(cycle(gr, d, o))
    BY <1>19 DEF Cycle
  <2>2. o \in Outcomes /\ (gr.queue # <<>> /\ o = "started") \in BOOLEAN
    BY DEF Outcomes
  <2>3. PICK d \in Durations : gr' = cycle_members(cycle(gr, d, o))
    BY <1>02, <2>1, <2>2
  <2>4. Good(cycle(gr, d, o))
    BY <1>0, <2>2, CycleGood
  <2> QED
    BY <2>3, <2>4, MembersGood
<1> QED
  BY <1>2, <1>3, <1>4, <1>5, <1>6, <1>7, <1>8, <1>9, <1>10, <1>11, <1>12, <1>13, <1>14,
     <1>15, <1>16, <1>17, <1>18, <1>19 DEF Next

\* The invariant holds in every state a group reaches.
THEOREM GroupInvariance ==
  ASSUME Careful
  PROVE  Spec => []GroupInv
<1>1. Init => GroupInv
  BY InitGood DEF Init, GroupInv
<1>2. GroupInv /\ [Next]_gr => GroupInv'
  BY StepGood
<1> QED
  BY <1>1, <1>2, PTL DEF Spec

\* Every field of the group and of its members has its type, and the queue its
\* capacity, whatever calls are made in whatever state.
THEOREM GroupTypeCorrect ==
  ASSUME Careful
  PROVE  Spec => []GroupTypeOK
<1>1. GroupInv => GroupTypeOK
  BY DEF GroupInv, Good, GroupTypeOK
<1> QED
  BY <1>1, GroupInvariance, PTL

\* The set points of the members have one writer: while the group samples a path
\* none of them runs a motion of its own, save one that it began while the path was
\* queued; and whoever serves a direct move serves the one the group watches (KB-068).
THEOREM GroupOneWriter ==
  ASSUME Careful
  PROVE  Spec => []OneWriter
<1>1. GroupInv => OneWriter
  <2> SUFFICES ASSUME GroupInv PROVE OneWriter
    OBVIOUS
  <2>1. Safe(gr)
    BY DEF GroupInv, Good
  <2>2. gr.active => gr.direct = 0 /\ OnlyEarly(gr)
    BY <2>1 DEF Safe
  <2>3. MembersSafe(gr)
    BY <2>1 DEF Safe
  <2> QED
    BY <2>2, <2>3 DEF OneWriter, OnlyEarly, MembersSafe, MemberSafe
<1> QED
  BY <1>1, GroupInvariance, PTL

\* A group in ErrorStop has no path, no direct move and no member that goes on
\* with one; and no queue if it was a member that failed.
THEOREM ErrorStopIsQuiet ==
  ASSUME Careful
  PROVE  Spec => []ErrorEndsMotion
<1>1. GroupInv => ErrorEndsMotion
  <2> SUFFICES ASSUME GroupInv, gr.status = "errorstop"
               PROVE  /\ ~gr.active /\ gr.direct = 0
                      /\ \A a \in Member : gr.members[a].serves = 0
                      /\ gr.failure = "member" => gr.queue = <<>>
    BY DEF ErrorEndsMotion
  <2>1. Safe(gr)
    BY DEF GroupInv, Good
  <2>2. ~gr.active /\ gr.direct = 0 /\ MembersSafe(gr)
    BY <2>1 DEF Safe
  <2>3. gr.failure = "member" => gr.queue = <<>>
    BY <2>1 DEF Safe
  <2> QED
    BY <2>2, <2>3 DEF MembersSafe, MemberSafe
<1> QED
  BY <1>1, GroupInvariance, PTL
=============================================================================
