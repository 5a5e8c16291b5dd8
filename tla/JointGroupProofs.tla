-------------------------- MODULE JointGroupProofs --------------------------
(***************************************************************************)
(* Proofs about the joint stream group, for every number of joints, every  *)
(* ration of slow replans and every set of configurations.                 *)
(***************************************************************************)
EXTENDS JointGroup, WellFoundedInduction, TLAPS

-----------------------------------------------------------------------------
(* Arithmetic of the rotation.                                             *)

\* A remainder is an offset of the rotation.
LEMMA RemainderInRange ==
    ASSUME NEW n \in Nat \ {0}, NEW x \in Nat
    PROVE  x % n \in 0..(n - 1)
  BY SMT

\* Adding two offsets wraps round once at most.
LEMMA SumOfOffsets ==
    ASSUME NEW n \in Nat \ {0}, NEW x \in 0..(n - 1), NEW y \in 0..(n - 1)
    PROVE  (x + y) % n = IF x + y < n THEN x + y ELSE x + y - n
  BY SMT

\* The joint that comes at an offset of the order that begins at start.
JointAt(start, o, n) == ((start + o) % n) + 1

\* Every offset has a joint of its own, and every joint an offset.
LEMMA RotationIsBijection ==
    ASSUME NEW n \in Nat \ {0}, NEW start \in 0..(n - 1)
    PROVE  /\ \A o \in 0..(n - 1) : JointAt(start, o, n) \in 1..n
           /\ \A o, p \in 0..(n - 1) :
                  JointAt(start, o, n) = JointAt(start, p, n) => o = p
           /\ \A i \in 1..n : \E o \in 0..(n - 1) : JointAt(start, o, n) = i
  <1>1. \A o \in 0..(n - 1) : JointAt(start, o, n) =
            (IF start + o < n THEN start + o ELSE start + o - n) + 1
    BY SumOfOffsets DEF JointAt
  <1>2. \A i \in 1..n : \E o \in 0..(n - 1) : JointAt(start, o, n) = i
    <2> TAKE i \in 1..n
    <2> DEFINE o == IF i - 1 >= start THEN i - 1 - start ELSE i - 1 - start + n
    <2>1. o \in 0..(n - 1)
      OBVIOUS
    <2> WITNESS o \in 0..(n - 1)
    <2> QED
      BY <1>1, <2>1
  <1> QED
    BY <1>1, <1>2

\* Moving the start on by S moves every joint S offsets forward, round once.
LEMMA RotationMoves ==
    ASSUME NEW n \in Nat \ {0}, NEW start \in 0..(n - 1), NEW S \in 0..(n - 1),
           NEW o \in 0..(n - 1)
    PROVE  JointAt((start + S) % n, o, n) =
               JointAt(start, IF S + o < n THEN S + o ELSE S + o - n, n)
  <1> DEFINE p == IF S + o < n THEN S + o ELSE S + o - n
  <1>1. (start + S) % n = IF start + S < n THEN start + S ELSE start + S - n
    BY SumOfOffsets
  <1>2. (start + S) % n \in 0..(n - 1) /\ p \in 0..(n - 1)
    BY <1>1
  <1>3. (((start + S) % n) + o) % n =
            IF ((start + S) % n) + o < n THEN ((start + S) % n) + o ELSE ((start + S) % n) + o - n
    BY <1>2, SumOfOffsets
  <1>4. (start + p) % n = IF start + p < n THEN start + p ELSE start + p - n
    BY <1>2, SumOfOffsets
  <1>5. (((start + S) % n) + o) % n = (start + p) % n
    BY <1>1, <1>3, <1>4
  <1> QED
    BY <1>5 DEF JointAt

\* The order of the naturals as a relation has no infinite descent.
NatOrder == {ss \in Nat \X Nat : ss[1] < ss[2]}

\* The order of the naturals, as a set of pairs.
LEMMA NatOrderWellFounded == IsWellFoundedOn(NatOrder, Nat)
  BY NatLessThanWellFounded, Zenon DEF OpToRel, NatOrder

\* The shortest timeout exists and bounds every member's.
LEMMA ShortestTimeout ==
    ASSUME config \in Configs
    PROVE  /\ GroupTimeout \in Nat \ {0}
           /\ GroupTimeout < MaxAge
           /\ \A i \in Members : GroupTimeout <= config.timeout[i]
  <1> DEFINE T == {config.timeout[i] : i \in Members}
  <1>1. /\ config.n \in Joints
        /\ \A i \in Members : config.timeout[i] \in Nat \ {0} /\ config.timeout[i] < MaxAge
    BY JointGroupAssumption DEF Config, Members, Joints
  <1>2. T \subseteq Nat \ {0} /\ T # {}
    BY <1>1 DEF Members, Joints
  <1>3. PICK t \in T : \A u \in T : <<u, t>> \notin NatOrder
    BY <1>2, NatOrderWellFounded, WFMin, Zenon
  <1>4. \A u \in T : t <= u
    <2> SUFFICES ASSUME NEW u \in T, ~(t <= u) PROVE FALSE
      OBVIOUS
    <2> HIDE DEF T
    <2>1. t \in Nat /\ u \in Nat
      BY <1>2
    <2>2. u < t
      BY <2>1
    <2>3. <<u, t>> \in NatOrder
      BY <2>1, <2>2 DEF NatOrder
    <2> QED
      BY <1>3, <2>3
  <1>5. \E x \in T : \A i \in Members : x <= config.timeout[i]
    BY <1>4
  <1>6. GroupTimeout \in T /\ \A i \in Members : GroupTimeout <= config.timeout[i]
    BY <1>5 DEF GroupTimeout
  <1> QED
    BY <1>1, <1>2, <1>6
-----------------------------------------------------------------------------
(* Types.                                                                  *)

\* What a configuration gives the other definitions.
LEMMA ConfigFacts ==
    ASSUME config \in Configs
    PROVE  /\ config \in Config
           /\ config.n \in Nat \ {0} /\ config.n <= MaxJoints
           /\ Members \subseteq Joints
           /\ config.ramp \in Nat
           /\ \A i \in Joints : config.extrapolation[i] \in Nat /\ config.timeout[i] \in Nat
  BY JointGroupAssumption DEF Config, Members, Joints

\* A group that was never configured has no joint.
LEMMA UnconfiguredFacts == Unconfigured.n = 0 /\ Unconfigured.kind = "unconfigured"
  BY DEF Unconfigured

\* A new filter is a filter, and the transitions keep it one.
LEMMA NewFilterTypes == NewFilter \in Filter
  BY JointGroupAssumption DEF NewFilter, Filter, DropoutModes

\* Stopping, resetting, ending and extrapolating keep a filter one.
LEMMA LifeTypes ==
    ASSUME NEW f \in Filter, NEW m \in BOOLEAN, NEW a \in BOOLEAN
    PROVE  /\ EnterStopping(f) \in Filter
           /\ ResetFilter(m, a) \in Filter
           /\ EndedFilter(f) \in Filter
           /\ Extrapolate(f) \in Filter
  <1>1. \A g \in Filter : EnterStopping(g) \in Filter
    BY DEF EnterStopping, Filter, DropoutModes
  <1>2. Extrapolate(f) \in Filter
    BY DEF Extrapolate, Filter, DropoutModes
  <1>3. [NewFilter EXCEPT !.started = TRUE, !.moving = m] \in Filter
    BY NewFilterTypes DEF Filter
  <1>4. EndedFilter(f) \in Filter
    <2>1. /\ 0 \in {age \in Int : age <= MaxAge} /\ NoProfile \in Profiles \cup {NoProfile}
          /\ "idle" \in DropoutModes \cup {"idle", "tracking"}
      BY JointGroupAssumption
    <2> QED
      BY <2>1, Zenon DEF EndedFilter, Filter
  <1> QED
    BY <1>1, <1>2, <1>3, <1>4 DEF ResetFilter

\* A frame's target keeps a filter one.
LEMMA TargetedTypes ==
    ASSUME NEW f \in Filter, NEW a \in Int, a <= MaxAge
    PROVE  Targeted(f, a) \in Filter
  BY DEF Targeted, Filter, DropoutModes

\* drop_out, from any mode, keeps a filter one.
LEMMA DroppedTypes ==
    ASSUME NEW f \in Filter, NEW m \in BOOLEAN, NEW a \in BOOLEAN, NEW e \in Nat
    PROVE  DroppedFrom(f, m, a, e) \in Filter
  <1> DEFINE g == [f EXCEPT !.moving = m, !.target = FALSE, !.age = 0,
                            !.profile = NoProfile, !.dirty = FALSE]
  <1>1. g \in Filter
    <2>1. 0 \in {age \in Int : age <= MaxAge} /\ NoProfile \in Profiles \cup {NoProfile}
      BY JointGroupAssumption
    <2> QED
      BY <2>1, Zenon DEF Filter
  <1>2. Extrapolate(g) \in Filter /\ EnterStopping(g) \in Filter
    BY <1>1, LifeTypes
  <1>3. [g EXCEPT !.mode = "stopped"] \in Filter
    BY <1>1 DEF Filter, DropoutModes
  <1> QED
    BY <1>2, <1>3 DEF DroppedFrom

\* The watchdog at the head of a cycle keeps a filter one.
LEMMA EnteredTypes ==
    ASSUME NEW f \in Filter, NEW t \in Nat, NEW e \in Nat
    PROVE  Entered(f, t, e) \in Filter
  <1> DEFINE g == [f EXCEPT !.age = IF f.target THEN Older(@) ELSE @]
  <1>1. g \in Filter
    BY JointGroupAssumption DEF Filter, Older
  <1>2. Watched(g, t, e) \in Filter
    BY <1>1, LifeTypes DEF Watched
  <1>3. \A h \in Filter : Decayed(h, e) \in Filter
    <2> TAKE h \in Filter
    <2>1. [h EXCEPT !.tick = @ + 1, !.dirty = TRUE] \in Filter
      <3>1. h.tick + 1 \in Nat
        BY DEF Filter
      <3> QED
        BY <3>1, Zenon DEF Filter
    <2> QED
      BY <2>1, LifeTypes DEF Decayed
  <1> QED
    BY <1>2, <1>3 DEF Entered

\* A profile that is sampled or used up is one.
LEMMA ProfileTypes ==
    ASSUME NEW p \in Profiles
    PROVE  /\ p.left \in 0..MaxProfile /\ p.coasts \in BOOLEAN
           /\ [p EXCEPT !.left = 0] \in Profiles
           /\ p.left > 1 => [p EXCEPT !.left = @ - 1] \in Profiles
  <1>1. p.left \in 0..MaxProfile /\ p.coasts \in BOOLEAN
    BY DEF Profiles
  <1>2. ASSUME NEW l \in 0..MaxProfile PROVE [p EXCEPT !.left = l] \in Profiles
    BY <1>2, Zenon DEF Profiles
  <1>3. 0 \in 0..MaxProfile /\ (p.left > 1 => p.left - 1 \in 0..MaxProfile)
    BY <1>1, JointGroupAssumption
  <1> QED
    BY <1>1, <1>2, <1>3

\* A replan, solved, unsolved or deferred, keeps a filter one.
LEMMA ReplanTypes ==
    ASSUME NEW f \in Filter, NEW q \in BOOLEAN, NEW b \in BOOLEAN, NEW r \in Replan(f, q, b)
    PROVE  r[2] \in Filter
  <1>1. \A g \in Solved(f) : g \in Filter
    <2>1. ASSUME NEW p \in Profiles
          PROVE  [f EXCEPT !.dirty = FALSE, !.profile = p] \in Filter
      BY <2>1, Zenon DEF Filter
    <2> QED
      BY <2>1, Zenon DEF Solved
  <1>2. Unsolved(f) \in Filter
    BY DEF Unsolved, Filter
  <1> QED
    BY <1>1, <1>2 DEF Replan

\* Sampling the profile keeps a filter one.
LEMMA AdvanceTypes ==
    ASSUME NEW f \in Filter, NEW g \in Advance(f)
    PROVE  g \in Filter
  <1>1. CASE ~f.profile.planned
    BY <1>1 DEF Advance
  <1>2. CASE f.profile.planned
    <2>1. f.profile \in Profiles
      BY <1>2 DEF Filter, NoProfile
    <2>2. [f EXCEPT !.profile = NoProfile, !.faulty = TRUE] \in Filter
      BY DEF Filter
    <2>3. ASSUME f.profile.left > 1, NEW m \in BOOLEAN
          PROVE  [f EXCEPT !.profile.left = @ - 1, !.moving = m] \in Filter
      <3>1. [f.profile EXCEPT !.left = @ - 1] \in Profiles
        BY <2>1, <2>3, ProfileTypes
      <3> QED
        BY <3>1 DEF Filter
    <2>4. [f EXCEPT !.profile.left = 0, !.moving = f.profile.coasts] \in Filter
      <3>1. [f.profile EXCEPT !.left = 0] \in Profiles /\ f.profile.coasts \in BOOLEAN
        BY <2>1, ProfileTypes
      <3> QED
        BY <3>1 DEF Filter
    <2>5. [f EXCEPT !.moving = f.profile.coasts, !.dirty = TRUE] \in Filter
      BY <2>1 DEF Filter, Profiles
    <2> QED
      BY <1>2, <2>2, <2>3, <2>4, <2>5 DEF Advance
  <1> QED
    BY <1>1, <1>2

\* The tail of a cycle keeps a filter one.
LEMMA CycleTypes ==
    ASSUME NEW f \in Filter
    PROVE  /\ \A g \in AtEnvelope(f) : g \in Filter
           /\ Settled(f) \in Filter
  BY DEF AtEnvelope, Settled, Filter, DropoutModes

\* Ramps of the mixed fields keep their types.
LEMMA MixedTypes ==
    ASSUME NEW m \in Mixed, NEW t \in {"safe", "frame"}, NEW d \in Nat, NEW b \in BOOLEAN
    PROVE  /\ Ramp(m, t, d) \in Mixed
           /\ [Ramp(m, t, d) EXCEPT !.tau = "frame"] \in Mixed
           /\ AdvancedMixed(m, b, d) \in Mixed
           /\ NewMixed \in Mixed
  <1>1. Ramp(m, t, d) \in Mixed
    BY DEF Ramp, Mixed
  <1>2. [Ramp(m, t, d) EXCEPT !.tau = "frame"] \in Mixed
    BY <1>1 DEF Mixed
  <1>3. AdvancedMixed(m, b, d) \in Mixed
    <2> DEFINE tau == IF b /\ m.tick < d
                      THEN IF m.tick + 1 < d THEN "fading" ELSE "zero"
                      ELSE IF b /\ d = 0 THEN "zero" ELSE m.tau
               tick == IF m.tick < m.duration THEN m.tick + 1 ELSE m.tick
    <2>1. tau \in {"zero", "frame", "fading"} /\ tick \in Nat
      BY DEF Mixed
    <2>2. AdvancedMixed(m, b, d) = [m EXCEPT !.tau = tau, !.tick = tick]
      BY DEF AdvancedMixed, Mixed
    <2> HIDE DEF tau, tick
    <2> QED
      BY <2>1, <2>2 DEF Mixed
  <1>4. NewMixed \in Mixed
    BY DEF Mixed, NewMixed
  <1> QED
    BY <1>1, <1>2, <1>3, <1>4

\* A new session is one, and a frame's age stays in its bound.
LEMMA GroupTypes ==
    ASSUME NEW g \in Group
    PROVE  /\ NewGroup \in Group
           /\ Older(g.age) \in 0..MaxAge
  BY JointGroupAssumption DEF Group, NewGroup, Older

\* A member of an open session, and what the session's record gives.
LEMMA MemberFacts ==
    ASSUME TypeOK, config # Unconfigured
    PROVE  config \in Configs
  BY DEF TypeOK

\* A kind of group that has joints has a configuration.
LEMMA KindFacts ==
    ASSUME TypeOK
    PROVE  /\ config.kind \in {"frame", "legacy"} => config \in Configs
           /\ Members # {} => config \in Configs
           /\ config.n \in 0..MaxJoints
           /\ Members \subseteq Joints
  BY ConfigFacts, UnconfiguredFacts, JointGroupAssumption DEF TypeOK, Members, Joints

\* Every step keeps the types.
LEMMA TypeStep == TypeOK /\ [Next]_vars => TypeOK'
  <1> SUFFICES ASSUME TypeOK, [Next]_vars PROVE TypeOK'
    OBVIOUS
  <1> USE DEF TypeOK
  <1>0. group \in Group /\ NewGroup \in Group /\ Older(group.age) \in 0..MaxAge
    BY GroupTypes
  <1>c. /\ config.kind \in {"frame", "legacy"} => config \in Configs
        /\ Members # {} => config \in Configs
        /\ config.n \in 0..MaxJoints
        /\ Members \subseteq Joints
    BY KindFacts
  <1>f. \A j \in Joints : filters[j] \in Filter /\ mixed[j] \in Mixed
    OBVIOUS
  <1>m. NewMixed \in Mixed
    BY DEF NewMixed, Mixed
  <1>1. ASSUME NEW c \in Configs, Configure(c) PROVE TypeOK'
    BY <1>1, <1>0, <1>m DEF Configure, ClearFrameRuntime
  <1>2. CASE EndSession
    <2>1. \A j \in Joints : EndedFilter(filters[j]) \in Filter
      BY <1>f, LifeTypes
    <2> QED
      BY <1>2, <1>0, <2>1 DEF EndSession, ClearFrameRuntime
  <1>3. ASSUME NEW i \in Joints, NEW moving \in BOOLEAN, NEW accelerating \in BOOLEAN,
               Reset(i, moving, accelerating)
        PROVE  TypeOK'
    <2>1. ResetFilter(moving, accelerating) \in Filter
      BY <1>f, <1>3, LifeTypes
    <2>2. filters' \in [Joints -> Filter] /\ waits' \in [Joints -> Nat]
      BY <1>3, <2>1 DEF Reset
    <2>3. /\ ready' \in [Joints -> BOOLEAN] /\ direct' \in [Joints -> BOOLEAN]
          /\ mixed' \in [Joints -> Mixed]
      BY <1>3, <1>m DEF Reset
    <2> QED
      BY <1>3, <2>2, <2>3 DEF Reset
  <1>4. ASSUME NEW i \in Joints, NEW age \in Stamps, PushTarget(i, age) PROVE TypeOK'
    <2>1. Targeted(filters[i], age) \in Filter
      BY <1>f, <1>4, TargetedTypes, JointGroupAssumption
    <2> QED
      BY <1>4, <2>1 DEF PushTarget
  <1>5. CASE PushFrame
    BY <1>5, <1>0 DEF PushFrame, Group
  <1>6. CASE CycleLegacy
    BY <1>6, JointGroupAssumption DEF CycleLegacy, Idle
  <1>7. ASSUME NEW speeds, Activate(speeds) PROVE TypeOK'
    <2>0. config \in Configs
      BY <1>7, <1>c DEF Activate, StartCycle, IsFrame
    <2>1. group' \in Group
      <3>1. 0 \in 0..MaxAge
        BY JointGroupAssumption
      <3> QED
        BY <1>7, <1>0, <3>1, Zenon DEF Activate, Group
    <2>2. mixed' \in [Joints -> Mixed]
      <3>1. \A j \in Joints : [Ramp(mixed[j], "frame", config.ramp) EXCEPT !.tau = "frame"] \in Mixed
        BY <1>f, <2>0, ConfigFacts, MixedTypes
      <3> QED
        BY <1>7, <1>f, <3>1 DEF Activate
    <2>3. \A j \in Joints : Targeted(filters[j], -1) \in Filter
      BY <1>f, TargetedTypes, JointGroupAssumption
    <2>4. filters' \in [Joints -> Filter] /\ direct' \in [Joints -> BOOLEAN]
      <3>1. CASE config.mode = "direct"
        <4>1. \A j \in Joints :
                  (IF j \in Members THEN j \in speeds ELSE direct[j]) \in BOOLEAN
          <5> TAKE j \in Joints
          <5>1. direct[j] \in BOOLEAN /\ (j \in speeds) \in BOOLEAN
            OBVIOUS
          <5> QED
            BY <5>1, Zenon
        <4> QED
          BY <1>7, <3>1, <4>1, Zenon DEF Activate
      <3>2. CASE config.mode # "direct"
        BY <1>7, <1>f, <2>3, <3>2 DEF Activate
      <3> QED
        BY <3>1, <3>2
    <2>5. at' \in Idle..MaxJoints
      BY <1>7, <2>0, ConfigFacts, JointGroupAssumption DEF Activate, Idle
    <2> QED
      BY <1>7, <2>1, <2>2, <2>4, <2>5 DEF Activate, StartCycle
  <1>8. ASSUME NEW turning, Dropout(turning) PROVE TypeOK'
    <2>0. config \in Configs
      BY <1>8, <1>c DEF Dropout, StartCycle, IsFrame
    <2>1. group' \in Group
      BY <1>8, <1>0 DEF Dropout, Group
    <2>2. mixed' \in [Joints -> Mixed]
      <3>1. \A j \in Joints : Ramp(mixed[j], "safe", config.extrapolation[j]) \in Mixed
        BY <1>f, <2>0, ConfigFacts, MixedTypes
      <3> QED
        BY <1>8, <1>f, <3>1 DEF Dropout
    <2>3. filters' \in [Joints -> Filter]
      <3>1. ASSUME NEW j \in Joints
            PROVE  DroppedFrom(filters[j],
                               IF config.mode = "direct" THEN direct[j] ELSE filters[j].moving,
                               j \in turning, config.extrapolation[j]) \in Filter
        <4>1. (IF config.mode = "direct" THEN direct[j] ELSE filters[j].moving) \in BOOLEAN
          BY <1>f, <3>1 DEF Filter
        <4>2. (j \in turning) \in BOOLEAN
          OBVIOUS
        <4> QED
          BY <1>f, <2>0, <3>1, <4>1, <4>2, ConfigFacts, DroppedTypes, Zenon
      <3> QED
        BY <1>8, <1>f, <3>1 DEF Dropout
    <2> QED
      BY <1>8, <2>1, <2>2, <2>3, JointGroupAssumption DEF Dropout, StartCycle, Idle
  <1>9. CASE Continue
    <2>0. config \in Configs
      BY <1>9, <1>c DEF Continue, StartCycle, IsFrame
    <2>1. group' \in Group
      BY <1>9, <1>0 DEF Continue, Group
    <2>2. at' \in Idle..MaxJoints
      BY <1>9, <2>0, ConfigFacts, JointGroupAssumption DEF Continue, Idle
    <2> QED
      BY <1>9, <2>1, <2>2 DEF Continue, StartCycle
  <1>10. CASE CycleFilter
    <2>0. /\ config \in Configs /\ config.n \in Nat \ {0} /\ config.n <= MaxJoints
          /\ at \in Nat /\ at < config.n
      BY <1>10, <1>c, ConfigFacts DEF CycleFilter, Members
    <2>1. Current \in Joints
      <3>1. group.start + at \in Nat
        BY <1>0, <2>0 DEF Group
      <3>2. (group.start + at) % config.n \in 0..(config.n - 1)
        BY <2>0, <3>1, RemainderInRange, Zenon
      <3> HIDE DEF TypeOK
      <3> DEFINE o == (group.start + at) % config.n
      <3>3. o \in 0..(config.n - 1)
        BY <3>2
      <3> HIDE DEF o
      <3>4. o + 1 \in 1..MaxJoints
        BY <2>0, <3>3, JointGroupAssumption
      <3> QED
        BY <3>4 DEF o, Current, Joints
    <2> DEFINE j == Current
    <2>a. PICK f \in AtEnvelope(Entered(filters[j], config.timeout[j], config.extrapolation[j])) :
              \E r \in Replan(f, config.quintic, Allowed) :
                  \E g \in Advance(r[2]) : CycleJoint(j, r[1], Settled(g))
      BY <1>10 DEF CycleFilter
    <2>b. PICK r \in Replan(f, config.quintic, Allowed) :
              \E g \in Advance(r[2]) : CycleJoint(j, r[1], Settled(g))
      BY <2>a
    <2>2. PICK g \in Advance(r[2]) : CycleJoint(j, r[1], Settled(g))
      BY <2>b
    <2>3. f \in Filter
      BY <1>f, <2>0, <2>1, ConfigFacts, EnteredTypes, CycleTypes
    <2>4. r[2] \in Filter
      <3>1. config.quintic \in BOOLEAN /\ Allowed \in BOOLEAN
        BY <2>0, ConfigFacts DEF Config, Allowed
      <3> QED
        BY <2>3, <3>1, ReplanTypes
    <2>5. Settled(g) \in Filter /\ Settled(g).moving \in BOOLEAN
      <3>1. Settled(g) \in Filter
        BY <2>4, AdvanceTypes, CycleTypes
      <3> QED
        BY <3>1 DEF Filter
    <2>6. at' \in Idle..MaxJoints
      <3>1. at' = at + 1
        BY <1>10, Zenon DEF CycleFilter
      <3> QED
        BY <2>0, <3>1, JointGroupAssumption DEF Idle
    <2>j. j \in Joints
      BY <2>1
    <2> HIDE DEF j
    <2>7. filters' \in [Joints -> Filter] /\ direct' \in [Joints -> BOOLEAN]
      <3>1. filters' \in [Joints -> Filter]
        BY <2>2, <2>5, <2>j DEF CycleJoint
      <3>2. [direct EXCEPT ![j] = Settled(g).moving] \in [Joints -> BOOLEAN]
        BY <2>5, <2>j, Zenon
      <3> QED
        BY <2>2, <3>1, <3>2, Zenon DEF CycleJoint
    <2>8. slow' \in Nat /\ waits' \in [Joints -> Nat]
      BY <2>2, <2>j DEF CycleJoint
    <2> QED
      BY <1>10, <2>6, <2>7, <2>8 DEF CycleFilter
  <1>11. CASE FinishCycle
    <2>0. config \in Configs
      BY <1>11, <1>c DEF FinishCycle, Members
    <2>1. NextStart \in Nat
      <3>1. config.n \in Nat \ {0} /\ group.start + SlowReplansPerCycle \in Nat
        BY <1>0, <2>0, ConfigFacts, JointGroupAssumption DEF Group
      <3>2. NextStart \in 0..(config.n - 1)
        BY <3>1, RemainderInRange, Zenon DEF NextStart
      <3> QED
        BY <3>1, <3>2
    <2>2. group' \in Group
      BY <1>11, <1>0, <2>1 DEF FinishCycle, Group
    <2>3. mixed' \in [Joints -> Mixed]
      <3>1. \A j \in Joints : AdvancedMixed(mixed[j], group.dropping, config.extrapolation[j]) \in Mixed
        <4>1. group.dropping \in BOOLEAN
          BY <1>0 DEF Group
        <4> QED
          BY <1>f, <2>0, <4>1, ConfigFacts, MixedTypes, Zenon
      <3> QED
        BY <1>11, <1>f, <3>1 DEF FinishCycle
    <2>4. at' \in Idle..MaxJoints
      BY <1>11, JointGroupAssumption DEF FinishCycle, Idle
    <2> QED
      BY <1>11, <2>2, <2>3, <2>4 DEF FinishCycle
  <1>12. CASE UNCHANGED vars
    BY <1>12 DEF vars
  <1> QED
    BY <1>1, <1>2, <1>3, <1>4, <1>5, <1>6, <1>7, <1>8, <1>9, <1>10, <1>11, <1>12, Zenon
       DEF Next, Cycle

\* Every field of the group, of its filters and of its mixed fields keeps its type.
THEOREM JointGroupTypes == Spec => []TypeOK
  <1>1. Init => TypeOK
    BY NewFilterTypes, JointGroupAssumption
       DEF Init, TypeOK, NewMixed, Mixed, NewGroup, Group, Idle
  <1> QED
    BY <1>1, TypeStep, PTL DEF Spec
-----------------------------------------------------------------------------
(* The ration of slow replans.                                             *)

\* A joint that has waited w cycles and comes at offset o of the next cycle
\* satisfies w * S + o < n; once it has had its turn in a cycle it either does
\* not wait any more or was far enough behind to come up S offsets earlier next.
Ahead(o) == waits[JointAt(group.start, o, config.n)] * SlowReplansPerCycle + o < config.n
Served(o) ==
    LET w == waits[JointAt(group.start, o, config.n)]
    IN  \/ w = 0
        \/ /\ o >= SlowReplansPerCycle
           /\ w * SlowReplansPerCycle + o - SlowReplansPerCycle < config.n

RationInv ==
    /\ config.n > 0 => group.start \in 0..(config.n - 1)
    /\ at <= config.n
    /\ at >= 0 => slow <= at
    /\ ~Rationed => \A i \in Joints : waits[i] = 0
    /\ Rationed => /\ \A o \in 0..(config.n - 1) : o >= at => Ahead(o)
                   /\ \A o \in 0..(config.n - 1) : o < at => Served(o)

\* A joint that has waited for nothing satisfies both.
LEMMA NoWait ==
    ASSUME NEW w, NEW o \in Nat, NEW n \in Nat, w = 0, o < n
    PROVE  w * SlowReplansPerCycle + o < n
  BY JointGroupAssumption

\* The arithmetic of one more cycle of waiting.
LEMMA OneMoreWait ==
    ASSUME NEW w \in Nat, NEW S \in Nat
    PROVE  (w + 1) * S = w * S + S /\ w * S \in Nat
  BY SMT

\* A joint that waits would need more replans before it than there are joints.
LEMMA RationGivesBound ==
    ASSUME TypeOK, RationInv
    PROVE  ReplannedInTime
  <1> SUFFICES ASSUME IsFrame, NEW i \in Members
               PROVE  waits[i] * SlowReplansPerCycle < config.n
    BY DEF ReplannedInTime
  <1>1. config.n \in Nat \ {0} /\ waits[i] \in Nat /\ i \in Joints
    BY KindFacts, ConfigFacts DEF TypeOK, Members
  <1>z. waits[i] = 0 => waits[i] * SlowReplansPerCycle = 0
    BY JointGroupAssumption
  <1>2. CASE ~Rationed
    BY <1>1, <1>2, <1>z DEF RationInv
  <1>3. CASE Rationed
    <2>1. group.start \in 0..(config.n - 1)
      BY <1>1 DEF RationInv
    <2>2. PICK o \in 0..(config.n - 1) : JointAt(group.start, o, config.n) = i
      BY <1>1, <2>1, RotationIsBijection, Zenon DEF Members
    <2>3. waits[i] * SlowReplansPerCycle \in Nat
      BY <1>1, OneMoreWait, JointGroupAssumption
    <2>4. CASE o >= at
      <3>1. Ahead(o)
        BY <1>3, <2>4 DEF RationInv
      <3> QED
        BY <1>1, <2>2, <2>3, <3>1 DEF Ahead
    <2>5. CASE o < at
      <3>1. Served(o)
        BY <1>3, <2>5 DEF RationInv
      <3> QED
        BY <1>1, <1>z, <2>2, <2>3, <3>1, JointGroupAssumption DEF Served
    <2> QED
      BY <2>4, <2>5 DEF TypeOK, Idle
  <1> QED
    BY <1>2, <1>3

\* Nobody waits: the order may begin anywhere.
Waitless == /\ config.n \in 0..MaxJoints /\ at = Idle /\ group.start = 0
            /\ \A i \in Joints : waits[i] = 0

\* Where nobody waits, the ration is kept.
LEMMA NobodyWaits == Waitless => RationInv
  <1> SUFFICES ASSUME Waitless PROVE RationInv
    OBVIOUS
  <1>1. ASSUME NEW o \in 0..(config.n - 1) PROVE Ahead(o)
    <2>1. JointAt(group.start, o, config.n) \in 1..config.n
      <3>1. config.n \in Nat \ {0} /\ group.start \in 0..(config.n - 1)
        BY JointGroupAssumption DEF Waitless
      <3> QED
        BY <3>1, RotationIsBijection
    <2>2. waits[JointAt(group.start, o, config.n)] = 0
      BY <2>1, JointGroupAssumption DEF Joints, Waitless
    <2> QED
      BY <2>2, NoWait, JointGroupAssumption DEF Ahead, Waitless
  <1> QED
    BY <1>1, JointGroupAssumption DEF RationInv, Idle, Waitless

\* A step that neither moves the order nor lets a joint wait keeps it.
LEMMA SameOrder ==
    ASSUME config' = config, waits' = waits, group'.start = group.start
    PROVE  /\ \A o : Ahead(o)' <=> Ahead(o)
           /\ \A o : Served(o)' <=> Served(o)
           /\ Rationed' <=> Rationed
  BY DEF Ahead, Served, Rationed, IsFrame

\* The loop begins: everybody is still ahead.
LEMMA RationBegins ==
    ASSUME TypeOK, RationInv, config' = config, waits' = waits, group'.start = group.start,
           at = Idle, slow' = 0, at' \in {0, config.n}, Rationed => at' = 0
    PROVE  RationInv'
  <1>1. config.n \in Nat
    BY KindFacts
  <1>2. Rationed => \A o \in 0..(config.n - 1) : Ahead(o)
    BY DEF RationInv, Idle
  <1> QED
    BY <1>1, <1>2, SameOrder DEF RationInv

\* A step between cycles that lets nobody wait longer.
LEMMA RationKept ==
    ASSUME TypeOK, RationInv, config' = config, group'.start = group.start,
           at' = at, slow' = slow, at = Idle, waits' = waits
    PROVE  RationInv'
  BY SameOrder DEF RationInv

\* A replan is only deferred when the ration is used up.
LEMMA DeferredIsRationed ==
    ASSUME NEW f, NEW q, NEW b, NEW r \in Replan(f, q, b), r[1] = "deferred"
    PROVE  b = FALSE \/ b \notin BOOLEAN
  <1>1. CASE ~f.dirty
    BY <1>1 DEF Replan
  <1>2. CASE f.dirty
    BY <1>2 DEF Replan
  <1> QED
    BY <1>1, <1>2

\* A joint's turn spends one replan, or adds to its own wait.
LEMMA RationFilter == ASSUME TypeOK, RationInv, CycleFilter PROVE RationInv'
  <1> DEFINE n == config.n
             S == SlowReplansPerCycle
             j == Current
             J(o) == JointAt(group.start, o, config.n)
  <1>1. /\ config \in Configs /\ n \in Nat \ {0} /\ n <= MaxJoints /\ at \in 0..(n - 1)
        /\ group.start \in 0..(n - 1) /\ S \in Nat \ {0}
        /\ slow \in Nat /\ slow <= at
    <2>1. at \in 0..(n - 1)
      BY DEF CycleFilter
    <2>2. config \in Configs
      BY <2>1, KindFacts, UnconfiguredFacts DEF TypeOK, Members
    <2> QED
      BY <2>1, <2>2, ConfigFacts, JointGroupAssumption DEF TypeOK, RationInv
  <1>2. /\ at' = at + 1 /\ config' = config /\ group' = group
        /\ \E result, b : /\ waits' = [waits EXCEPT ![j] = IF result = "deferred" THEN @ + 1 ELSE 0]
                          /\ slow' = IF result = "slow" THEN slow + 1 ELSE slow
                          /\ result = "deferred" => ~Allowed
    <2>1. at' = at + 1 /\ config' = config /\ group' = group
      BY DEF CycleFilter
    <2>2. PICK f \in AtEnvelope(Entered(filters[j], config.timeout[j], config.extrapolation[j])) :
              \E r \in Replan(f, config.quintic, Allowed) :
                  \E g \in Advance(r[2]) : CycleJoint(j, r[1], Settled(g))
      BY DEF CycleFilter
    <2>3. PICK r \in Replan(f, config.quintic, Allowed) :
              \E g \in Advance(r[2]) : CycleJoint(j, r[1], Settled(g))
      BY <2>2
    <2>4. r[1] = "deferred" => ~Allowed
      BY <2>3, DeferredIsRationed DEF Allowed
    <2> QED
      BY <2>1, <2>3, <2>4 DEF CycleJoint
  <1>3. PICK result : /\ waits' = [waits EXCEPT ![j] = IF result = "deferred" THEN @ + 1 ELSE 0]
                      /\ slow' = IF result = "slow" THEN slow + 1 ELSE slow
                      /\ result = "deferred" => ~Allowed
    BY <1>2
  <1>4. /\ \A o \in 0..(n - 1) : J(o) \in Joints
        /\ \A o \in 0..(n - 1) : J(o) = j => o = at
        /\ j = J(at)
    <2>1. j = J(at)
      BY DEF Current, JointAt
    <2>2. \A o \in 0..(n - 1) : J(o) \in 1..n
      BY <1>1, RotationIsBijection, Zenon
    <2>3. \A o \in 0..(n - 1) : J(o) = J(at) => o = at
      BY <1>1, RotationIsBijection, Zenon
    <2> HIDE DEF J, j
    <2> QED
      BY <1>1, <2>1, <2>2, <2>3, JointGroupAssumption DEF Joints
  <1>5. waits \in [Joints -> Nat]
    BY DEF TypeOK
  <1> HIDE DEF j
  <1>6. CASE ~Rationed
    <2>1. result # "deferred" /\ \A i \in Joints : waits[i] = 0
      BY <1>3, <1>6 DEF Allowed, RationInv
    <2>2. \A i \in Joints : waits'[i] = 0
      BY <1>3, <1>5, <2>1
    <2>3. ~Rationed'
      BY <1>2, <1>6 DEF Rationed, IsFrame
    <2> QED
      BY <1>1, <1>2, <1>3, <2>2, <2>3 DEF RationInv
  <1>7. CASE Rationed
    <2>1. Rationed'
      BY <1>2, <1>7 DEF Rationed, IsFrame
    <2>2. ASSUME NEW o \in 0..(n - 1), o # at PROVE waits'[J(o)] = waits[J(o)]
      BY <1>3, <1>4, <1>5, <2>2
    <2>3. ASSUME NEW o \in 0..(n - 1), o >= at' PROVE Ahead(o)'
      <3>1. Ahead(o) /\ o # at
        BY <1>1, <1>2, <1>7, <2>3 DEF RationInv
      <3> QED
        BY <1>2, <2>2, <3>1 DEF Ahead
    <2>4. ASSUME NEW o \in 0..(n - 1), o < at PROVE Served(o)'
      <3>1. Served(o) /\ o # at
        BY <1>1, <1>7, <2>4 DEF RationInv
      <3> QED
        BY <1>2, <2>2, <3>1 DEF Served
    <2>5. ASSUME NEW o \in 0..(n - 1), o = at PROVE Served(o)'
      <3> DEFINE w == waits[j]
                 v == waits'[j]
      <3>1. j \in Joints /\ w \in Nat
        BY <1>1, <1>4, <1>5
      <3>2. v = IF result = "deferred" THEN w + 1 ELSE 0
        BY <1>3, <1>5, <3>1
      <3>3. w * S + at < n
        BY <1>1, <1>4, <1>7 DEF RationInv, Ahead
      <3>4. w * S \in Nat /\ (w + 1) * S = w * S + S
        BY <1>1, <3>1, OneMoreWait
      <3>5. CASE result = "deferred"
        <4>1. at >= S
          BY <1>1, <1>3, <1>7, <3>5 DEF Allowed
        <4>2. v * S = w * S + S
          BY <3>2, <3>4, <3>5
        <4> HIDE DEF w, v
        <4>3. v * S + at - S < n
          BY <1>1, <3>3, <3>4, <4>2
        <4> QED
          BY <1>2, <1>4, <2>5, <4>1, <4>3 DEF Served, v
      <3>6. CASE result # "deferred"
        BY <1>2, <1>4, <2>5, <3>2, <3>6 DEF Served
      <3> QED
        BY <3>5, <3>6
    <2>6. \A o \in 0..(n - 1) : o < at' => Served(o)'
      BY <1>1, <1>2, <2>4, <2>5
    <2> QED
      BY <1>1, <1>2, <1>3, <2>1, <2>3, <2>6 DEF RationInv
  <1> QED
    BY <1>6, <1>7

\* The rotation at the end of a cycle moves every joint forward by what was spent.
LEMMA RationFinish == ASSUME TypeOK, RationInv, FinishCycle PROVE RationInv'
  <1> DEFINE n == config.n
             S == SlowReplansPerCycle
  <1>1. /\ n \in Nat \ {0} /\ at = n /\ group.start \in 0..(n - 1) /\ S \in Nat \ {0}
        /\ config' = config /\ waits' = waits /\ at' = Idle /\ n <= MaxJoints
    BY KindFacts, JointGroupAssumption DEF FinishCycle, RationInv
  <1>2. CASE ~Rationed
    <2>1. group' = group /\ ~Rationed'
      BY <1>1, <1>2 DEF FinishCycle, Rationed, IsFrame
    <2> QED
      BY <1>1, <1>2, <2>1 DEF RationInv, Idle
  <1>3. CASE Rationed
    <2>1. group'.start = (group.start + S) % n /\ Rationed'
      BY <1>1, <1>3 DEF FinishCycle, Rationed, IsFrame, NextStart, TypeOK, Group
    <2>2. group'.start \in 0..(n - 1)
      <3>1. group.start + S \in Nat
        BY <1>1
      <3> QED
        BY <1>1, <2>1, <3>1, RemainderInRange, Zenon
    <2>3. \A o \in 0..(n - 1) : Served(o)
      BY <1>1, <1>3 DEF RationInv
    <2>4. ASSUME NEW o \in 0..(n - 1) PROVE Ahead(o)'
      <3> DEFINE i == JointAt(group'.start, o, n)
                 w == waits[i]
      <3>1. w * S + o < n
        <4>1. i \in 1..n
          BY <1>1, <2>2, RotationIsBijection, Zenon
        <4>2. PICK p \in 0..(n - 1) : JointAt(group.start, p, n) = i
          BY <1>1, <4>1, RotationIsBijection, Zenon
        <4>3. w = 0 \/ (p >= S /\ w * S + p - S < n)
          BY <2>3, <4>2 DEF Served
        <4>4. w \in Nat
          BY <1>1, <4>1, JointGroupAssumption DEF TypeOK, Joints
        <4>5. CASE w = 0
          BY <1>1, <4>5, NoWait
        <4>6. CASE w # 0
          <5>1. S \in 0..(n - 1)
            BY <1>1, <4>3, <4>6
          <5> DEFINE q == IF S + o < n THEN S + o ELSE S + o - n
          <5>2. i = JointAt(group.start, q, n)
            <6>1. JointAt((group.start + S) % n, o, n) = JointAt(group.start, q, n)
              BY <1>1, <5>1, RotationMoves, Zenon
            <6> HIDE DEF q
            <6> QED
              BY <2>1, <6>1, Zenon
          <5>3. q \in 0..(n - 1) /\ (q >= S => q = S + o)
            BY <1>1, <5>1
          <5> HIDE DEF q, i, w
          <5>4. p = q
            BY <1>1, <4>2, <5>2, <5>3, RotationIsBijection, Zenon
          <5>5. w * S \in Nat
            BY <1>1, <4>4, OneMoreWait
          <5> QED
            BY <1>1, <4>3, <4>6, <5>3, <5>4, <5>5
        <4> QED
          BY <4>5, <4>6
      <3> QED
        BY <1>1, <3>1 DEF Ahead
    <2> QED
      BY <1>1, <2>1, <2>2, <2>4 DEF RationInv, Idle
  <1> QED
    BY <1>2, <1>3

\* A reset joint does not wait.
LEMMA RationReset ==
    ASSUME TypeOK, RationInv, NEW i \in Joints, NEW moving, NEW accelerating,
           Reset(i, moving, accelerating)
    PROVE  RationInv'
  <1>1. /\ config' = config /\ group' = group /\ at' = at /\ slow' = slow /\ at = Idle
        /\ waits' = [waits EXCEPT ![i] = 0] /\ waits \in [Joints -> Nat]
    BY DEF Reset, TypeOK
  <1>2. Rationed' <=> Rationed
    BY <1>1 DEF Rationed, IsFrame
  <1>3. config.n \in Nat
    BY KindFacts
  <1>4. ASSUME NEW o \in 0..(config.n - 1), Ahead(o) PROVE Ahead(o)'
    <2> DEFINE j == JointAt(group.start, o, config.n)
    <2>0. j \in Joints
      <3>1. config.n \in Nat \ {0} /\ config.n <= MaxJoints /\ group.start \in 0..(config.n - 1)
        BY <1>3, KindFacts DEF RationInv
      <3>2. j \in 1..config.n
        BY <3>1, RotationIsBijection, Zenon
      <3> QED
        BY <3>1, <3>2, JointGroupAssumption DEF Joints
    <2>1. CASE j = i
      <3>1. waits'[j] = 0
        BY <1>1, <2>0, <2>1
      <3>2. waits'[j] * SlowReplansPerCycle + o < config.n
        BY <1>3, <3>1, NoWait
      <3> QED
        BY <1>1, <3>2 DEF Ahead
    <2>2. CASE j # i
      <3>1. waits'[j] = waits[j]
        BY <1>1, <2>0, <2>2
      <3> QED
        BY <1>1, <1>4, <3>1 DEF Ahead
    <2> QED
      BY <2>1, <2>2
  <1> QED
    BY <1>1, <1>2, <1>3, <1>4 DEF RationInv, Idle

\* Every step keeps the account of replans and waits.
LEMMA RationStep == TypeOK /\ RationInv /\ [Next]_vars => RationInv'
  <1> SUFFICES ASSUME TypeOK, RationInv, [Next]_vars PROVE RationInv'
    OBVIOUS
  <1>0. group \in Group /\ config.n \in 0..MaxJoints
    BY KindFacts DEF TypeOK
  <1>1. ASSUME NEW c \in Configs, Configure(c) PROVE RationInv'
    <2>1. c.n \in 0..MaxJoints
      BY JointGroupAssumption DEF Config, Joints
    <2>2. Waitless'
      BY <1>1, <2>1 DEF Configure, ClearFrameRuntime, Waitless, NewGroup
    <2> QED
      BY <2>2, NobodyWaits, PTL
  <1>2. CASE EndSession
    <2>1. Waitless'
      BY <1>0, <1>2 DEF EndSession, ClearFrameRuntime, Waitless, NewGroup
    <2> QED
      BY <2>1, NobodyWaits, PTL
  <1>3. ASSUME NEW i \in Joints, NEW moving \in BOOLEAN, NEW accelerating \in BOOLEAN,
               Reset(i, moving, accelerating)
        PROVE  RationInv'
    BY <1>3, RationReset
  <1>4. ASSUME NEW i \in Joints, NEW age \in Stamps, PushTarget(i, age) PROVE RationInv'
    BY <1>4, RationKept DEF PushTarget
  <1>5. CASE PushFrame
    BY <1>0, <1>5, RationKept DEF PushFrame, Group
  <1>6. CASE CycleLegacy
    BY <1>6, RationBegins DEF CycleLegacy
  <1>7. ASSUME NEW speeds, Activate(speeds) PROVE RationInv'
    BY <1>0, <1>7, RationBegins DEF Activate, StartCycle, Group, Rationed
  <1>8. ASSUME NEW turning, Dropout(turning) PROVE RationInv'
    BY <1>0, <1>8, RationBegins DEF Dropout, StartCycle, Group
  <1>9. CASE Continue
    BY <1>0, <1>9, RationBegins DEF Continue, StartCycle, Group, Rationed
  <1>10. CASE CycleFilter
    BY <1>10, RationFilter
  <1>11. CASE FinishCycle
    BY <1>11, RationFinish
  <1>12. CASE UNCHANGED vars
    BY <1>12, SameOrder DEF vars, RationInv
  <1> QED
    BY <1>1, <1>2, <1>3, <1>4, <1>5, <1>6, <1>7, <1>8, <1>9, <1>10, <1>11, <1>12, Zenon
       DEF Next, Cycle

\* The ration is fair: with a rotation by S of n joints, no joint is deferred in
\* as many cycles in a row as S needs to cover them all.
THEOREM RationIsFair == Spec => []ReplannedInTime
  <1>1. Init => Waitless
    BY JointGroupAssumption, UnconfiguredFacts DEF Init, Waitless, NewGroup
  <1>2. Init => RationInv
    BY <1>1, NobodyWaits
  <1>3. TypeOK /\ RationInv => ReplannedInTime
    BY RationGivesBound
  <1> QED
    BY <1>2, <1>3, JointGroupTypes, RationStep, PTL DEF Spec
-----------------------------------------------------------------------------
(* The dropout of the whole group.                                         *)

\* A step of a filter that leaves its mode, target and age alone.
Kept(f, g) == g.mode = f.mode /\ g.target = f.target /\ g.age = f.age

\* A replan leaves mode, target and age alone.
LEMMA ReplanKeeps ==
    ASSUME NEW f \in Filter, NEW q \in BOOLEAN, NEW b \in BOOLEAN, NEW r \in Replan(f, q, b)
    PROVE  Kept(f, r[2])
  <1>1. \A g \in Solved(f) : Kept(f, g)
    BY DEF Solved, Kept, Filter
  <1>2. Kept(f, Unsolved(f)) /\ Kept(f, f)
    BY DEF Unsolved, Kept, Filter
  <1> QED
    BY <1>1, <1>2 DEF Replan

\* So does sampling the profile.
LEMMA AdvanceKeeps ==
    ASSUME NEW f \in Filter, NEW g \in Advance(f)
    PROVE  Kept(f, g)
  BY DEF Advance, Kept, Filter

\* One cycle of a filter keeps its target; a joint on the dropout ladder stays on
\* it, and a joint whose target is not older than its timeout goes on tracking.
LEMMA CycleKeeps ==
    ASSUME NEW f \in Filter, NEW t \in Nat, NEW e \in Nat, NEW q \in BOOLEAN, NEW b \in BOOLEAN,
           NEW h \in AtEnvelope(Entered(f, t, e)), NEW r \in Replan(h, q, b), NEW g \in Advance(r[2])
    PROVE  /\ Settled(g).target = f.target
           /\ f.mode \in DropoutModes => Settled(g).mode \in DropoutModes
           /\ f.mode = "tracking" /\ f.target /\ Older(f.age) <= t =>
                  Settled(g).mode = "tracking" /\ Settled(g).age = Older(f.age)
  <1> DEFINE d == Entered(f, t, e)
  <1>1. d \in Filter
    BY EnteredTypes
  <1>2. /\ d.target = f.target
        /\ f.mode \in DropoutModes => d.mode \in DropoutModes
        /\ f.mode = "tracking" /\ f.target /\ Older(f.age) <= t =>
               d.mode = "tracking" /\ d.age = Older(f.age)
    <2> DEFINE a == [f EXCEPT !.age = IF f.target THEN Older(@) ELSE @]
    <2>1. /\ a \in Filter /\ a.target = f.target /\ a.mode = f.mode
          /\ a.age = IF f.target THEN Older(f.age) ELSE f.age
      BY JointGroupAssumption DEF Filter, Older
    <2>2. d = Decayed(Watched(a, t, e), e)
      BY DEF Entered
    <2> HIDE DEF a, d
    <2> DEFINE w == Watched(a, t, e)
    <2>3. /\ w \in Filter /\ w.target = a.target
          /\ a.mode # "tracking" => w = a
          /\ a.age <= t => w = a
      <3>1. w \in Filter
        BY <2>1, LifeTypes DEF Watched
      <3>2. a.mode # "tracking" \/ a.age <= t => w = a
        <4>1. a.age \in Int
          BY <2>1 DEF Filter
        <4> QED
          BY <4>1 DEF Watched
      <3>3. Extrapolate(a).target = a.target /\ EnterStopping(a).target = a.target
        BY <2>1 DEF Extrapolate, EnterStopping, Filter
      <3>4. w.target = a.target
        BY <3>3 DEF Watched
      <3> QED
        BY <3>1, <3>2, <3>4
    <2> HIDE DEF w
    <2>4. /\ Decayed(w, e).target = w.target
          /\ w.mode # "extrapolating" => Decayed(w, e) = w
          /\ w.mode = "extrapolating" => Decayed(w, e).mode \in {"extrapolating", "stopping"}
      BY <2>3 DEF Decayed, EnterStopping, Filter
    <2> QED
      BY <2>1, <2>2, <2>3, <2>4 DEF w, DropoutModes
  <1> HIDE DEF d
  <1>3. Kept(d, h) /\ h \in Filter
    BY <1>1, CycleTypes DEF d, AtEnvelope, Kept, Filter
  <1>4. Kept(h, r[2]) /\ r[2] \in Filter
    BY <1>3, ReplanKeeps, ReplanTypes
  <1>5. Kept(r[2], g) /\ g \in Filter
    BY <1>4, AdvanceKeeps, AdvanceTypes
  <1>6. /\ Settled(g).target = g.target /\ Settled(g).age = g.age
        /\ g.mode # "stopping" => Settled(g).mode = g.mode
        /\ g.mode = "stopping" => Settled(g).mode \in {"stopping", "stopped"}
    BY <1>5 DEF Settled, Filter
  <1> QED
    BY <1>2, <1>3, <1>4, <1>5, <1>6 DEF Kept, DropoutModes

TracksAt(i, age) == filters[i].mode = "tracking" /\ filters[i].target /\ filters[i].age = age

\* The invariant behind DropsTogether: the age of every joint's target is the age
\* of the group's frame, one less until the joint has had its turn in a cycle, so
\* that no joint's own watchdog, whose timeout is no shorter, fires before the
\* group's; and no joint holds a target that could refuse the next frame.
DropInv ==
    /\ group.active => group.cycled
    /\ IsFrame /\ (group.active => group.dropping) => \A i \in Members : ~filters[i].target
    /\ IsFrame /\ group.active =>
           /\ group.dropping <=> group.age > GroupTimeout
           /\ group.dropping => \A i \in Members : filters[i].mode \in DropoutModes
           /\ ~group.dropping /\ config.mode = "upsample" =>
                  /\ Between => \A i \in Members : TracksAt(i, group.age)
                  /\ ~Between => \A o \in 0..(config.n - 1) :
                         TracksAt(JointAt(group.start, o, config.n),
                                  IF o < at THEN group.age ELSE group.age - 1)

\* Between cycles the invariant says what DropsTogether promises.
LEMMA DropInvGives == DropInv => DropsTogether
  BY DEF DropInv, DropsTogether, DroppedOut, TracksAt

\* Every member has its turn, and only members have one.
LEMMA TurnsAreMembers ==
    ASSUME TypeOK, RationInv, config.n > 0
    PROVE  /\ group.start \in 0..(config.n - 1) /\ config.n \in Nat \ {0}
           /\ \A o \in 0..(config.n - 1) : JointAt(group.start, o, config.n) \in Members
           /\ \A o, p \in 0..(config.n - 1) :
                  JointAt(group.start, o, config.n) = JointAt(group.start, p, config.n) => o = p
           /\ \A i \in Members : \E o \in 0..(config.n - 1) : JointAt(group.start, o, config.n) = i
  <1>1. group.start \in 0..(config.n - 1) /\ config.n \in Nat \ {0}
    BY KindFacts DEF RationInv
  <1> QED
    BY <1>1, RotationIsBijection, Zenon DEF Members

\* Nothing of the frame session is under way.
Inactive == ~group.active /\ (IsFrame => \A i \in Members : ~filters[i].target)

\* Without a session there is nothing to keep in step.
LEMMA InactiveIsSafe == Inactive => DropInv
  BY DEF Inactive, DropInv

\* A frame sets the target of every member at age 0.
LEMMA DropActivate ==
    ASSUME TypeOK, RationInv, DropInv, NEW speeds, Activate(speeds)
    PROVE  DropInv'
  <1>1. /\ config \in Configs /\ config' = config /\ group \in Group /\ IsFrame /\ Between
        /\ Members \subseteq Joints
    BY KindFacts DEF Activate, StartCycle, IsFrame, Between, TypeOK
  <1>2. /\ group'.active /\ ~group'.dropping /\ group'.cycled /\ group'.age = 0
        /\ group'.start = group.start
    BY <1>1 DEF Activate, Group
  <1>3. GroupTimeout' = GroupTimeout /\ GroupTimeout \in Nat \ {0}
    BY <1>1, ShortestTimeout DEF GroupTimeout, Members
  <1>4. CASE config.mode = "direct"
    BY <1>1, <1>2, <1>3, <1>4 DEF DropInv, IsFrame, Members
  <1>5. CASE config.mode # "direct"
    <2>1. /\ at' = 0
          /\ filters' = [i \in Joints |->
                            IF i \in Members THEN Targeted(filters[i], -1) ELSE filters[i]]
      BY <1>5 DEF Activate
    <2>2. ASSUME NEW i \in Members PROVE TracksAt(i, -1)'
      <3>1. filters[i] \in Filter /\ filters'[i] = Targeted(filters[i], -1)
        BY <1>1, <2>1, <2>2 DEF TypeOK
      <3>2. Newer(filters[i], -1)
        <4>1. CASE group.active => group.dropping
          BY <1>1, <4>1, <2>2 DEF DropInv, Newer
        <4>2. CASE ~(group.active => group.dropping)
          <5>1. config.mode = "upsample"
            BY <1>1, <1>5, ConfigFacts DEF Config
          <5>2. filters[i].age = group.age
            BY <1>1, <4>2, <5>1, <2>2 DEF DropInv, TracksAt
          <5> QED
            BY <1>1, <5>2 DEF Newer, Group
        <4> QED
          BY <4>1, <4>2
      <3> QED
        BY <3>1, <3>2 DEF Targeted, TracksAt, Filter
    <2>3. ASSUME NEW o \in 0..(config'.n - 1)
          PROVE  TracksAt(JointAt(group.start, o, config.n),
                          IF o < at THEN group.age ELSE group.age - 1)'
      <3>1. JointAt(group.start, o, config.n) \in Members
        BY <1>1, ConfigFacts, TurnsAreMembers
      <3>2. ~(o < at') /\ group'.age - 1 = -1
        BY <1>2, <2>1
      <3> QED
        BY <1>1, <1>2, <2>2, <3>1, <3>2, Zenon
    <2>4. ~Between' /\ IsFrame' /\ group'.age <= GroupTimeout'
      BY <1>1, <1>2, <1>3, <2>1 DEF Between, IsFrame, Idle
    <2> QED
      BY <1>2, <1>3, <2>3, <2>4 DEF DropInv
  <1> QED
    BY <1>4, <1>5

\* A dropout that the caller declares takes every member out of tracking.
LEMMA DropDropout ==
    ASSUME TypeOK, DropInv, NEW turning, Dropout(turning)
    PROVE  DropInv'
  <1>1. /\ config \in Configs /\ config' = config /\ group \in Group /\ IsFrame
        /\ Members \subseteq Joints
    BY KindFacts DEF Dropout, StartCycle, IsFrame, TypeOK
  <1>2. GroupTimeout' = GroupTimeout /\ Members' = Members /\ IsFrame'
    BY <1>1 DEF GroupTimeout, Members, IsFrame
  <1>3. /\ group'.active /\ group'.dropping /\ group'.cycled
        /\ group'.age > GroupTimeout
    BY <1>1 DEF Dropout, TimedOut, Group
  <1>4. ASSUME NEW i \in Members
        PROVE  ~filters'[i].target /\ filters'[i].mode \in DropoutModes
    <2> DEFINE m == IF config.mode = "direct" THEN direct[i] ELSE filters[i].moving
               d == DroppedFrom(filters[i], m, i \in turning, config.extrapolation[i])
    <2>1. filters'[i] = d /\ filters[i] \in Filter
      BY <1>1, <1>4 DEF Dropout, TypeOK
    <2>2. ~d.target /\ d.mode \in DropoutModes
      BY <2>1 DEF DroppedFrom, Extrapolate, EnterStopping, DropoutModes, Filter
    <2> QED
      BY <2>1, <2>2
  <1> QED
    BY <1>2, <1>3, <1>4 DEF DropInv

\* A cycle without a frame ages the group before its members.
LEMMA DropContinue ==
    ASSUME TypeOK, RationInv, DropInv, Continue
    PROVE  DropInv'
  <1>1. /\ config \in Configs /\ config' = config /\ group \in Group /\ IsFrame
        /\ filters' = filters /\ at = Idle
    BY KindFacts DEF Continue, StartCycle, IsFrame, TypeOK
  <1>2. /\ GroupTimeout' = GroupTimeout /\ Members' = Members /\ IsFrame'
        /\ GroupTimeout \in Nat \ {0} /\ GroupTimeout < MaxAge
    BY <1>1, ShortestTimeout DEF GroupTimeout, Members, IsFrame
  <1>3. /\ group'.active = group.active /\ group'.dropping = group.dropping /\ group'.cycled
        /\ group'.start = group.start
        /\ group.active => group'.age = Older(group.age)
        /\ at' = IF config.mode = "upsample" \/ group.dropping THEN 0 ELSE config.n
    BY <1>1 DEF Continue, Group
  <1>4. CASE ~group.active
    BY <1>1, <1>2, <1>3, <1>4 DEF DropInv
  <1>5. CASE group.active
    <2>1. group.dropping <=> group.age > GroupTimeout
      BY <1>1, <1>5 DEF DropInv
    <2>2. group.age \in Nat /\ (group.dropping \/ Older(group.age) <= GroupTimeout)
      BY <1>1, <1>2, <1>5, GroupTypes DEF Continue, TimedOut, Group
    <2>3. group'.dropping <=> group'.age > GroupTimeout
      BY <1>2, <1>3, <1>5, <2>1, <2>2 DEF Older
    <2>4. ASSUME ~group.dropping, config.mode = "upsample", NEW o \in 0..(config'.n - 1)
          PROVE  TracksAt(JointAt(group.start, o, config.n),
                          IF o < at THEN group.age ELSE group.age - 1)'
      <3>1. JointAt(group.start, o, config.n) \in Members
        BY <1>1, <2>4, ConfigFacts, TurnsAreMembers
      <3>2. TracksAt(JointAt(group.start, o, config.n), group.age)
        BY <1>1, <1>5, <2>4, <3>1 DEF DropInv, Between
      <3>3. ~(o < at') /\ group'.age - 1 = group.age
        <4>1. at' = 0 /\ group'.age = Older(group.age)
          BY <1>3, <1>5, <2>4
        <4>2. Older(group.age) = group.age + 1
          BY <1>2, <2>1, <2>2, <2>4, JointGroupAssumption DEF Older
        <4>3. o \in Nat
          BY <1>1, ConfigFacts
        <4> QED
          BY <2>2, <4>1, <4>2, <4>3
      <3> QED
        BY <1>1, <1>3, <3>2, <3>3 DEF TracksAt
    <2>5. config.mode = "upsample" => ~Between'
      BY <1>3 DEF Between, Idle
    <2> QED
      BY <1>1, <1>2, <1>3, <1>5, <2>3, <2>4, <2>5 DEF DropInv
  <1> QED
    BY <1>4, <1>5

\* At the end of a cycle every member has caught up with the group.
LEMMA DropFinish ==
    ASSUME TypeOK, RationInv, DropInv, FinishCycle
    PROVE  DropInv'
  <1>1. /\ config \in Configs /\ config' = config /\ group \in Group
        /\ filters' = filters /\ at = config.n /\ at' = Idle /\ config.n \in Nat \ {0}
    BY KindFacts, UnconfiguredFacts DEF FinishCycle, TypeOK
  <1>2. GroupTimeout' = GroupTimeout /\ Members' = Members /\ (IsFrame' <=> IsFrame)
    BY <1>1 DEF GroupTimeout, Members, IsFrame
  <1>3. /\ group'.active = group.active /\ group'.dropping = group.dropping
        /\ group'.cycled = group.cycled /\ group'.age = group.age
    BY <1>1 DEF FinishCycle, Group
  <1>4. ASSUME IsFrame, group.active, ~group.dropping, config.mode = "upsample", NEW i \in Members
        PROVE  TracksAt(i, group.age)
    <2>1. PICK o \in 0..(config.n - 1) : JointAt(group.start, o, config.n) = i
      BY <1>1, <1>4, TurnsAreMembers
    <2>2. ~Between /\ o < at
      BY <1>1 DEF Between, Idle
    <2> QED
      BY <1>4, <2>1, <2>2 DEF DropInv
  <1>5. Between'
    BY <1>1 DEF Between
  <1> QED
    BY <1>1, <1>2, <1>3, <1>4, <1>5 DEF DropInv, TracksAt

\* In its turn a member becomes as old as the group, and no older.
LEMMA DropFilter ==
    ASSUME TypeOK, RationInv, DropInv, CycleFilter
    PROVE  DropInv'
  <1> DEFINE j == Current
             J(o) == JointAt(group.start, o, config.n)
  <1>1. /\ config \in Configs /\ config' = config /\ group' = group /\ at' = at + 1
        /\ at \in 0..(config.n - 1) /\ config.n \in Nat \ {0} /\ group \in Group
        /\ Members \subseteq Joints
    <2>1. at \in 0..(config.n - 1) /\ config' = config /\ group' = group /\ at' = at + 1
      BY DEF CycleFilter
    <2> QED
      BY <2>1, KindFacts, ConfigFacts DEF TypeOK, Members
  <1>2. /\ j = J(at) /\ j \in Members
        /\ \A o \in 0..(config.n - 1) : J(o) \in Members /\ (J(o) = j => o = at)
    <2>1. j = J(at)
      BY DEF Current, JointAt
    <2>2. config.n > 0
      BY <1>1
    <2>3. /\ \A o \in 0..(config.n - 1) : J(o) \in Members
          /\ \A o \in 0..(config.n - 1) : J(o) = J(at) => o = at
      BY <1>1, <2>2, TurnsAreMembers, Zenon
    <2> HIDE DEF j, J
    <2> QED
      BY <1>1, <2>1, <2>3
  <1> HIDE DEF j
  <1>3. PICK g : /\ filters' = [filters EXCEPT ![j] = g]
                 /\ g.target = filters[j].target
                 /\ filters[j].mode \in DropoutModes => g.mode \in DropoutModes
                 /\ filters[j].mode = "tracking" /\ filters[j].target
                    /\ Older(filters[j].age) <= config.timeout[j] =>
                        g.mode = "tracking" /\ g.age = Older(filters[j].age)
    <2>1. PICK f \in AtEnvelope(Entered(filters[j], config.timeout[j], config.extrapolation[j])) :
              \E r \in Replan(f, config.quintic, Allowed) :
                  \E d \in Advance(r[2]) : CycleJoint(j, r[1], Settled(d))
      BY DEF CycleFilter, j
    <2>2. PICK r \in Replan(f, config.quintic, Allowed) :
              \E d \in Advance(r[2]) : CycleJoint(j, r[1], Settled(d))
      BY <2>1
    <2>3. PICK d \in Advance(r[2]) : CycleJoint(j, r[1], Settled(d))
      BY <2>2
    <2>4. /\ filters[j] \in Filter /\ config.timeout[j] \in Nat /\ config.extrapolation[j] \in Nat
          /\ config.quintic \in BOOLEAN /\ Allowed \in BOOLEAN
      BY <1>1, <1>2, ConfigFacts DEF TypeOK, Config, Allowed
    <2>5. filters' = [filters EXCEPT ![j] = Settled(d)]
      BY <2>3 DEF CycleJoint
    <2> DEFINE g == Settled(d)
    <2>6. /\ g.target = filters[j].target
          /\ filters[j].mode \in DropoutModes => g.mode \in DropoutModes
          /\ filters[j].mode = "tracking" /\ filters[j].target
             /\ Older(filters[j].age) <= config.timeout[j] =>
                 g.mode = "tracking" /\ g.age = Older(filters[j].age)
      BY <2>1, <2>2, <2>3, <2>4, CycleKeeps
    <2> HIDE DEF g
    <2> QED
      BY <2>5, <2>6 DEF g
  <1>4. /\ filters'[j] = g
        /\ \A i \in Members : i # j => filters'[i] = filters[i]
    BY <1>1, <1>2, <1>3 DEF TypeOK
  <1>5. GroupTimeout' = GroupTimeout /\ Members' = Members /\ (IsFrame' <=> IsFrame)
    BY <1>1 DEF GroupTimeout, Members, IsFrame
  <1>6. ~Between' /\ ~Between
    BY <1>1 DEF Between, Idle
  <1>7. \A i \in Members : filters'[i].target = filters[i].target
    BY <1>3, <1>4
  <1>8. ASSUME IsFrame, group.active, group.dropping, NEW i \in Members
        PROVE  filters'[i].mode \in DropoutModes
    BY <1>3, <1>4, <1>8 DEF DropInv
  <1>9. ASSUME IsFrame, group.active, ~group.dropping, config.mode = "upsample",
               NEW o \in 0..(config'.n - 1)
        PROVE  TracksAt(J(o), IF o < at THEN group.age ELSE group.age - 1)'
    <2>1. TracksAt(J(o), IF o < at THEN group.age ELSE group.age - 1)
      BY <1>1, <1>6, <1>9 DEF DropInv
    <2>2. CASE o # at
      <3>1. filters'[J(o)] = filters[J(o)]
        BY <1>1, <1>2, <1>4, <2>2
      <3>2. o < at' <=> o < at
        BY <1>1, <2>2
      <3> QED
        BY <1>1, <2>1, <3>1, <3>2 DEF TracksAt
    <2>3. CASE o = at
      <3>1. filters[j].mode = "tracking" /\ filters[j].target /\ filters[j].age = group.age - 1
        BY <1>1, <1>2, <2>1, <2>3 DEF TracksAt
      <3>2. /\ group.age \in Nat /\ group.age <= GroupTimeout
            /\ GroupTimeout <= config.timeout[j] /\ GroupTimeout < MaxAge
            /\ config.timeout[j] \in Nat /\ GroupTimeout \in Nat
        BY <1>1, <1>2, <1>9, ShortestTimeout, ConfigFacts DEF DropInv, Group
      <3>3. Older(filters[j].age) = group.age
        BY <3>1, <3>2, JointGroupAssumption DEF Older
      <3>4. g.mode = "tracking" /\ g.target /\ g.age = group.age
        BY <1>3, <3>1, <3>2, <3>3
      <3>5. o < at'
        BY <1>1, <2>3
      <3>6. J(o)' = j
        BY <1>1, <1>2, <2>3
      <3> QED
        BY <1>1, <1>4, <3>4, <3>5, <3>6 DEF TracksAt
    <2> QED
      BY <2>2, <2>3
  <1> QED
    BY <1>1, <1>5, <1>6, <1>7, <1>8, <1>9 DEF DropInv

\* Every step keeps the members and the group in step.
LEMMA DropStep == TypeOK /\ RationInv /\ DropInv /\ [Next]_vars => DropInv'
  <1> SUFFICES ASSUME TypeOK, RationInv, DropInv, [Next]_vars PROVE DropInv'
    OBVIOUS
  <1>0. group \in Group /\ Members \subseteq Joints /\ filters \in [Joints -> Filter]
    BY KindFacts DEF TypeOK
  <1>s. config' = config => /\ GroupTimeout' = GroupTimeout /\ Members' = Members
                            /\ (IsFrame' <=> IsFrame)
    BY DEF GroupTimeout, Members, IsFrame
  <1>1. ASSUME NEW c \in Configs, Configure(c) PROVE DropInv'
    <2>1. Inactive'
      BY <1>1 DEF Configure, ClearFrameRuntime, NewGroup, Inactive, Members, CanConfigure
    <2> QED
      BY <2>1, InactiveIsSafe, PTL
  <1>2. CASE EndSession
    <2>1. \A i \in Members : ~EndedFilter(filters[i]).target
      BY <1>0 DEF EndedFilter, Filter
    <2>2. Inactive'
      BY <1>0, <1>2, <1>s, <2>1 DEF EndSession, ClearFrameRuntime, NewGroup, Inactive
    <2> QED
      BY <2>2, InactiveIsSafe, PTL
  <1>3. ASSUME NEW i \in Joints, NEW moving \in BOOLEAN, NEW accelerating \in BOOLEAN,
               Reset(i, moving, accelerating)
        PROVE  DropInv'
    <2>1. ~ResetFilter(moving, accelerating).target
      BY DEF ResetFilter, EnterStopping, NewFilter
    <2>2. config' = config /\ group' = group
          /\ filters' = [filters EXCEPT ![i] = ResetFilter(moving, accelerating)]
      BY <1>3 DEF Reset
    <2>3. IsFrame => ~group.active
      BY <1>3 DEF Reset, DropInv
    <2>4. IsFrame => \A k \in Members : ~filters'[k].target
      BY <1>0, <2>1, <2>2, <2>3 DEF DropInv
    <2> QED
      BY <1>s, <2>2, <2>3, <2>4 DEF DropInv
  <1>4. ASSUME NEW i \in Joints, NEW age \in Stamps, PushTarget(i, age) PROVE DropInv'
    BY <1>4 DEF PushTarget, DropInv, IsFrame
  <1>5. CASE PushFrame
    <2>1. /\ group'.active = group.active /\ group'.dropping = group.dropping
          /\ group'.cycled = group.cycled /\ group'.age = group.age /\ group'.start = group.start
      BY <1>0, <1>5 DEF PushFrame, Group
    <2> QED
      BY <1>5, <1>s, <2>1 DEF PushFrame, DropInv, Between, TracksAt
  <1>6. CASE CycleLegacy
    BY <1>6 DEF CycleLegacy, DropInv, IsFrame
  <1>7. ASSUME NEW speeds, Activate(speeds) PROVE DropInv'
    BY <1>7, DropActivate
  <1>8. ASSUME NEW turning, Dropout(turning) PROVE DropInv'
    BY <1>8, DropDropout
  <1>9. CASE Continue
    BY <1>9, DropContinue
  <1>10. CASE CycleFilter
    BY <1>10, DropFilter
  <1>11. CASE FinishCycle
    BY <1>11, DropFinish
  <1>12. CASE UNCHANGED vars
    BY <1>12, <1>s DEF vars, DropInv, Between, TracksAt
  <1> QED
    BY <1>1, <1>2, <1>3, <1>4, <1>5, <1>6, <1>7, <1>8, <1>9, <1>10, <1>11, <1>12, Zenon
       DEF Next, Cycle

\* All joints of a frame session drop out in the same cycle, the one in which the
\* frame's age passes the shortest timeout, or none does.
THEOREM GroupDropsTogether == Spec => []DropsTogether
  <1>1. Init => Waitless
    BY JointGroupAssumption, UnconfiguredFacts DEF Init, Waitless, NewGroup
  <1>2. Init => RationInv
    BY <1>1, NobodyWaits
  <1>3. Init => DropInv
    BY UnconfiguredFacts DEF Init, NewGroup, DropInv, IsFrame
  <1>4. DropInv => DropsTogether
    BY DropInvGives
  <1> QED
    BY <1>2, <1>3, <1>4, JointGroupTypes, RationStep, DropStep, PTL DEF Spec

-----------------------------------------------------------------------------
(* The mixed fields after a dropout.                                       *)

\* The ramp to the safe gains of joint i takes the joint's own extrapolation
\* window, and is as far as the dropout is long ago (one step less until the
\* cycle ends, which advances it); when it has ended the torque is gone.
RampsDown(i) ==
    LET m == mixed[i]
        e == config.extrapolation[i]
    IN  /\ m.target = "safe" /\ m.duration = e /\ m.tick \in 0..e
        /\ m.tick = e \/ GroupTimeout + m.tick >= group.age - (IF Between THEN 0 ELSE 1)
        /\ m.tick = e /\ (Between \/ e > 0) => m.tau = "zero"

\* While a group drops out, every member's mixed fields are on that ramp.
RampInv ==
    /\ group.dropping => group.active
    /\ IsFrame /\ group.dropping => \A i \in Members : RampsDown(i)

\* Between cycles the invariant says what SafeAfterDropout promises.
LEMMA RampsEnd ==
    ASSUME TypeOK, RampInv
    PROVE  SafeAfterDropout
  <1> SUFFICES ASSUME Between, IsFrame, group.dropping, NEW i \in Members,
                      group.age >= GroupTimeout + config.extrapolation[i]
               PROVE  /\ mixed[i].tau = "zero"
                      /\ mixed[i].target = "safe" /\ GainsReached(mixed[i])
    BY DEF SafeAfterDropout
  <1>1. /\ config \in Configs /\ group.age \in Nat /\ GroupTimeout \in Nat
        /\ config.extrapolation[i] \in Nat
    BY KindFacts, ShortestTimeout, ConfigFacts DEF IsFrame, TypeOK, Group, GroupTimeout, Members, Config
  <1>2. RampsDown(i)
    BY DEF RampInv
  <1>3. mixed[i].tick = config.extrapolation[i]
    BY <1>1, <1>2 DEF RampsDown
  <1> QED
    BY <1>2, <1>3 DEF RampsDown, GainsReached

\* The dropout starts the ramp of every joint anew.
LEMMA RampDropout ==
    ASSUME TypeOK, DropInv, NEW turning, Dropout(turning)
    PROVE  RampInv'
  <1>1. /\ config \in Configs /\ config' = config /\ group \in Group /\ IsFrame /\ at = Idle
        /\ Members \subseteq Joints /\ mixed \in [Joints -> Mixed]
    BY KindFacts DEF Dropout, StartCycle, IsFrame, TypeOK
  <1>2. /\ GroupTimeout' = GroupTimeout /\ Members' = Members /\ IsFrame'
        /\ GroupTimeout \in Nat /\ GroupTimeout < MaxAge
    BY <1>1, ShortestTimeout DEF GroupTimeout, Members, IsFrame
  <1>3. /\ group'.active /\ group'.dropping /\ group'.age = Older(group.age)
        /\ group.active /\ ~group.dropping
    BY <1>1 DEF Dropout, TimedOut, Group
  <1>4. group'.age \in Nat /\ group'.age - 1 <= GroupTimeout
    <2>1. ~(group.age > GroupTimeout) /\ group.age \in Nat
      BY <1>1, <1>3 DEF DropInv, Group
    <2> QED
      BY <1>2, <1>3, <2>1, JointGroupAssumption DEF Older
  <1>5. ASSUME NEW i \in Members PROVE RampsDown(i)'
    <2>1. mixed'[i] = Ramp(mixed[i], "safe", config.extrapolation[i]) /\ mixed[i] \in Mixed
      BY <1>1, <1>5 DEF Dropout
    <2>2. /\ mixed'[i].target = "safe" /\ mixed'[i].tick = 0
          /\ mixed'[i].duration = config.extrapolation[i]
      BY <2>1 DEF Ramp, Mixed
    <2>3. config.extrapolation[i] \in Nat
      BY <1>1, <1>5, ConfigFacts DEF Config
    <2>4. ~Between'
      BY DEF Dropout, Between, Idle
    <2> QED
      BY <1>1, <1>2, <1>4, <2>2, <2>3, <2>4 DEF RampsDown
  <1> QED
    BY <1>2, <1>3, <1>5 DEF RampInv

\* A cycle that goes on with a dropout has not advanced the ramps yet.
LEMMA RampContinue ==
    ASSUME TypeOK, RampInv, Continue
    PROVE  RampInv'
  <1>1. /\ config \in Configs /\ config' = config /\ group \in Group /\ IsFrame
        /\ at = Idle /\ mixed' = mixed
    BY KindFacts DEF Continue, StartCycle, IsFrame, TypeOK
  <1>2. /\ GroupTimeout' = GroupTimeout /\ Members' = Members /\ IsFrame'
        /\ GroupTimeout \in Nat
    BY <1>1, ShortestTimeout DEF GroupTimeout, Members, IsFrame
  <1>3. /\ group'.active = group.active /\ group'.dropping = group.dropping
        /\ group.active => group'.age = Older(group.age)
        /\ group.dropping => at' = 0
    BY <1>1 DEF Continue, Group
  <1>4. ASSUME group.dropping, NEW i \in Members PROVE RampsDown(i)'
    <2>1. RampsDown(i) /\ group.active
      BY <1>1, <1>4 DEF RampInv
    <2>2. group.age \in Nat /\ group'.age \in Nat /\ group'.age - 1 <= group.age
      BY <1>1, <1>3, <2>1 DEF Older, Group
    <2>3. Between /\ ~Between'
      BY <1>1, <1>3, <1>4 DEF Between, Idle
    <2>4. config.extrapolation[i] \in Nat
      BY <1>1, ConfigFacts DEF Config, Members
    <2> QED
      BY <1>1, <1>2, <2>1, <2>2, <2>3, <2>4 DEF RampsDown
  <1> QED
    BY <1>1, <1>2, <1>3, <1>4 DEF RampInv

\* The end of a cycle advances every ramp by one step.
LEMMA RampFinish ==
    ASSUME TypeOK, RampInv, FinishCycle
    PROVE  RampInv'
  <1>1. /\ config' = config /\ group \in Group /\ ~Between /\ Between'
        /\ Members \subseteq Joints /\ mixed \in [Joints -> Mixed]
    BY KindFacts DEF FinishCycle, TypeOK, Between, Idle
  <1>2. GroupTimeout' = GroupTimeout /\ Members' = Members /\ (IsFrame' <=> IsFrame)
    BY <1>1 DEF GroupTimeout, Members, IsFrame
  <1>3. /\ group'.active = group.active /\ group'.dropping = group.dropping
        /\ group'.age = group.age
    BY <1>1 DEF FinishCycle, Group
  <1>4. ASSUME IsFrame, group.dropping, NEW i \in Members PROVE RampsDown(i)'
    <2> DEFINE m == mixed[i]
               e == config.extrapolation[i]
    <2>1. mixed'[i] = AdvancedMixed(m, TRUE, e) /\ m \in Mixed
      BY <1>1, <1>4 DEF FinishCycle, Group
    <2>2. RampsDown(i)
      BY <1>4 DEF RampInv
    <2>3. e \in Nat /\ group.age \in Nat /\ GroupTimeout \in Nat
      BY <1>1, <1>4, KindFacts, ConfigFacts, ShortestTimeout
         DEF IsFrame, Config, Group, GroupTimeout, Members
    <2>4. m.target = "safe" /\ m.duration = e /\ m.tick \in 0..e
      BY <2>2 DEF RampsDown
    <2> HIDE DEF m, e
    <2>5. /\ mixed'[i].target = "safe" /\ mixed'[i].duration = e
          /\ mixed'[i].tick = IF m.tick < e THEN m.tick + 1 ELSE m.tick
          /\ mixed'[i].tau = IF m.tick < e
                             THEN IF m.tick + 1 < e THEN "fading" ELSE "zero"
                             ELSE IF e = 0 THEN "zero" ELSE m.tau
      BY <2>1, <2>4 DEF AdvancedMixed, Mixed
    <2> QED
      BY <1>1, <1>2, <1>3, <2>2, <2>3, <2>4, <2>5 DEF RampsDown, m, e
  <1> QED
    BY <1>1, <1>2, <1>3, <1>4 DEF RampInv

\* Every step keeps the ramps.
LEMMA RampStep == TypeOK /\ DropInv /\ RampInv /\ [Next]_vars => RampInv'
  <1> SUFFICES ASSUME TypeOK, DropInv, RampInv, [Next]_vars PROVE RampInv'
    OBVIOUS
  <1>0. group \in Group
    BY DEF TypeOK
  <1>s. config' = config => /\ GroupTimeout' = GroupTimeout /\ Members' = Members
                            /\ (IsFrame' <=> IsFrame)
    BY DEF GroupTimeout, Members, IsFrame
  <1>1. ASSUME NEW c \in Configs, Configure(c) PROVE RampInv'
    BY <1>1 DEF Configure, ClearFrameRuntime, NewGroup, RampInv
  <1>2. CASE EndSession
    BY <1>2 DEF EndSession, ClearFrameRuntime, NewGroup, RampInv
  <1>3. ASSUME NEW i \in Joints, NEW moving \in BOOLEAN, NEW accelerating \in BOOLEAN,
               Reset(i, moving, accelerating)
        PROVE  RampInv'
    <2>1. config' = config /\ group' = group /\ at' = at
      BY <1>3 DEF Reset
    <2>2. IsFrame => ~group.dropping
      BY <1>3 DEF Reset, DropInv, RampInv
    <2> QED
      BY <1>s, <2>1, <2>2 DEF RampInv
  <1>4. ASSUME NEW i \in Joints, NEW age \in Stamps, PushTarget(i, age) PROVE RampInv'
    BY <1>4 DEF PushTarget, RampInv, IsFrame
  <1>5. CASE PushFrame
    <2>1. /\ group'.active = group.active /\ group'.dropping = group.dropping
          /\ group'.age = group.age
      BY <1>0, <1>5 DEF PushFrame, Group
    <2> QED
      BY <1>5, <1>s, <2>1 DEF PushFrame, RampInv, RampsDown, Between
  <1>6. CASE CycleLegacy
    BY <1>6 DEF CycleLegacy, RampInv, IsFrame
  <1>7. ASSUME NEW speeds, Activate(speeds) PROVE RampInv'
    <2>1. ~group'.dropping
      BY <1>0, <1>7 DEF Activate, Group
    <2> QED
      BY <2>1 DEF RampInv
  <1>8. ASSUME NEW turning, Dropout(turning) PROVE RampInv'
    BY <1>8, RampDropout
  <1>9. CASE Continue
    BY <1>9, RampContinue
  <1>10. CASE CycleFilter
    <2>1. config' = config /\ group' = group /\ mixed' = mixed /\ ~Between /\ ~Between'
      BY <1>10, KindFacts DEF CycleFilter, Between, Idle
    <2> QED
      BY <1>s, <2>1 DEF RampInv, RampsDown
  <1>11. CASE FinishCycle
    BY <1>11, RampFinish
  <1>12. CASE UNCHANGED vars
    BY <1>12, <1>s DEF vars, RampInv, RampsDown, Between
  <1> QED
    BY <1>1, <1>2, <1>3, <1>4, <1>5, <1>6, <1>7, <1>8, <1>9, <1>10, <1>11, <1>12, Zenon
       DEF Next, Cycle

\* Once its own extrapolation window has passed since the dropout of the group, a
\* joint's torque is gone and its gains are the safe ones, for every number of
\* joints and every combination of windows, timeouts and ramps.
THEOREM DropoutEndsSafely == Spec => []SafeAfterDropout
  <1>1. Init => Waitless
    BY JointGroupAssumption, UnconfiguredFacts DEF Init, Waitless, NewGroup
  <1>2. Init => RationInv
    BY <1>1, NobodyWaits
  <1>3. Init => DropInv
    BY UnconfiguredFacts DEF Init, NewGroup, DropInv, IsFrame
  <1>4. Init => RampInv
    BY DEF Init, NewGroup, RampInv
  <1>5. TypeOK /\ RampInv => SafeAfterDropout
    BY RampsEnd
  <1> QED
    BY <1>1, <1>2, <1>3, <1>4, <1>5, JointGroupTypes, RationStep, DropStep, RampStep, PTL DEF Spec
=============================================================================
