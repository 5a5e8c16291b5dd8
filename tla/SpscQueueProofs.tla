-------------------------- MODULE SpscQueueProofs --------------------------
(***************************************************************************)
(* For every Capacity and every set of elements: the ring of               *)
(* core/rt/spsc_queue.h keeps its indices in order, never copies into and  *)
(* out of one slot at a time, and implements BoundedFifo.                  *)
(***************************************************************************)
EXTENDS SpscQueue, SequenceTheorems, TLAPS

(***************************************************************************)
(* The inductive invariant.  IndexOrder is inductive only with what it     *)
(* implies for the slots: those in flight hold whole elements, and a copy  *)
(* finished by either thread is the content of its slot.                   *)
(***************************************************************************)
SlotsWhole == \A i \in 1 .. Distance(tail, head) : data[SlotAt(i)] \in Value

CopyDone ==
    /\ prod.pc # "idle" => prod.value \in Value
    /\ prod.pc = "publish" => data[head] = prod.value
    /\ cons.pc = "release" => cons.value = data[tail]

IInv == TypeOK /\ IndexOrder /\ SlotsWhole /\ CopyDone

\* increment wraps exactly at the last slot (the modulo of increment()).
LEMMA IncrementWraps ==
    ASSUME NEW s \in Slot
    PROVE  /\ increment(s) \in Slot
           /\ increment(s) = IF s = Capacity THEN 0 ELSE s + 1
  BY QueueAssumption DEF Slot, increment, StorageSize

\* How far it is around the ring, and when it is nowhere.
LEMMA DistanceRange ==
    ASSUME NEW a \in Slot, NEW b \in Slot
    PROVE  /\ Distance(a, b) \in 0 .. Capacity
           /\ Distance(a, b) = 0 <=> a = b
  BY QueueAssumption DEF Distance, Slot, StorageSize

\* Distances from one index tell the other indices apart.
LEMMA DistanceInjective ==
    ASSUME NEW a \in Slot, NEW b \in Slot, NEW c \in Slot,
           Distance(a, b) = Distance(a, c)
    PROVE  b = c
  BY QueueAssumption DEF Distance, Slot, StorageSize

\* Walking on from b to c adds up, unless it passes a.
LEMMA DistanceAdds ==
    ASSUME NEW a \in Slot, NEW b \in Slot, NEW c \in Slot,
           Distance(a, b) <= Distance(a, c)
    PROVE  Distance(b, c) = Distance(a, c) - Distance(a, b)
  BY QueueAssumption DEF Distance, Slot, StorageSize

\* Moving the far index forward, which the producer's store of head does.
LEMMA DistanceFar ==
    ASSUME NEW a \in Slot, NEW b \in Slot
    PROVE  Distance(a, increment(b)) =
               IF Distance(a, b) = Capacity THEN 0 ELSE Distance(a, b) + 1
<1>1. increment(b) = IF b = Capacity THEN 0 ELSE b + 1
  BY IncrementWraps
<1> QED
  BY <1>1, QueueAssumption DEF Distance, Slot, StorageSize

\* Moving the near index forward, which the producer's view of tail does.
LEMMA DistanceNear ==
    ASSUME NEW a \in Slot, NEW b \in Slot
    PROVE  Distance(increment(a), b) =
               IF a = b THEN Capacity ELSE Distance(a, b) - 1
<1>1. increment(a) = IF a = Capacity THEN 0 ELSE a + 1
  BY IncrementWraps
<1> QED
  BY <1>1, QueueAssumption DEF Distance, Slot, StorageSize

\* The initial state, both indices 0, satisfies the invariant.
LEMMA InvInit == Init => IInv
  BY QueueAssumption
  DEF Init, IInv, TypeOK, IndexOrder, SlotsWhole, CopyDone, Element, Slot,
      Distance, SlotAt, StorageSize

\* Every variable keeps its type.
LEMMA TypeStep == IInv /\ [Next]_vars => TypeOK'
<1> SUFFICES ASSUME IInv, [Next]_vars PROVE TypeOK'
  OBVIOUS
<1> USE QueueAssumption DEF IInv, TypeOK, Element
<1>1. ASSUME NEW v \in Value, PushBegin(v) PROVE TypeOK'
  BY <1>1 DEF PushBegin
<1>2. CASE PushCopied
  BY <1>2 DEF PushCopied
<1>3. CASE PushPublish
  BY <1>3, IncrementWraps DEF PushPublish
<1>4. CASE PopBegin
  BY <1>4 DEF PopBegin
<1>5. CASE PopCopied
  BY <1>5 DEF PopCopied
<1>6. CASE PopRelease
  BY <1>6, IncrementWraps DEF PopRelease
<1>7. CASE SeeHead
  BY <1>7, IncrementWraps DEF SeeHead
<1>8. CASE SeeTail
  BY <1>8, IncrementWraps DEF SeeTail
<1>9. CASE UNCHANGED vars
  BY <1>9 DEF vars
<1> QED
  BY <1>1, <1>2, <1>3, <1>4, <1>5, <1>6, <1>7, <1>8, <1>9
  DEF Next, Push, Pop, Visible

\* The indices stay in order, whichever thread moves and however stale its
\* view of the other index is.
LEMMA OrderStep == IInv /\ [Next]_vars => IndexOrder'
<1> SUFFICES ASSUME IInv, [Next]_vars PROVE IndexOrder'
  OBVIOUS
<1> USE QueueAssumption DEF IInv, IndexOrder
<1>0. head \in Slot /\ tail \in Slot /\ headView \in Slot /\ tailView \in Slot
  BY DEF TypeOK
<1>a. /\ Distance(tailView, tail) \in 0 .. Capacity
      /\ Distance(tailView, headView) \in 0 .. Capacity
      /\ Distance(tailView, head) \in 0 .. Capacity
  BY <1>0, DistanceRange
<1>1. ASSUME NEW v \in Value, PushBegin(v) PROVE IndexOrder'
  <2>1. Distance(tailView, head) # Capacity
    <3>1. increment(head) # tailView /\ increment(head) \in Slot
      BY <1>0, <1>1, IncrementWraps DEF PushBegin
    <3>2. Distance(tailView, increment(head)) # 0
      BY <3>1, <1>0, DistanceRange
    <3> QED
      BY <3>2, <1>0, DistanceFar
  <2> QED
    BY <1>1, <1>a, <2>1 DEF PushBegin
<1>2. CASE PushCopied
  BY <1>2 DEF PushCopied
<1>3. CASE PushPublish
  <2>1. Distance(tailView, increment(head)) = Distance(tailView, head) + 1
    BY <1>0, <1>a, <1>3, DistanceFar DEF PushPublish
  <2> QED
    BY <1>3, <1>a, <2>1 DEF PushPublish
<1>4. CASE PopBegin
  BY <1>4 DEF PopBegin
<1>5. CASE PopCopied
  BY <1>5 DEF PopCopied
<1>6. CASE PopRelease
  <2>1. Distance(tailView, tail) < Distance(tailView, headView)
    BY <1>0, <1>a, <1>6, DistanceInjective DEF PopRelease
  <2>2. Distance(tailView, increment(tail)) = Distance(tailView, tail) + 1
    BY <1>0, <1>a, <2>1, DistanceFar
  <2> QED
    BY <1>6, <1>a, <2>1, <2>2 DEF PopRelease
<1>7. CASE SeeHead
  <2>1. Distance(tailView, headView) < Distance(tailView, head)
    BY <1>0, <1>a, <1>7, DistanceInjective DEF SeeHead
  <2>2. Distance(tailView, increment(headView)) = Distance(tailView, headView) + 1
    BY <1>0, <1>a, <2>1, DistanceFar
  <2>3. cons.pc # "idle" => Distance(tailView, tail) < Distance(tailView, headView)
    BY <1>0, <1>a, DistanceInjective
  <2>4. cons.pc # "idle" => tail # increment(headView)
    BY <1>a, <2>2, <2>3
  <2> QED
    BY <1>7, <1>a, <2>1, <2>2, <2>4 DEF SeeHead
<1>8. CASE SeeTail
  <2>1. Distance(tailView, tail) # 0
    BY <1>0, <1>8, DistanceRange DEF SeeTail
  <2>2. /\ Distance(tailView, headView) # 0
        /\ Distance(tailView, head) # 0
    BY <1>a, <2>1
  <2>3. tailView # tail /\ tailView # headView /\ tailView # head
    BY <1>0, <2>1, <2>2, DistanceRange
  <2>4. /\ Distance(increment(tailView), tail) = Distance(tailView, tail) - 1
        /\ Distance(increment(tailView), headView) = Distance(tailView, headView) - 1
        /\ Distance(increment(tailView), head) = Distance(tailView, head) - 1
    BY <1>0, <2>3, DistanceNear
  <2> QED
    BY <1>8, <1>a, <2>4 DEF SeeTail
<1>9. CASE UNCHANGED vars
  BY <1>9 DEF vars
<1> QED
  BY <1>1, <1>2, <1>3, <1>4, <1>5, <1>6, <1>7, <1>8, <1>9
  DEF Next, Push, Pop, Visible

\* The number of elements in flight, from the order of the indices.
LEMMA InFlight ==
    ASSUME IInv
    PROVE  /\ Distance(tail, head) \in 0 .. Capacity
           /\ prod.pc # "idle" => Distance(tail, head) < Capacity
           /\ cons.pc # "idle" => Distance(tail, head) > 0
<1>0. head \in Slot /\ tail \in Slot /\ headView \in Slot /\ tailView \in Slot
  BY DEF IInv, TypeOK
<1>1. /\ Distance(tailView, tail) \in 0 .. Capacity
      /\ Distance(tailView, headView) \in 0 .. Capacity
      /\ Distance(tailView, head) \in 0 .. Capacity
      /\ Distance(tail, head) \in 0 .. Capacity
  BY <1>0, DistanceRange
<1>2. Distance(tail, head) = Distance(tailView, head) - Distance(tailView, tail)
  BY <1>0, <1>1, QueueAssumption, DistanceAdds DEF IInv, IndexOrder
<1>3. cons.pc # "idle" => Distance(tailView, tail) < Distance(tailView, headView)
  BY <1>0, <1>1, DistanceInjective DEF IInv, IndexOrder
<1> QED
  BY <1>1, <1>2, <1>3, QueueAssumption DEF IInv, IndexOrder

\* The positions in flight are slots, none of them the one at head, and the
\* oldest is the one at tail; the position after them is the one at head.
LEMMA Positions ==
    ASSUME head \in Slot, tail \in Slot
    PROVE  /\ \A i \in 1 .. Distance(tail, head) :
                  SlotAt(i) \in Slot /\ SlotAt(i) # head
           /\ Distance(tail, head) > 0 => SlotAt(1) = tail
           /\ Distance(tail, head) < Capacity =>
                  SlotAt(Distance(tail, head) + 1) = head
  BY QueueAssumption DEF SlotAt, Distance, Slot, StorageSize

\* What a push that was published adds to the elements in flight.
LEMMA ContentsPush ==
    ASSUME IInv, PushPublish
    PROVE  /\ Distance(tail, head)' = Distance(tail, head) + 1
           /\ \A i \in 1 .. Distance(tail, head) + 1 : SlotAt(i)' = SlotAt(i)
           /\ data' = data
           /\ SlotAt(Distance(tail, head) + 1) = head
           /\ data[head] = prod.value
           /\ prod.value \in Value
<1>1. Distance(tail, head) < Capacity /\ Distance(tail, head) \in 0 .. Capacity
  BY InFlight DEF PushPublish
<1>2. head \in Slot /\ tail \in Slot
  BY DEF IInv, TypeOK
<1>3. Distance(tail, increment(head)) = Distance(tail, head) + 1
  BY <1>1, <1>2, DistanceFar
<1>4. Distance(tail, head)' = Distance(tail, head) + 1
  BY <1>3 DEF PushPublish, Distance
<1>5. ASSUME NEW i \in 1 .. Distance(tail, head) + 1
      PROVE  SlotAt(i)' = SlotAt(i)
  BY DEF PushPublish, SlotAt
<1> QED
  BY <1>1, <1>2, <1>4, <1>5, Positions DEF PushPublish, IInv, CopyDone

\* What a pop that released its slot takes from the elements in flight.
LEMMA ContentsPop ==
    ASSUME IInv, PopRelease
    PROVE  /\ Distance(tail, head) > 0
           /\ Distance(tail, head) \in 0 .. Capacity
           /\ Distance(tail, head)' = Distance(tail, head) - 1
           /\ \A i \in 1 .. Distance(tail, head) - 1 : SlotAt(i)' = SlotAt(i + 1)
           /\ data' = data
           /\ SlotAt(1) = tail
           /\ cons.value = data[tail]
<1>1. Distance(tail, head) > 0 /\ Distance(tail, head) \in 0 .. Capacity
  BY InFlight DEF PopRelease
<1>2. head \in Slot /\ tail \in Slot
  BY DEF IInv, TypeOK
<1>3. tail # head
  BY <1>1, <1>2, DistanceRange
<1>4. Distance(increment(tail), head) = Distance(tail, head) - 1
  BY <1>2, <1>3, DistanceNear
<1>5. Distance(tail, head)' = Distance(tail, head) - 1
  BY <1>4 DEF PopRelease, Distance
<1>6. tail' = IF tail = Capacity THEN 0 ELSE tail + 1
  BY <1>2, IncrementWraps DEF PopRelease
<1>7. ASSUME NEW i \in 1 .. Distance(tail, head) - 1
      PROVE  SlotAt(i)' = SlotAt(i + 1)
  <2>1. i \in Nat /\ i >= 1 /\ i < Capacity
    BY <1>1, QueueAssumption
  <2> QED
    BY <1>2, <1>6, <2>1, QueueAssumption DEF SlotAt, Slot, StorageSize
<1> QED
  BY <1>1, <1>2, <1>5, <1>7, Positions DEF PopRelease, IInv, CopyDone

\* The slots in flight keep holding whole elements.
LEMMA SlotsStep == IInv /\ [Next]_vars => SlotsWhole'
<1> SUFFICES ASSUME IInv, [Next]_vars PROVE SlotsWhole'
  OBVIOUS
<1> USE DEF SlotsWhole
<1>0. head \in Slot /\ tail \in Slot /\ data \in [Slot -> Element] /\ SlotsWhole
  BY DEF IInv, TypeOK
<1>d. Distance(tail, head) \in Nat
  BY InFlight, QueueAssumption
<1>a. ASSUME UNCHANGED <<head, tail>>,
             \A s \in Slot \ {head} : data'[s] = data[s]
      PROVE  SlotsWhole'
  <2>1. Distance(tail, head)' = Distance(tail, head)
    BY <1>a DEF Distance
  <2>2. \A i \in 1 .. Distance(tail, head) : SlotAt(i)' = SlotAt(i)
    BY <1>a DEF SlotAt
  <2>3. \A i \in 1 .. Distance(tail, head) : data'[SlotAt(i)] = data[SlotAt(i)]
    BY <1>0, <1>a, Positions
  <2> QED
    BY <1>0, <2>1, <2>2, <2>3
<1>1. ASSUME NEW v \in Value, PushBegin(v) PROVE SlotsWhole'
  BY <1>0, <1>1, <1>a DEF PushBegin
<1>2. CASE PushCopied
  BY <1>0, <1>2, <1>a DEF PushCopied
<1>3. CASE PushPublish
  BY <1>0, <1>3, <1>d, ContentsPush
<1>4. CASE PopBegin
  BY <1>0, <1>4, <1>a DEF PopBegin
<1>5. CASE PopCopied
  BY <1>0, <1>5, <1>a DEF PopCopied
<1>6. CASE PopRelease
  BY <1>0, <1>6, <1>d, ContentsPop
<1>7. CASE SeeHead
  BY <1>0, <1>7, <1>a DEF SeeHead
<1>8. CASE SeeTail
  BY <1>0, <1>8, <1>a DEF SeeTail
<1>9. CASE UNCHANGED vars
  BY <1>0, <1>9, <1>a DEF vars
<1> QED
  BY <1>1, <1>2, <1>3, <1>4, <1>5, <1>6, <1>7, <1>8, <1>9
  DEF Next, Push, Pop, Visible

\* A finished copy stays the content of its slot until the index moves.
LEMMA CopyStep == IInv /\ [Next]_vars => CopyDone'
<1> SUFFICES ASSUME IInv, [Next]_vars PROVE CopyDone'
  OBVIOUS
<1> USE DEF CopyDone
<1>0. /\ head \in Slot /\ tail \in Slot /\ data \in [Slot -> Element]
      /\ prod \in [pc : {"idle", "copy", "publish"}, value : Element]
      /\ cons \in [pc : {"idle", "copy", "release"}, value : Element]
      /\ CopyDone
  BY DEF IInv, TypeOK
<1>a. cons.pc # "idle" => tail # head
  BY <1>0, InFlight, DistanceRange
<1>1. ASSUME NEW v \in Value, PushBegin(v) PROVE CopyDone'
  BY <1>0, <1>1, <1>a DEF PushBegin
<1>2. CASE PushCopied
  BY <1>0, <1>2, <1>a DEF PushCopied
<1>3. CASE PushPublish
  BY <1>0, <1>3 DEF PushPublish
<1>4. CASE PopBegin
  BY <1>0, <1>4 DEF PopBegin
<1>5. CASE PopCopied
  BY <1>0, <1>5 DEF PopCopied
<1>6. CASE PopRelease
  BY <1>0, <1>6 DEF PopRelease
<1>7. CASE SeeHead
  BY <1>0, <1>7 DEF SeeHead
<1>8. CASE SeeTail
  BY <1>0, <1>8 DEF SeeTail
<1>9. CASE UNCHANGED vars
  BY <1>0, <1>9 DEF vars
<1> QED
  BY <1>1, <1>2, <1>3, <1>4, <1>5, <1>6, <1>7, <1>8, <1>9
  DEF Next, Push, Pop, Visible

\* The invariant holds in every reachable state.
THEOREM Invariance == Spec => []IInv
<1>1. IInv /\ [Next]_vars => IInv'
  BY TypeStep, OrderStep, SlotsStep, CopyStep DEF IInv
<1> QED
  BY InvInit, <1>1, PTL DEF Spec

\* Every variable has its type, for every Capacity.
THEOREM TypeCorrect == Spec => []TypeOK
  BY Invariance, PTL DEF IInv

\* The indices are in order however late each thread sees the other's index.
THEOREM IndicesOrdered == Spec => []IndexOrder
  BY Invariance, PTL DEF IInv

\* push and pop never copy into and out of the same slot at the same time.
THEOREM SlotsNotShared == Spec => []NoSlotRace
<1>1. IInv => NoSlotRace
  <2> SUFFICES ASSUME IInv, cons.pc # "idle" PROVE head # tail
    BY DEF NoSlotRace
  <2>1. Distance(tail, head) > 0
    BY InFlight
  <2> QED
    BY <2>1, DistanceRange DEF IInv, TypeOK
<1> QED
  BY Invariance, <1>1, PTL

\* The ring implements the bounded FIFO.
THEOREM RingIsFifo == Spec => ImplementsFifo
<1>1. Init => Fifo!FifoInit
  BY QueueAssumption
  DEF Init, Fifo!FifoInit, Contents, Distance, StorageSize
<1>2. IInv /\ [Next]_vars => [Fifo!FifoNext]_(Fifo!fifoVars)
  <2> SUFFICES ASSUME IInv, [Next]_vars
               PROVE  [Fifo!FifoNext]_(Fifo!fifoVars)
    OBVIOUS
  <2>0. /\ head \in Slot /\ tail \in Slot /\ data \in [Slot -> Element]
        /\ Distance(tail, head) \in Nat
    BY InFlight, QueueAssumption DEF IInv, TypeOK
  <2>c. Contents \in Seq(Value) /\ Len(Contents) = Distance(tail, head)
    BY <2>0 DEF Contents, IInv, SlotsWhole
  <2>a. ASSUME UNCHANGED <<head, tail, out>>,
               \A s \in Slot \ {head} : data'[s] = data[s]
        PROVE  UNCHANGED <<Contents, out>>
    <3>1. Distance(tail, head)' = Distance(tail, head)
      BY <2>a DEF Distance
    <3>2. \A i \in 1 .. Distance(tail, head) : SlotAt(i)' = SlotAt(i)
      BY <2>a DEF SlotAt
    <3>3. \A i \in 1 .. Distance(tail, head) : data'[SlotAt(i)] = data[SlotAt(i)]
      BY <2>0, <2>a, Positions
    <3> QED
      BY <2>a, <3>1, <3>2, <3>3 DEF Contents
  <2>1. ASSUME NEW v \in Value, PushBegin(v) PROVE UNCHANGED <<Contents, out>>
    BY <2>0, <2>1, <2>a DEF PushBegin
  <2>2. CASE PushCopied
    BY <2>0, <2>2, <2>a DEF PushCopied, Fifo!fifoVars
  <2>3. CASE PushPublish
    <3>1. Len(Contents) < Capacity
      BY <2>3, <2>c, InFlight DEF PushPublish
    <3>2. Contents' = Append(Contents, prod.value)
      <4>1. Contents' = [i \in 1 .. Distance(tail, head) + 1 |-> data[SlotAt(i)]]
        BY <2>3, <2>0, ContentsPush DEF Contents
      <4>2. data[SlotAt(Distance(tail, head) + 1)] = prod.value
        BY <2>3, ContentsPush
      <4>3. /\ Len(Append(Contents, prod.value)) = Distance(tail, head) + 1
            /\ \A i \in 1 .. Distance(tail, head) :
                   Append(Contents, prod.value)[i] = data[SlotAt(i)]
            /\ Append(Contents, prod.value)[Distance(tail, head) + 1] = prod.value
        BY <2>0, <2>c DEF Contents
      <4>4. Append(Contents, prod.value) \in Seq(Value)
        BY <2>3, <2>c, ContentsPush
      <4>5. Append(Contents, prod.value)
                = [i \in 1 .. Distance(tail, head) + 1 |->
                       Append(Contents, prod.value)[i]]
        BY <4>3, <4>4
      <4>6. \A i \in 1 .. Distance(tail, head) + 1 :
                Append(Contents, prod.value)[i] = data[SlotAt(i)]
        BY <2>0, <4>2, <4>3
      <4> QED
        BY <4>1, <4>5, <4>6
    <3>3. prod.value \in Value /\ out' = out
      BY <2>3, ContentsPush DEF PushPublish
    <3> QED
      BY <3>1, <3>2, <3>3 DEF Fifo!FifoNext, Fifo!Enqueue
  <2>4. CASE PopBegin
    BY <2>0, <2>4, <2>a DEF PopBegin, Fifo!fifoVars
  <2>5. CASE PopCopied
    BY <2>0, <2>5, <2>a DEF PopCopied, Fifo!fifoVars
  <2>6. CASE PopRelease
    <3>1. Len(Contents) > 0 /\ Contents # <<>>
      BY <2>6, <2>c, ContentsPop
    <3>2. Head(Contents) = cons.value
      BY <2>6, <2>0, <3>1, ContentsPop DEF Contents
    <3>3. Contents' = Tail(Contents)
      <4>1. Contents' = [i \in 1 .. Distance(tail, head) - 1 |-> data[SlotAt(i + 1)]]
        BY <2>6, <2>0, ContentsPop DEF Contents
      <4>2. /\ Len(Tail(Contents)) = Distance(tail, head) - 1
            /\ \A i \in 1 .. Distance(tail, head) - 1 :
                   Tail(Contents)[i] = Contents[i + 1]
        BY <2>0, <2>c, <3>1
      <4>3. \A i \in 1 .. Distance(tail, head) - 1 :
                Tail(Contents)[i] = data[SlotAt(i + 1)]
        BY <2>0, <4>2 DEF Contents
      <4>4. Tail(Contents) \in Seq(Value)
        BY <2>c, <3>1
      <4>5. Tail(Contents) = [i \in 1 .. Distance(tail, head) - 1 |->
                                  Tail(Contents)[i]]
        <5> HIDE DEF Contents
        <5>1. Tail(Contents) = [i \in 1 .. Len(Tail(Contents)) |-> Tail(Contents)[i]]
          BY <4>4, LenProperties
        <5> QED
          BY <4>2, <5>1
      <4> QED
        BY <4>1, <4>3, <4>5
    <3>4. out' = cons.value
      BY <2>6 DEF PopRelease
    <3> QED
      BY <3>1, <3>2, <3>3, <3>4 DEF Fifo!FifoNext, Fifo!Dequeue
  <2>7. CASE SeeHead
    BY <2>0, <2>7, <2>a DEF SeeHead, Fifo!fifoVars
  <2>8. CASE SeeTail
    BY <2>0, <2>8, <2>a DEF SeeTail, Fifo!fifoVars
  <2>9. CASE UNCHANGED vars
    BY <2>0, <2>9, <2>a DEF vars, Fifo!fifoVars
  <2> QED
    BY <2>1, <2>2, <2>3, <2>4, <2>5, <2>6, <2>7, <2>8, <2>9
    DEF Next, Push, Pop, Visible, Fifo!fifoVars
<1> QED
  BY <1>1, <1>2, Invariance, PTL DEF Spec, ImplementsFifo, Fifo!FifoSpec
=============================================================================
