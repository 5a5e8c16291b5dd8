----------------------------- MODULE SpscQueue -----------------------------
(***************************************************************************)
(* core/rt/spsc_queue.h: the lock-free ring that hands committed set       *)
(* points from the planning thread to the real-time thread.                *)
(*                                                                         *)
(* One producer, one consumer, Capacity + 1 slots.  Each call is broken at *)
(* its accesses to shared memory, so that the calls of the two threads     *)
(* interleave.  An element is a struct that is copied without atomicity:   *)
(* while the producer copies, the slot holds Torn.  An acquire load of the *)
(* other thread's index may return an older value of that index, never a   *)
(* newer one and never one older than a value already seen: headView and   *)
(* tailView are what the other thread sees, and they catch up in steps of  *)
(* their own.                                                              *)
(***************************************************************************)
EXTENDS Naturals, Sequences

CONSTANTS Capacity, \* template parameter Capacity
          Value,    \* elements
          NoValue,  \* an element that was never written
          Torn      \* content of a slot while an element is copied into it

\* static_assert(Capacity > 0), and three kinds of slot content that differ.
ASSUME QueueAssumption ==
    /\ Capacity \in Nat \ {0}
    /\ NoValue \notin Value
    /\ Torn \notin Value
    /\ Torn # NoValue

VARIABLES data,     \* data_: the slots
          head,     \* head_: written by the producer alone
          tail,     \* tail_: written by the consumer alone
          headView, \* the value of head_ an acquire load of the consumer gives
          tailView, \* the value of tail_ an acquire load of the producer gives
          prod,     \* where the producer is in push, and the value it pushes
          cons,     \* where the consumer is in pop, and the value it copied
          out       \* what the last pop that returned true delivered

vars == <<data, head, tail, headView, tailView, prod, cons, out>>

StorageSize == Capacity + 1
Slot == 0 .. Capacity
Element == Value \cup {NoValue, Torn}

increment(value) == (value + 1) % StorageSize

Init ==
    /\ data = [s \in Slot |-> NoValue]
    /\ head = 0
    /\ tail = 0
    /\ headView = 0
    /\ tailView = 0
    /\ prod = [pc |-> "idle", value |-> NoValue]
    /\ cons = [pc |-> "idle", value |-> NoValue]
    /\ out = NoValue

-----------------------------------------------------------------------------
(* push: the loads and the test for full; the copy; the release store.  A   *)
(* push that finds the ring full returns false and changes nothing.         *)

PushBegin(v) ==
    /\ prod.pc = "idle"
    /\ increment(head) # tailView
    /\ prod' = [pc |-> "copy", value |-> v]
    /\ data' = [data EXCEPT ![head] = Torn]
    /\ UNCHANGED <<head, tail, headView, tailView, cons, out>>

PushCopiedEarlyStore ==
    /\ prod.pc = "copy"
    /\ head' = increment(head)
    /\ prod' = [prod EXCEPT !.pc = "publish"]
    /\ UNCHANGED <<data, tail, headView, tailView, cons, out>>

PushCopied ==
    /\ prod.pc = "copy"
    /\ data' = [data EXCEPT ![head] = prod.value]
    /\ prod' = [prod EXCEPT !.pc = "publish"]
    /\ UNCHANGED <<head, tail, headView, tailView, cons, out>>

PushPublish ==
    /\ prod.pc = "publish"
    /\ head' = increment(head)
    /\ prod' = [pc |-> "idle", value |-> NoValue]
    /\ UNCHANGED <<data, tail, headView, tailView, cons, out>>

(* pop: the loads and the test for empty; the copy; the release store.      *)

PopBeginUnguarded ==
    /\ cons.pc = "idle"
    /\ cons' = [cons EXCEPT !.pc = "copy"]
    /\ UNCHANGED <<data, head, tail, headView, tailView, prod, out>>

PopBegin ==
    /\ cons.pc = "idle"
    /\ tail # headView
    /\ cons' = [cons EXCEPT !.pc = "copy"]
    /\ UNCHANGED <<data, head, tail, headView, tailView, prod, out>>

PopCopied ==
    /\ cons.pc = "copy"
    /\ cons' = [pc |-> "release", value |-> data[tail]]
    /\ UNCHANGED <<data, head, tail, headView, tailView, prod, out>>

PopReleaseNoStore ==
    /\ cons.pc = "release"
    /\ out' = cons.value
    /\ cons' = [pc |-> "idle", value |-> NoValue]
    /\ UNCHANGED <<data, head, tail, headView, tailView, prod>>

PopRelease ==
    /\ cons.pc = "release"
    /\ tail' = increment(tail)
    /\ out' = cons.value
    /\ cons' = [pc |-> "idle", value |-> NoValue]
    /\ UNCHANGED <<data, head, headView, tailView, prod>>

(* The stores reach the other thread, one value of the index at a time.     *)

SeeHead ==
    /\ headView # head
    /\ headView' = increment(headView)
    /\ UNCHANGED <<data, head, tail, tailView, prod, cons, out>>

SeeTail ==
    /\ tailView # tail
    /\ tailView' = increment(tailView)
    /\ UNCHANGED <<data, head, tail, headView, prod, cons, out>>

Push == (\E v \in Value : PushBegin(v)) \/ PushCopied \/ PushPublish
Pop == PopBegin \/ PopCopied \/ PopRelease
Visible == SeeHead \/ SeeTail

Next == Push \/ Pop \/ Visible

Spec == Init /\ [][Next]_vars

\* The threads that own the two ends keep calling push and pop, and a store
\* becomes visible to the other core after a finite time.
Fairness ==
    /\ WF_vars(Push)
    /\ WF_vars(Pop)
    /\ WF_vars(SeeHead)
    /\ WF_vars(SeeTail)

FairSpec == Spec /\ Fairness

-----------------------------------------------------------------------------
(* Properties.                                                              *)

\* The slots between index a and index b, walking forward around the ring.
Distance(a, b) == IF b >= a THEN b - a ELSE b + StorageSize - a

\* Every variable has the type of its C++ member or local.
TypeOK ==
    /\ data \in [Slot -> Element]
    /\ head \in Slot
    /\ tail \in Slot
    /\ headView \in Slot
    /\ tailView \in Slot
    /\ prod \in [pc : {"idle", "copy", "publish"}, value : Element]
    /\ cons \in [pc : {"idle", "copy", "release"}, value : Element]
    /\ out \in Element

\* Walking forward from the oldest index the producer still believes in, the
\* consumer's tail comes first, then the head the consumer sees, then the
\* producer's head, and all of it is within Capacity slots: stale views of the
\* other side's index are always safe ones.  The ring relies on this to keep
\* one slot free (increment(head) == tail means full, head == tail empty).
IndexOrder ==
    /\ Distance(tailView, tail) <= Distance(tailView, headView)
    /\ Distance(tailView, headView) <= Distance(tailView, head)
    /\ prod.pc # "idle" => Distance(tailView, head) < Capacity
    /\ cons.pc # "idle" => tail # headView

\* The slot the producer is copying into is never the slot the consumer is
\* copying from: data_[head] = value and value = data_[tail] do not race.
NoSlotRace ==
    prod.pc = "copy" /\ cons.pc \in {"copy", "release"} => head # tail

\* The slot at position i of the elements in flight, oldest first.
SlotAt(i) == IF tail + i <= StorageSize THEN tail + i - 1
                                        ELSE tail + i - 1 - StorageSize

\* The elements in flight: the slots from tail up to head.
Contents == [i \in 1 .. Distance(tail, head) |-> data[SlotAt(i)]]

Fifo == INSTANCE BoundedFifo WITH queue <- Contents

\* The ring is a bounded FIFO: the release store of head is the enqueue, that
\* of tail the dequeue, and no other access of push or pop is seen by a user.
ImplementsFifo == Fifo!FifoSpec

\* A producer that is refused is not refused for ever.
FullClears == (increment(head) = tailView) ~> (increment(head) # tailView)
=============================================================================
