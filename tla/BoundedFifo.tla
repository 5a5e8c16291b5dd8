---------------------------- MODULE BoundedFifo ----------------------------
(***************************************************************************)
(* What a single-producer single-consumer queue of the rt layer promises:  *)
(* a FIFO of at most Capacity elements.  The two calls that succeed are    *)
(* one atomic step each; a refused call changes nothing.  The queue of     *)
(* core/rt/spsc_queue.h is shown to implement this specification.          *)
(***************************************************************************)
EXTENDS Naturals, Sequences

CONSTANTS Capacity, \* elements the queue holds when full
          Value,    \* elements
          NoValue   \* content of an output that nothing was popped into yet

VARIABLES queue,    \* the elements pushed and not popped, oldest first
          out       \* the element the last successful pop delivered

fifoVars == <<queue, out>>

FifoInit == queue = <<>> /\ out = NoValue

Enqueue(v) ==
    /\ Len(queue) < Capacity
    /\ queue' = Append(queue, v)
    /\ out' = out

Dequeue ==
    /\ queue # <<>>
    /\ out' = Head(queue)
    /\ queue' = Tail(queue)

FifoNext == (\E v \in Value : Enqueue(v)) \/ Dequeue

FifoSpec == FifoInit /\ [][FifoNext]_fifoVars
=============================================================================
