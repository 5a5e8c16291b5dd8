---------------------------- MODULE AtomicTasks ----------------------------
(***************************************************************************)
(* What a resource of the Structured Text runtime promises to those who    *)
(* read its outputs (doc/compliance/st-l5-semantics.md, L5-D06): a release *)
(* of a task is a transaction.  What the task writes is seen by nobody     *)
(* until it ends, then all of it at once; a release that does not end well *)
(* leaves no trace.                                                        *)
(***************************************************************************)
CONSTANTS Task,         \* tasks of the resource
          Var,          \* located outputs and memory
          Value,        \* what a variable holds
          InitialValue  \* the value it has after load

VARIABLES published, \* the committed image
          writes     \* what each task wrote in its current release

Nothing == [v \in {} |-> InitialValue]

AtomicInit ==
    /\ published = [v \in Var |-> InitialValue]
    /\ writes = [t \in Task |-> Nothing]

\* A task writes a variable; it may write it again.
Write(t, v, value) ==
    /\ writes' = [writes EXCEPT ![t] =
                    [w \in DOMAIN @ \cup {v} |-> IF w = v THEN value ELSE @[w]]]
    /\ UNCHANGED published

\* The release of t ends: all it wrote becomes visible.
Commit(t) ==
    /\ published' = [v \in Var |-> IF v \in DOMAIN writes[t] THEN writes[t][v]
                                   ELSE published[v]]
    /\ writes' = [writes EXCEPT ![t] = Nothing]

\* The releases of some tasks are given up: faults, resets, a resource fault.
Abandon(S) ==
    /\ writes' = [t \in Task |-> IF t \in S THEN Nothing ELSE writes[t]]
    /\ UNCHANGED published

AtomicNext ==
    \/ \E t \in Task, v \in Var, value \in Value : Write(t, v, value)
    \/ \E t \in Task : Commit(t)
    \/ \E S \in SUBSET Task : Abandon(S)

AtomicSpec == AtomicInit /\ [][AtomicNext]_<<published, writes>>
=============================================================================
