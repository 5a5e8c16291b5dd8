-------------------------- MODULE IpcDoubleBuffer --------------------------
(***************************************************************************)
(* core/rt/ipc_channel.h, IpcDoubleBuffer: a latest-value channel in       *)
(* memory shared by processes.  One writer fills the slot that is not      *)
(* published and then publishes it; readers copy the published slot word   *)
(* by word and accept the copy if the slot's stamp and the published state *)
(* did not change meanwhile.  Calls are broken at every access to shared   *)
(* memory.  The writer's process may die between any two accesses; nobody  *)
(* can take its place, because a claim holds as long as the mapping.       *)
(*                                                                         *)
(* A reader writes nothing that is shared, so one reader stands for all.   *)
(* Every word of version k is the number k.                                *)
(***************************************************************************)
EXTENDS Naturals

CONSTANTS Process,    \* processes that try to become the writer
          NoProcess,  \* writer_owner_ == 0
          Word,       \* the words of a payload
          MaxRetries, \* max_retries of read
          MaxSeq,     \* bound on the versions that are published
          Ordered     \* loads take effect in program order (x86-64).  On
                      \* AArch64 the relaxed loads of load_payload may take
                      \* effect after the acquire loads that follow them.

ASSUME BufferAssumption ==
    /\ NoProcess \notin Process
    /\ Word # {}
    /\ MaxRetries \in Nat
    /\ MaxSeq \in Nat
    /\ Ordered \in BOOLEAN

VARIABLES owner,     \* writer_owner_
          alive,     \* the processes that have not died
          pending,   \* pending_state_
          published, \* published_state_
          stamp,     \* the stamp of each slot
          words,     \* the payload words of each slot
          writer,    \* where each process is in publish, and its reservation
          reader,    \* where the reader is in read
          st,        \* state: the published state the reader goes by
          buf,       \* the words the reader has copied; 0: not yet
          loaded,    \* which words those are
          got,       \* value and sequence of the last read that returned ok
          status     \* what the last read returned

shared == <<owner, pending, published, stamp, words>>
readerVars == <<reader, st, buf, loaded, got, status>>
vars == <<owner, alive, pending, published, stamp, words, writer, readerVars>>

Slot == {0, 1}

\* pack_state(sequence, slot); pending_state_ is 0, CommittingState or a state.
pack_state(kind, seq, slot) == [kind |-> kind, seq |-> seq, slot |-> slot]
NoState == pack_state("none", 0, 0)
CommittingState == pack_state("committing", 0, 0)
State(seq, slot) == pack_state("state", seq, slot)

Init ==
    /\ owner = NoProcess
    /\ alive = Process
    /\ pending = NoState
    /\ published = State(0, 0)
    /\ stamp = [s \in Slot |-> 0]
    /\ words = [s \in Slot |-> [w \in Word |-> 0]]
    /\ writer = [p \in Process |-> [pc |-> "idle", seq |-> 0, slot |-> 0, left |-> {}]]
    /\ reader = [pc |-> "idle", attempt |-> 0]
    /\ st = State(0, 0)
    /\ buf = [w \in Word |-> 0]
    /\ loaded = {}
    /\ got = [seq |-> 0, words |-> [w \in Word |-> 0]]
    /\ status = "empty"

-----------------------------------------------------------------------------
(* The writer's side.  Each API call starts with owner_matches; with one    *)
(* owner for ever it holds throughout, so only the first test can fail; the *)
(* reservation is the one begin_publish gave, so write_pending accepts it.  *)

\* Mutant: a claim replaces the owner.
ClaimWriterAgain(p) ==
    /\ p \in alive
    /\ owner' = p
    /\ UNCHANGED <<alive, pending, published, stamp, words, writer, readerVars>>

\* claim_owner: compare_exchange(0, id)
ClaimWriter(p) ==
    /\ p \in alive
    /\ owner = NoProcess
    /\ owner' = p
    /\ UNCHANGED <<alive, pending, published, stamp, words, writer, readerVars>>

At(p, pc) == p \in alive /\ writer[p].pc = pc

\* Mutant: the slot is the published one.
BeginPublishSameSlot(p) ==
    /\ At(p, "idle") /\ owner = p /\ published.seq < MaxSeq
    /\ writer' = [writer EXCEPT ![p] =
                     [pc |-> "reserve", seq |-> published.seq + 1,
                      slot |-> published.slot, left |-> Word]]
    /\ UNCHANGED <<shared, alive, readerVars>>

\* begin_publish: the load of published_state_.
BeginPublish(p) ==
    /\ At(p, "idle") /\ owner = p /\ published.seq < MaxSeq
    /\ writer' = [writer EXCEPT ![p] =
                     [pc |-> "reserve", seq |-> published.seq + 1,
                      slot |-> IF published.seq = 0 THEN 0 ELSE 1 - published.slot,
                      left |-> Word]]
    /\ UNCHANGED <<shared, alive, readerVars>>

\* begin_publish: the reservation; busy when somebody else has one.
Reserve(p) ==
    /\ At(p, "reserve")
    /\ IF pending = NoState
       THEN /\ pending' = State(writer[p].seq, writer[p].slot)
            /\ writer' = [writer EXCEPT ![p].pc = "stamp"]
       ELSE /\ writer' = [writer EXCEPT ![p].pc = "idle"]
            /\ UNCHANGED pending
    /\ UNCHANGED <<owner, published, stamp, words, alive, readerVars>>

\* begin_publish: the slot is marked as being written (an odd stamp).
MarkSlot(p) ==
    /\ At(p, "stamp")
    /\ stamp' = [stamp EXCEPT ![writer[p].slot] = 2 * writer[p].seq + 1]
    /\ writer' = [writer EXCEPT ![p].pc = "write"]
    /\ UNCHANGED <<owner, pending, published, words, alive, readerVars>>

\* write_pending: relaxed stores, in any order.
WriteWord(p, w) ==
    /\ At(p, "write") /\ w \in writer[p].left
    /\ words' = [words EXCEPT ![writer[p].slot][w] = writer[p].seq]
    /\ writer' = [writer EXCEPT ![p].left = @ \ {w}]
    /\ UNCHANGED <<owner, pending, published, stamp, alive, readerVars>>

\* Mutant: published before the payload is complete.
CommitEarly(p) ==
    /\ At(p, "write")
    /\ pending = State(writer[p].seq, writer[p].slot)
    /\ pending' = CommittingState
    /\ writer' = [writer EXCEPT ![p].pc = "commit"]
    /\ UNCHANGED <<owner, published, stamp, words, alive, readerVars>>

\* commit_publish: the reservation is given up for CommittingState.
Commit(p) ==
    /\ At(p, "write") /\ writer[p].left = {}
    /\ pending = State(writer[p].seq, writer[p].slot)
    /\ pending' = CommittingState
    /\ writer' = [writer EXCEPT ![p].pc = "commit"]
    /\ UNCHANGED <<owner, published, stamp, words, alive, readerVars>>

\* commit_publish: the slot gets its stable stamp.
StableStamp(p) ==
    /\ At(p, "commit")
    /\ stamp' = [stamp EXCEPT ![writer[p].slot] = 2 * writer[p].seq]
    /\ writer' = [writer EXCEPT ![p].pc = "publish"]
    /\ UNCHANGED <<owner, pending, published, words, alive, readerVars>>

\* commit_publish: the version becomes visible.
Publish(p) ==
    /\ At(p, "publish")
    /\ published' = State(writer[p].seq, writer[p].slot)
    /\ writer' = [writer EXCEPT ![p].pc = "clear"]
    /\ UNCHANGED <<owner, pending, stamp, words, alive, readerVars>>

ClearPending(p) ==
    /\ At(p, "clear")
    /\ pending' = NoState
    /\ writer' = [writer EXCEPT ![p].pc = "idle"]
    /\ UNCHANGED <<owner, published, stamp, words, alive, readerVars>>

\* The process dies; its reservation and what it wrote stay in memory.
Crash(p) ==
    /\ p \in alive
    /\ alive' = alive \ {p}
    /\ UNCHANGED <<shared, writer, readerVars>>

Write(p) ==
    \/ BeginPublish(p) \/ Reserve(p) \/ MarkSlot(p) \/ (\E w \in Word : WriteWord(p, w))
    \/ Commit(p) \/ StableStamp(p) \/ Publish(p) \/ ClearPending(p)

-----------------------------------------------------------------------------
(* read                                                                     *)

\* The next attempt, or busy after the last one.
Retry ==
    /\ reader' = IF reader.attempt < MaxRetries
                 THEN [pc |-> "state", attempt |-> reader.attempt + 1]
                 ELSE [pc |-> "idle", attempt |-> 0]
    /\ status' = IF reader.attempt < MaxRetries THEN status ELSE "busy"
    /\ UNCHANGED got

\* read: empty while nothing is published, busy when no attempt is allowed.
ReadFirst ==
    /\ reader.pc = "idle"
    /\ IF published.seq = 0 \/ MaxRetries = 0
       THEN /\ status' = IF published.seq = 0 THEN "empty" ELSE "busy"
            /\ UNCHANGED reader
       ELSE /\ status' = "reading"
            /\ reader' = [pc |-> "state", attempt |-> 1]
    /\ UNCHANGED <<shared, alive, writer, st, buf, loaded, got>>

\* Mutant: the reader waits for a publication under way to end.
ReadStateWaits ==
    /\ reader.pc = "state" /\ pending = NoState
    /\ st' = published
    /\ reader' = [reader EXCEPT !.pc = "begin"]
    /\ UNCHANGED <<shared, alive, writer, buf, loaded, got, status>>

\* The state this attempt goes by; its sequence is not 0 any more.
ReadState ==
    /\ reader.pc = "state"
    /\ st' = published
    /\ reader' = [reader EXCEPT !.pc = "begin"]
    /\ UNCHANGED <<shared, alive, writer, buf, loaded, got, status>>

ReadBegin ==
    /\ reader.pc = "begin"
    /\ loaded' = {}
    /\ buf' = [w \in Word |-> 0]
    /\ IF stamp[st.slot] # 2 * st.seq THEN Retry
       ELSE reader' = [reader EXCEPT !.pc = "copy"] /\ UNCHANGED <<got, status>>
    /\ UNCHANGED <<shared, alive, writer, st>>

\* load_payload.  pc "late": the checks have been made, words are missing.
LoadWord(w) ==
    /\ reader.pc \in {"copy", "late"} \cup (IF Ordered THEN {} ELSE {"check"})
    /\ w \notin loaded
    /\ buf' = [buf EXCEPT ![w] = words[st.slot][w]]
    /\ loaded' = loaded \cup {w}
    /\ IF reader.pc = "late" /\ loaded' = Word
       THEN /\ got' = [seq |-> st.seq, words |-> buf']
            /\ status' = "ok"
            /\ reader' = [pc |-> "idle", attempt |-> 0]
       ELSE UNCHANGED <<got, status, reader>>
    /\ UNCHANGED <<shared, alive, writer, st>>

ReadEnd ==
    /\ reader.pc = "copy"
    /\ Ordered => loaded = Word
    /\ IF stamp[st.slot] # 2 * st.seq THEN Retry
       ELSE reader' = [reader EXCEPT !.pc = "check"] /\ UNCHANGED <<got, status>>
    /\ UNCHANGED <<shared, alive, writer, st, buf, loaded>>

\* Mutant: the published state is not looked at again, and the copy goes out
\* under the sequence that is published by then.
ReadCheckNot ==
    /\ reader.pc = "check"
    /\ got' = [seq |-> published.seq, words |-> buf]
    /\ status' = "ok"
    /\ reader' = [pc |-> "idle", attempt |-> 0]
    /\ UNCHANGED <<shared, alive, writer, st, buf, loaded>>

ReadCheck ==
    /\ reader.pc = "check"
    /\ IF published # st THEN Retry
       ELSE IF loaded = Word
       THEN /\ got' = [seq |-> st.seq, words |-> buf]
            /\ status' = "ok"
            /\ reader' = [pc |-> "idle", attempt |-> 0]
       ELSE reader' = [reader EXCEPT !.pc = "late"] /\ UNCHANGED <<got, status>>
    /\ UNCHANGED <<shared, alive, writer, st, buf, loaded>>

Read == \/ ReadFirst \/ ReadState \/ ReadBegin \/ (\E w \in Word : LoadWord(w))
        \/ ReadEnd \/ ReadCheck

Next ==
    \/ \E p \in Process : ClaimWriter(p) \/ Write(p) \/ Crash(p)
    \/ Read

Spec == Init /\ [][Next]_vars

\* A reader goes on with its read and reads again; nothing is assumed of the
\* writer, which may stop anywhere.
FairSpec == Spec /\ WF_vars(Read)

-----------------------------------------------------------------------------
(* Properties.                                                              *)

Seq0 == 0 .. MaxSeq
StateType == [kind : {"none", "committing", "state"}, seq : Seq0, slot : Slot]

\* Every variable has its type.
TypeOK ==
    /\ owner \in Process \cup {NoProcess}
    /\ alive \subseteq Process
    /\ pending \in StateType
    /\ published \in StateType
    /\ stamp \in [Slot -> 0 .. 2 * MaxSeq + 1]
    /\ words \in [Slot -> [Word -> Seq0]]
    /\ writer \in [Process -> [pc : {"idle", "reserve", "stamp", "write", "commit",
                                     "publish", "clear"},
                               seq : Seq0, slot : Slot, left : SUBSET Word]]
    /\ reader \in [pc : {"idle", "state", "begin", "copy", "check", "late"},
                   attempt : 0 .. MaxRetries]
    /\ st \in StateType
    /\ buf \in [Word -> Seq0]
    /\ loaded \subseteq Word
    /\ got \in [seq : Seq0, words : [Word -> Seq0]]
    /\ status \in {"empty", "reading", "busy", "ok"}

\* The slot that is published is whole and carries its stable stamp, and no
\* process is writing it: readers are never in the way of the writer.
PublishedSlotStable ==
    published.seq # 0 =>
        /\ stamp[published.slot] = 2 * published.seq
        /\ words[published.slot] = [w \in Word |-> published.seq]
        /\ \A p \in Process : writer[p].pc \in {"stamp", "write", "commit", "publish"}
                                 => writer[p].slot # published.slot

Latest == INSTANCE LatestValue WITH latest <- published.seq

\* The buffer is a latest-value channel: a version is published by the store
\* of published_state_, and a read takes effect when it loads the published
\* state for the last time.
ImplementsLatest == Latest!LatestSpec

\* read returns, whatever the writer does and wherever it stopped.
ReadReturns == reader.pc # "idle" ~> reader.pc = "idle"

\* When the writer has died, in the middle of a publication or not, readers
\* get the last version it published.
CrashLeavesLatest ==
    (owner # NoProcess /\ owner \notin alive /\ published.seq # 0)
        ~> got.seq = published.seq
=============================================================================
