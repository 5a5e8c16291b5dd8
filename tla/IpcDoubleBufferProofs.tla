----------------------- MODULE IpcDoubleBufferProofs -----------------------
(***************************************************************************)
(* TLAPS proofs about the IPC double buffer, for every set of processes    *)
(* and of payload words and every number of retries and versions.          *)
(***************************************************************************)
EXTENDS IpcDoubleBuffer, TLAPS

(* The inductive invariant.  Writing is the work of the owner alone; its    *)
(* reservation is the version after the published one, in the other slot,   *)
(* and pending_state_ says how far it has come, even when it has died.      *)

Reserved == {"reserve", "stamp", "write", "commit", "publish"}

PendingMatches(p) ==
    /\ writer[p].pc \in {"idle", "reserve"} => pending = NoState
    /\ writer[p].pc \in {"stamp", "write"}
          => pending = State(writer[p].seq, writer[p].slot)
    /\ writer[p].pc \in {"commit", "publish", "clear"} => pending = CommittingState

\* The reservation of p names the version after the published one.
NextVersion(p) ==
    /\ writer[p].seq = published.seq + 1
    /\ published.seq # 0 => writer[p].slot = 1 - published.slot

\* The words p has written are in its slot.
Written(p) ==
    /\ writer[p].pc \in {"write", "commit", "publish"}
          => \A w \in Word \ writer[p].left : words[writer[p].slot][w] = writer[p].seq
    /\ writer[p].pc \in {"reserve", "stamp"} => writer[p].left = Word
    /\ writer[p].pc \in {"commit", "publish"} => writer[p].left = {}
    /\ writer[p].pc = "publish" => stamp[writer[p].slot] = 2 * writer[p].seq

WriterInv(p) ==
    /\ writer[p].pc # "idle" => owner = p
    /\ owner = p => PendingMatches(p)
    /\ writer[p].pc \in Reserved => NextVersion(p)
    /\ Written(p)

\* The published slot is stable, without the clause on the writers.
PublishedWhole ==
    published.seq # 0 =>
        /\ stamp[published.slot] = 2 * published.seq
        /\ \A w \in Word : words[published.slot][w] = published.seq

WInv ==
    /\ published.kind = "state"
    /\ owner = NoProcess => pending = NoState
    /\ \A p \in Process : WriterInv(p)
    /\ PublishedWhole

\* While the state the reader goes by is the published one, what it has copied
\* belongs to that version.
RInv ==
    /\ reader.pc # "idle" => published.seq # 0
    /\ reader.pc \in {"begin", "copy", "check", "late"} =>
        /\ st.seq # 0
        /\ st.seq <= published.seq
    /\ reader.pc \in {"copy", "check"} =>
           (published = st => \A w \in loaded : buf[w] = st.seq)
    /\ Ordered /\ reader.pc = "check" => loaded = Word
    /\ Ordered => reader.pc # "late"

IInv == TypeOK /\ WInv /\ RInv

-----------------------------------------------------------------------------
(* Types.                                                                   *)

\* The initial states have their types.
LEMMA InitType == Init => TypeOK
  BY BufferAssumption DEF Init, TypeOK, State, NoState, pack_state, StateType, Seq0, Slot

\* A writer's step keeps the types: versions stop at MaxSeq.
LEMMA WriterType ==
  ASSUME TypeOK, NEW p \in Process, ClaimWriter(p) \/ Write(p) \/ Crash(p)
  PROVE  TypeOK'
<1> USE BufferAssumption DEF TypeOK, Seq0, Slot
<1>0. ASSUME UNCHANGED readerVars PROVE UNCHANGED <<reader, st, buf, loaded, got, status>>
  BY <1>0 DEF readerVars
<1>1. CASE ClaimWriter(p)
  BY <1>1, <1>0 DEF ClaimWriter
<1>2. CASE BeginPublish(p)
  BY <1>2, <1>0 DEF BeginPublish, shared, StateType
<1>3. CASE Reserve(p)
  <2>1. State(writer[p].seq, writer[p].slot) \in StateType
    BY DEF State, pack_state, StateType
  <2> QED
    BY <1>3, <1>0, <2>1 DEF Reserve
<1>4. CASE MarkSlot(p)
  <2>1. writer[p].slot \in Slot /\ 2 * writer[p].seq + 1 \in 0 .. 2 * MaxSeq + 1
    OBVIOUS
  <2>2. stamp' \in [Slot -> 0 .. 2 * MaxSeq + 1]
    BY <1>4, <1>0, <2>1 DEF MarkSlot
  <2>3. writer' \in [Process -> [pc : {"idle", "reserve", "stamp", "write", "commit",
                                     "publish", "clear"},
                               seq : Seq0, slot : Slot, left : SUBSET Word]]
    BY <1>4, <1>0 DEF MarkSlot
  <2> QED
    BY <1>4, <1>0, <2>2, <2>3 DEF MarkSlot
<1>5. ASSUME NEW w \in Word, WriteWord(p, w) PROVE TypeOK'
  BY <1>5, <1>0 DEF WriteWord
<1>6. CASE Commit(p)
  <2>1. CommittingState \in StateType
    BY DEF CommittingState, pack_state, StateType
  <2> QED
    BY <1>6, <1>0, <2>1 DEF Commit
<1>7. CASE StableStamp(p)
  BY <1>7, <1>0 DEF StableStamp
<1>8. CASE Publish(p)
  <2>1. State(writer[p].seq, writer[p].slot) \in StateType
    BY DEF State, pack_state, StateType
  <2> QED
    BY <1>8, <1>0, <2>1 DEF Publish
<1>9. CASE ClearPending(p)
  <2>1. NoState \in StateType
    BY DEF NoState, pack_state, StateType
  <2> QED
    BY <1>9, <1>0, <2>1 DEF ClearPending
<1>10. CASE Crash(p)
  BY <1>10, <1>0 DEF Crash, shared
<1> QED
  BY <1>1, <1>2, <1>3, <1>4, <1>5, <1>6, <1>7, <1>8, <1>9, <1>10 DEF Write

\* A reader's step keeps the types: attempts stop at MaxRetries.
LEMMA ReaderType ==
  ASSUME TypeOK, Read
  PROVE  TypeOK'
<1> USE BufferAssumption DEF TypeOK, Seq0, Slot
<1>0. /\ st.slot \in Slot /\ st.seq \in Seq0
      /\ \A w \in Word : words[st.slot][w] \in Seq0
  BY DEF StateType
<1>1. UNCHANGED shared /\ UNCHANGED <<alive, writer>>
  BY DEF Read, ReadFirst, ReadState, ReadBegin, LoadWord, ReadEnd, ReadCheck
<1>2. UNCHANGED <<owner, alive, pending, published, stamp, words, writer>>
  BY <1>1 DEF shared
<1>3. CASE ReadFirst
  BY <1>2, <1>3 DEF ReadFirst
<1>4. CASE ReadState
  BY <1>2, <1>4 DEF ReadState
<1>5. CASE ReadBegin
  BY <1>2, <1>5 DEF ReadBegin, Retry
<1>6. ASSUME NEW w \in Word, LoadWord(w) PROVE TypeOK'
  BY <1>0, <1>2, <1>6 DEF LoadWord
<1>7. CASE ReadEnd
  BY <1>2, <1>7 DEF ReadEnd, Retry
<1>8. CASE ReadCheck
  BY <1>0, <1>2, <1>8 DEF ReadCheck, Retry
<1> QED
  BY <1>3, <1>4, <1>5, <1>6, <1>7, <1>8 DEF Read

\* TypeOK is an invariant: no call of the writer or of a reader takes a
\* sequence, a slot index, a stamp or an attempt out of its range.
THEOREM TypeCorrect == Spec => []TypeOK
<1>1. ASSUME TypeOK, [Next]_vars PROVE TypeOK'
  <2>1. CASE UNCHANGED vars
    BY <1>1, <2>1 DEF vars, readerVars, TypeOK
  <2> QED
    BY <1>1, <2>1, WriterType, ReaderType DEF Next
<1> QED
  BY <1>1, InitType, PTL DEF Spec

-----------------------------------------------------------------------------
(* The writer's part of the invariant.                                      *)

\* Nothing has been published, and nobody writes.
LEMMA InitWriter == Init => WInv
  BY BufferAssumption
  DEF Init, WInv, WriterInv, PendingMatches, Written, PublishedWhole, Reserved,
      State, NoState, pack_state

\* The invariant only speaks of these variables.
LEMMA WriterStutter ==
  ASSUME WInv, UNCHANGED <<owner, pending, published, stamp, words, writer>>
  PROVE  WInv'
  BY DEF WInv, WriterInv, PendingMatches, NextVersion, Written, PublishedWhole

\* A process that is in a publication is the owner, so all others are idle.
LEMMA OthersIdle ==
  ASSUME WInv, NEW p \in Process, owner = p, NEW q \in Process, q # p
  PROVE  writer[q].pc = "idle"
  BY DEF WInv, WriterInv

\* When the owner takes a step, only its own entry has to be looked at.
LEMMA OwnerStep ==
  ASSUME TypeOK, WInv, NEW p \in Process, owner = p, owner' = owner,
         \A q \in Process : q # p => writer'[q] = writer[q],
         published'.kind = "state", WriterInv(p)', PublishedWhole'
  PROVE  WInv'
<1>1. \A q \in Process : q # p => WriterInv(q)'
  BY OthersIdle DEF WriterInv, Written, Reserved
<1>2. owner' # NoProcess
  BY BufferAssumption
<1> QED
  BY <1>1, <1>2 DEF WInv

\* A writer's step keeps its part of the invariant.
LEMMA WriterStep ==
  ASSUME TypeOK, WInv, NEW p \in Process, ClaimWriter(p) \/ Write(p) \/ Crash(p)
  PROVE  WInv'
<1>w. /\ WriterInv(p) /\ PublishedWhole /\ published.kind = "state"
      /\ writer \in [Process -> [pc : {"idle", "reserve", "stamp", "write", "commit",
                                       "publish", "clear"},
                                 seq : Nat, slot : {0, 1}, left : SUBSET Word]]
      /\ stamp \in [Slot -> Nat] /\ words \in [Slot -> [Word -> Nat]]
      /\ published.seq \in Nat /\ published.slot \in {0, 1}
  BY BufferAssumption DEF WInv, TypeOK, Seq0, Slot, StateType
<1>1. CASE ClaimWriter(p)
  <2>1. \A q \in Process : writer[q].pc = "idle"
    BY <1>1, BufferAssumption DEF ClaimWriter, WInv, WriterInv
  <2>2. pending = NoState
    BY <1>1 DEF ClaimWriter, WInv
  <2> QED
    BY <1>1, <1>w, <2>1, <2>2, BufferAssumption
    DEF ClaimWriter, WInv, WriterInv, PendingMatches, Written, PublishedWhole, Reserved
<1>2. CASE BeginPublish(p)
  <2>1. owner = p /\ UNCHANGED <<owner, pending, published, stamp, words>>
    BY <1>2 DEF BeginPublish, shared
  <2>2. /\ writer'[p].pc = "reserve" /\ writer'[p].left = Word
        /\ writer'[p].seq = published.seq + 1
        /\ published.seq # 0 => writer'[p].slot = 1 - published.slot
        /\ \A q \in Process : q # p => writer'[q] = writer[q]
    BY <1>2, <1>w DEF BeginPublish
  <2>3. WriterInv(p)'
    BY <1>2, <1>w, <2>1, <2>2
    DEF BeginPublish, At, WriterInv, PendingMatches, NextVersion, Written
  <2> QED
    BY <1>w, <2>1, <2>2, <2>3, OwnerStep DEF PublishedWhole
<1>3. CASE Reserve(p)
  <2>1. /\ owner = p /\ pending = NoState /\ writer[p].pc = "reserve"
        /\ NextVersion(p) /\ writer[p].left = Word
    BY <1>3, <1>w DEF Reserve, At, WriterInv, PendingMatches, Reserved, Written
  <2>2. /\ writer' = [writer EXCEPT ![p].pc = "stamp"]
        /\ pending' = State(writer[p].seq, writer[p].slot)
        /\ UNCHANGED <<owner, published, stamp, words>>
    BY <1>3, <2>1 DEF Reserve
  <2>3. /\ writer'[p].pc = "stamp" /\ writer'[p].seq = writer[p].seq
        /\ writer'[p].slot = writer[p].slot /\ writer'[p].left = writer[p].left
        /\ \A q \in Process : q # p => writer'[q] = writer[q]
    BY <1>w, <2>2
  <2>4. WriterInv(p)'
    BY <1>w, <2>1, <2>2, <2>3
    DEF WriterInv, PendingMatches, NextVersion, Written
  <2> QED
    BY <1>w, <2>1, <2>2, <2>3, <2>4, OwnerStep DEF PublishedWhole
<1>4. CASE MarkSlot(p)
  <2>1. /\ owner = p /\ writer[p].pc = "stamp" /\ NextVersion(p)
        /\ pending = State(writer[p].seq, writer[p].slot) /\ writer[p].left = Word
    BY <1>4, <1>w DEF MarkSlot, At, WriterInv, PendingMatches, Reserved, Written
  <2>2. /\ writer'[p].pc = "write" /\ writer'[p].seq = writer[p].seq
        /\ writer'[p].slot = writer[p].slot /\ writer'[p].left = writer[p].left
        /\ \A q \in Process : q # p => writer'[q] = writer[q]
        /\ UNCHANGED <<owner, pending, published, words>>
        /\ \A s \in Slot : s # writer[p].slot => stamp'[s] = stamp[s]
    BY <1>4, <1>w DEF MarkSlot
  <2>3. WriterInv(p)'
    BY <1>w, <2>1, <2>2
    DEF WriterInv, PendingMatches, NextVersion, Written
  <2>4. PublishedWhole'
    BY <1>w, <2>1, <2>2 DEF PublishedWhole, NextVersion, Slot
  <2> QED
    BY <1>w, <2>1, <2>2, <2>3, <2>4, OwnerStep
<1>5. ASSUME NEW w \in Word, WriteWord(p, w) PROVE WInv'
  <2>1. /\ owner = p /\ writer[p].pc = "write" /\ NextVersion(p)
        /\ pending = State(writer[p].seq, writer[p].slot)
        /\ \A v \in Word \ writer[p].left : words[writer[p].slot][v] = writer[p].seq
    BY <1>5, <1>w DEF WriteWord, At, WriterInv, PendingMatches, Reserved, Written
  <2>2. /\ writer'[p].pc = "write" /\ writer'[p].seq = writer[p].seq
        /\ writer'[p].slot = writer[p].slot /\ writer'[p].left = writer[p].left \ {w}
        /\ \A q \in Process : q # p => writer'[q] = writer[q]
        /\ UNCHANGED <<owner, pending, published, stamp>>
    BY <1>5, <1>w, <2>1 DEF WriteWord
  <2>3. /\ \A s \in Slot : s # writer[p].slot => words'[s] = words[s]
        /\ words'[writer[p].slot][w] = writer[p].seq
        /\ \A v \in Word : v # w => words'[writer[p].slot][v] = words[writer[p].slot][v]
    BY <1>5, <1>w DEF WriteWord, Slot
  <2>4. WriterInv(p)'
    BY <1>w, <2>1, <2>2, <2>3
    DEF WriterInv, PendingMatches, NextVersion, Written
  <2>5. PublishedWhole'
    BY <1>w, <2>1, <2>2, <2>3 DEF PublishedWhole, NextVersion, Slot
  <2> QED
    BY <1>w, <2>1, <2>2, <2>4, <2>5, OwnerStep
<1>6. CASE Commit(p)
  <2>1. /\ owner = p /\ writer[p].pc = "write" /\ NextVersion(p) /\ writer[p].left = {}
        /\ \A v \in Word \ writer[p].left : words[writer[p].slot][v] = writer[p].seq
    BY <1>6, <1>w DEF Commit, At, WriterInv, Reserved, Written
  <2>2. /\ writer'[p].pc = "commit" /\ writer'[p].seq = writer[p].seq
        /\ writer'[p].slot = writer[p].slot /\ writer'[p].left = writer[p].left
        /\ \A q \in Process : q # p => writer'[q] = writer[q]
        /\ pending' = CommittingState
        /\ UNCHANGED <<owner, published, stamp, words>>
    BY <1>6, <1>w DEF Commit
  <2>3. WriterInv(p)'
    BY <1>w, <2>1, <2>2
    DEF WriterInv, PendingMatches, NextVersion, Written
  <2> QED
    BY <1>w, <2>1, <2>2, <2>3, OwnerStep DEF PublishedWhole
<1>7. CASE StableStamp(p)
  <2>1. /\ owner = p /\ writer[p].pc = "commit" /\ NextVersion(p) /\ writer[p].left = {}
        /\ pending = CommittingState
        /\ \A v \in Word \ writer[p].left : words[writer[p].slot][v] = writer[p].seq
    BY <1>7, <1>w DEF StableStamp, At, WriterInv, PendingMatches, Reserved, Written
  <2>2. /\ writer'[p].pc = "publish" /\ writer'[p].seq = writer[p].seq
        /\ writer'[p].slot = writer[p].slot /\ writer'[p].left = writer[p].left
        /\ \A q \in Process : q # p => writer'[q] = writer[q]
        /\ UNCHANGED <<owner, pending, published, words>>
        /\ stamp'[writer[p].slot] = 2 * writer[p].seq
        /\ \A s \in Slot : s # writer[p].slot => stamp'[s] = stamp[s]
    BY <1>7, <1>w DEF StableStamp, Slot
  <2>3. WriterInv(p)'
    BY <1>w, <2>1, <2>2
    DEF WriterInv, PendingMatches, NextVersion, Written
  <2>4. PublishedWhole'
    BY <1>w, <2>1, <2>2 DEF PublishedWhole, NextVersion, Slot
  <2> QED
    BY <1>w, <2>1, <2>2, <2>3, <2>4, OwnerStep
<1>8. CASE Publish(p)
  <2>1. /\ owner = p /\ writer[p].pc = "publish" /\ writer[p].left = {}
        /\ pending = CommittingState
        /\ stamp[writer[p].slot] = 2 * writer[p].seq
        /\ \A v \in Word \ writer[p].left : words[writer[p].slot][v] = writer[p].seq
    BY <1>8, <1>w DEF Publish, At, WriterInv, PendingMatches, Written
  <2>2. /\ writer'[p].pc = "clear"
        /\ \A q \in Process : q # p => writer'[q] = writer[q]
        /\ UNCHANGED <<owner, pending, stamp, words>>
    BY <1>8, <1>w DEF Publish
  <2>3. /\ published'.kind = "state" /\ published'.seq = writer[p].seq
        /\ published'.slot = writer[p].slot
    BY <1>8 DEF Publish, State, pack_state
  <2>4. WriterInv(p)'
    BY <1>w, <2>1, <2>2
    DEF WriterInv, PendingMatches, Written, Reserved
  <2>5. PublishedWhole'
    BY <2>1, <2>2, <2>3 DEF PublishedWhole
  <2> QED
    BY <2>1, <2>2, <2>3, <2>4, <2>5, OwnerStep
<1>9. CASE ClearPending(p)
  <2>1. owner = p
    BY <1>9, <1>w DEF ClearPending, At, WriterInv
  <2>2. /\ writer'[p].pc = "idle" /\ pending' = NoState
        /\ \A q \in Process : q # p => writer'[q] = writer[q]
        /\ UNCHANGED <<owner, published, stamp, words>>
    BY <1>9, <1>w DEF ClearPending
  <2>3. WriterInv(p)'
    BY <2>2 DEF WriterInv, PendingMatches, Written, Reserved
  <2> QED
    BY <1>w, <2>1, <2>2, <2>3, OwnerStep DEF PublishedWhole
<1>10. CASE Crash(p)
  BY <1>10, WriterStutter DEF Crash, shared
<1> QED
  BY <1>1, <1>2, <1>3, <1>4, <1>5, <1>6, <1>7, <1>8, <1>9, <1>10 DEF Write

-----------------------------------------------------------------------------
(* The reader's part.                                                       *)

\* No read is under way.
LEMMA InitReader == Init => RInv
  BY DEF Init, RInv

\* The published state is only ever replaced by one of a higher sequence.
LEMMA PublishedGrows ==
  ASSUME IInv, NEW p \in Process, ClaimWriter(p) \/ Write(p) \/ Crash(p)
  PROVE  /\ UNCHANGED <<reader, st, buf, loaded, got, status>>
         /\ published' = published \/ published'.seq = published.seq + 1
<1>1. UNCHANGED <<reader, st, buf, loaded, got, status>>
  BY DEF ClaimWriter, Write, Crash, BeginPublish, Reserve, MarkSlot, WriteWord, Commit,
         StableStamp, Publish, ClearPending, readerVars
<1>2. CASE Publish(p)
  <2>1. writer[p].seq = published.seq + 1
    BY <1>2 DEF IInv, WInv, WriterInv, NextVersion, Reserved, Publish, At
  <2> QED
    BY <1>1, <1>2, <2>1 DEF Publish, State, pack_state
<1>3. CASE ~Publish(p)
  BY <1>1, <1>3 DEF ClaimWriter, Write, Crash, BeginPublish, Reserve, MarkSlot, WriteWord,
                    Commit, StableStamp, ClearPending, shared
<1> QED
  BY <1>2, <1>3

\* A publication during a read makes the reader's state an old one.
LEMMA ReaderKept ==
  ASSUME IInv, NEW p \in Process, ClaimWriter(p) \/ Write(p) \/ Crash(p)
  PROVE  RInv'
<1>1. published.seq \in Nat /\ st.seq \in Nat /\ RInv
  BY BufferAssumption DEF IInv, TypeOK, StateType, Seq0
<1>2. CASE published' = published
  BY <1>1, <1>2, PublishedGrows DEF RInv
<1>3. CASE published'.seq = published.seq + 1
  <2>1. reader.pc \in {"begin", "copy", "check", "late"} => published' # st
    BY <1>1, <1>3 DEF RInv
  <2> QED
    BY <1>1, <1>3, <2>1, PublishedGrows DEF RInv
<1> QED
  BY <1>2, <1>3, PublishedGrows

\* A reader's step keeps both parts of the invariant.
LEMMA ReaderStep ==
  ASSUME IInv, Read
  PROVE  WInv' /\ RInv'
<1>1. UNCHANGED <<owner, alive, pending, published, stamp, words, writer>>
  BY DEF Read, ReadFirst, ReadState, ReadBegin, LoadWord, ReadEnd, ReadCheck, shared
<1>2. WInv'
  BY <1>1, WriterStutter DEF IInv
<1>3. /\ RInv /\ PublishedWhole
      /\ reader \in [pc : {"idle", "state", "begin", "copy", "check", "late"}, attempt : Nat]
      /\ published.seq \in Nat /\ st.seq \in Nat /\ buf \in [Word -> Nat]
      /\ loaded \subseteq Word
  BY BufferAssumption DEF IInv, TypeOK, WInv, StateType, Seq0
<1>4. CASE ReadFirst
  BY <1>1, <1>2, <1>3, <1>4 DEF ReadFirst, RInv
<1>5. CASE ReadState
  BY <1>1, <1>2, <1>3, <1>5 DEF ReadState, RInv
<1>6. CASE ReadBegin
  BY <1>1, <1>2, <1>3, <1>6 DEF ReadBegin, Retry, RInv
<1>7. ASSUME NEW w \in Word, LoadWord(w) PROVE RInv'
  <2>0. UNCHANGED <<published, st>>
    BY <1>1, <1>7 DEF LoadWord
  <2>1. /\ loaded' = loaded \cup {w}
        /\ buf'[w] = words[st.slot][w]
        /\ \A v \in Word : v # w => buf'[v] = buf[v]
    BY <1>3, <1>7 DEF LoadWord
  <2>2. published = st /\ st.seq # 0 => words[st.slot][w] = st.seq
    BY <1>3 DEF PublishedWhole
  <2>3. CASE UNCHANGED reader
    <3>1. reader.pc \in {"copy", "check"} =>
             (published = st => \A v \in loaded' : buf'[v] = st.seq)
      BY <1>3, <1>7, <2>1, <2>2 DEF RInv
    <3>2. Ordered /\ reader.pc = "check" => loaded' = Word
      BY <1>3, <2>1 DEF RInv
    <3> QED
      BY <1>3, <2>0, <2>3, <3>1, <3>2 DEF RInv
  <2>4. CASE reader'.pc = "idle"
    BY <2>4 DEF RInv
  <2> QED
    BY <1>7, <2>3, <2>4 DEF LoadWord
<1>8. CASE ReadEnd
  BY <1>1, <1>2, <1>3, <1>8 DEF ReadEnd, Retry, RInv
<1>9. CASE ReadCheck
  BY <1>1, <1>2, <1>3, <1>9 DEF ReadCheck, Retry, RInv
<1> QED
  BY <1>2, <1>4, <1>5, <1>6, <1>7, <1>8, <1>9 DEF Read

-----------------------------------------------------------------------------

\* The inductive invariant holds in every state: the owner is the only one that
\* writes, always the version after the published one and in the other slot.
THEOREM Invariance == Spec => []IInv
<1>1. Init => IInv
  BY InitType, InitWriter, InitReader DEF IInv
<1>2. ASSUME IInv, [Next]_vars PROVE IInv'
  <2>1. CASE UNCHANGED vars
    BY <1>2, <2>1
    DEF vars, readerVars, IInv, TypeOK, RInv, WInv, WriterInv, PendingMatches, NextVersion,
        Written, PublishedWhole
  <2>2. ASSUME NEW p \in Process, ClaimWriter(p) \/ Write(p) \/ Crash(p) PROVE IInv'
    BY <1>2, <2>2, WriterType, WriterStep, ReaderKept DEF IInv
  <2>3. CASE Read
    BY <1>2, <2>3, ReaderType, ReaderStep DEF IInv
  <2> QED
    BY <1>2, <2>1, <2>2, <2>3 DEF Next
<1> QED
  BY <1>1, <1>2, PTL DEF Spec

\* PublishedSlotStable is an invariant, with the writer dead or alive and with
\* any order of the reader's loads: begin_publish never hands out the slot that
\* readers are sent to.
THEOREM PublishedSlotIsStable == Spec => []PublishedSlotStable
<1>1. IInv => PublishedSlotStable
  <2> SUFFICES ASSUME IInv, published.seq # 0 PROVE PublishedSlotStable
    BY DEF PublishedSlotStable
  <2>1. /\ published.slot \in {0, 1} /\ words[published.slot] \in [Word -> Seq0]
        /\ PublishedWhole
    BY DEF IInv, WInv, TypeOK, StateType, Slot
  <2>2. words[published.slot] = [w \in Word |-> published.seq]
    BY <2>1 DEF PublishedWhole
  <2>3. ASSUME NEW p \in Process, writer[p].pc \in {"stamp", "write", "commit", "publish"}
        PROVE  writer[p].slot # published.slot
    BY <2>1, <2>3 DEF IInv, WInv, WriterInv, NextVersion, Reserved
  <2> QED
    BY <2>1, <2>2, <2>3 DEF PublishedSlotStable, PublishedWhole
<1> QED
  BY <1>1, Invariance, PTL

\* With loads in program order the buffer implements the latest-value channel:
\* publish is the store of published_state_, and a read that returns ok returns,
\* whole, the version its last load of published_state_ found.
THEOREM BufferIsLatestValue ==
  ASSUME Ordered
  PROVE  Spec => ImplementsLatest
<1>1. Init => Latest!LatestInit
  BY DEF Init, Latest!LatestInit, Latest!Whole, State, pack_state
<1>2. ASSUME IInv, [Next]_vars
      PROVE  [Latest!PublishVersion \/ Latest!ReadLatest]_<<published.seq, got>>
  <2>1. CASE UNCHANGED vars
    BY <2>1 DEF vars, readerVars
  <2>2. ASSUME NEW p \in Process, ClaimWriter(p) \/ Write(p) \/ Crash(p)
        PROVE  Latest!PublishVersion \/ UNCHANGED <<published.seq, got>>
    BY <1>2, <2>2, PublishedGrows DEF Latest!PublishVersion
  <2>3. CASE Read
    <3>0. published' = published
      BY <2>3 DEF Read, ReadFirst, ReadState, ReadBegin, LoadWord, ReadEnd, ReadCheck, shared
    <3>1. CASE UNCHANGED got
      BY <3>0, <3>1
    <3>2. CASE ~UNCHANGED got
      <4>1. ReadCheck /\ got' = [seq |-> st.seq, words |-> buf] /\ published = st
        BY <1>2, <2>3, <3>2
        DEF IInv, RInv, Read, ReadFirst, ReadState, ReadBegin, LoadWord, ReadEnd, ReadCheck, Retry
      <4>2. loaded = Word /\ st.seq # 0 /\ \A w \in Word : buf[w] = st.seq
        BY <1>2, <4>1 DEF IInv, RInv, ReadCheck
      <4>3. buf = [w \in Word |-> published.seq]
        BY <1>2, <4>1, <4>2 DEF IInv, TypeOK
      <4> QED
        BY <3>0, <4>1, <4>2, <4>3 DEF Latest!ReadLatest, Latest!Whole
    <3> QED
      BY <3>1, <3>2
  <2> QED
    BY <1>2, <2>1, <2>2, <2>3 DEF Next
<1> QED
  BY <1>1, <1>2, Invariance, PTL DEF Spec, ImplementsLatest, Latest!LatestSpec
=============================================================================
