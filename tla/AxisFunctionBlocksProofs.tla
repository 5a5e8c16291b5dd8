----------------------- MODULE AxisFunctionBlocksProofs -----------------------
(***************************************************************************)
(* TLAPS proofs about the function blocks of one axis: what they show is   *)
(* what became of their commands, for every program, queue capacity and    *)
(* interleaving with power, its feedback and errors.                       *)
(***************************************************************************)
EXTENDS AxisFunctionBlocks, AxisModelProofs

-----------------------------------------------------------------------------
(* The axis below the blocks.                                               *)

\* Commands and offsets are all there is: no synchronization and no stream; and
\* the id of the last command does not outlive it.
Alone(a) ==
    /\ a.sync = "none" /\ a.streamId = 0
    /\ ~a.active => a.activeId = 0
    /\ a.active => a.cmd.kind # "acceleration_profile"

\* The two records that the blocks read are true.
Recorded(a) ==
    /\ \A i \in a.errors : i \in Id /\ a.result[i] = "error"
    /\ a.lastDone # 0 => a.lastDone \in Id /\ a.result[a.lastDone] = "done"

Sound(a) == Book(a) /\ Line(a) /\ Kept(a) /\ Alone(a) /\ Recorded(a)

\* A continuous motion that is active has not ended.
Runs(a, i) == a.active /\ a.activeId = i /\ a.cmd.kind = "move_continuous_absolute"

Final == {"done", "aborted", "error"}

\* What a step from a to b may do to the ids: results are final, failures of
\* commands are recorded, a continuous motion ends only when something ends it,
\* and an offset has a new id.
Settles(a, b) ==
    \A i \in Id :
        /\ a.result[i] \in Final => b.result[i] = a.result[i]
        /\ a.result[i] = "live" =>
              /\ b.result[i] \in Final \cup {"live"}
              /\ b.result[i] = "error" /\ i # a.supId => i \in b.errors

Continues(a, b) == \A i \in Id : Runs(a, i) => Runs(b, i) \/ b.result[i] \in {"aborted", "error"}

Offsets(a, b) ==
    /\ b.supId \in {a.supId, 0} \/ b.supId >= a.nextId
    /\ b.supDone \in {a.supDone, 0, a.supId}

Ages(a, b) ==
    /\ a.nextId <= b.nextId
    /\ a.errors \subseteq b.errors
    /\ Settles(a, b) /\ Continues(a, b) /\ Offsets(a, b)

\* A call completes no command; a cycle records the one that it completes.
CompletesNone(a, b) ==
    b.lastDone = a.lastDone /\ \A i \in Id : b.result[i] = "done" => a.result[i] = "done"
CompletesOne(a, b) ==
    \A i \in Id : a.result[i] = "live" /\ b.result[i] = "done" /\ i # a.supId => b.lastDone = i

AfterCall(a, b) == Sound(b) /\ Ages(a, b) /\ CompletesNone(a, b)
AfterCycle(a, b) == Sound(b) /\ Ages(a, b) /\ CompletesOne(a, b)

\* What all this depends on.
KeyFields == BookFields \cup {"cmd", "errors", "lastDone", "supDone"}

Alike(a, b) == Shape(b) /\ \A f \in KeyFields : b[f] = a[f]

LEMMA AlikeFields ==
  ASSUME NEW a, NEW b, Alike(a, b)
  PROVE  /\ Shape(b) /\ SameBooks(a, b)
         /\ b.active = a.active /\ b.activeId = a.activeId /\ b.queue = a.queue
         /\ b.sync = a.sync /\ b.syncId = a.syncId /\ b.streamId = a.streamId
         /\ b.supId = a.supId /\ b.result = a.result /\ b.nextId = a.nextId
         /\ b.override = a.override /\ b.cmd = a.cmd /\ b.errors = a.errors
         /\ b.lastDone = a.lastDone /\ b.supDone = a.supDone
  BY DEF Alike, KeyFields, BookFields, SameBooks

LEMMA SoundAlike ==
  ASSUME NEW a, Sound(a), NEW b, Alike(a, b)
  PROVE  Sound(b)
<1>1. /\ Shape(b) /\ SameBooks(a, b)
      /\ b.active = a.active /\ b.activeId = a.activeId /\ b.queue = a.queue
      /\ b.sync = a.sync /\ b.streamId = a.streamId /\ b.result = a.result
      /\ b.override = a.override /\ b.cmd = a.cmd /\ b.errors = a.errors
      /\ b.lastDone = a.lastDone
  BY AlikeFields
<1>2. Book(b) /\ Kept(b)
  BY <1>1, BooksKept DEF Sound
<1>3. Line(b)
  BY <1>1 DEF Sound, Line, Plannable, Segments
<1>4. Alone(b) /\ Recorded(b)
  BY <1>1 DEF Sound, Alone, Recorded
<1> QED
  BY <1>2, <1>3, <1>4 DEF Sound

\* Steps that change nothing of this, before or after another step.
LEMMA AgesAlike ==
  ASSUME NEW a, NEW b, Alike(a, b), NEW c
  PROVE  /\ AfterCall(b, c) => AfterCall(a, c)
         /\ AfterCall(c, a) => AfterCall(c, b)
         /\ AfterCycle(b, c) => AfterCycle(a, c)
         /\ AfterCycle(c, a) => AfterCycle(c, b)
<1>1. /\ b.active = a.active /\ b.activeId = a.activeId
      /\ b.supId = a.supId /\ b.result = a.result /\ b.nextId = a.nextId
      /\ b.cmd = a.cmd /\ b.errors = a.errors
      /\ b.lastDone = a.lastDone /\ b.supDone = a.supDone
  BY AlikeFields
<1>2. \A i : Runs(b, i) <=> Runs(a, i)
  BY <1>1 DEF Runs
<1>3. /\ Ages(b, c) => Ages(a, c)
      /\ Ages(c, a) => Ages(c, b)
  <2>1. /\ Settles(b, c) => Settles(a, c)
        /\ Settles(c, a) => Settles(c, b)
    BY <1>1 DEF Settles
  <2>2. /\ Continues(b, c) => Continues(a, c)
        /\ Continues(c, a) => Continues(c, b)
    BY <1>1, <1>2 DEF Continues
  <2>3. /\ Offsets(b, c) => Offsets(a, c)
        /\ Offsets(c, a) => Offsets(c, b)
    BY <1>1 DEF Offsets
  <2> QED
    BY <1>1, <2>1, <2>2, <2>3 DEF Ages
<1>4. /\ CompletesNone(b, c) => CompletesNone(a, c)
      /\ CompletesNone(c, a) => CompletesNone(c, b)
      /\ CompletesOne(b, c) => CompletesOne(a, c)
      /\ CompletesOne(c, a) => CompletesOne(c, b)
  BY <1>1 DEF CompletesNone, CompletesOne
<1>5. Sound(a) => Sound(b)
  BY SoundAlike
<1> QED
  BY <1>3, <1>4, <1>5 DEF AfterCall, AfterCycle

\* Nothing happened.
LEMMA AgesSame ==
  ASSUME NEW a, Sound(a)
  PROVE  AfterCall(a, a) /\ AfterCycle(a, a)
<1>1. /\ a.result \in [Id -> Results] /\ a.nextId \in 1 .. MaxId + 1
  BY DEF Sound, Book, Waiting, Counted, Ids
<1>2. a.nextId <= a.nextId
  BY <1>1, AxisAssumption
<1>3. Ages(a, a)
  BY <1>2 DEF Ages, Settles, Continues, Offsets, Final
<1> QED
  BY <1>3 DEF AfterCall, AfterCycle, CompletesNone, CompletesOne

\* The types of what the lemmas below speak of.
LEMMA SoundTypes ==
  ASSUME NEW a, Sound(a)
  PROVE  /\ Shape(a) /\ Counted(a) /\ Waiting(a) /\ Book(a) /\ Line(a) /\ Kept(a)
         /\ a.queue \in Seq(Command) /\ a.result \in [Id -> Results]
         /\ a.nextId \in 1 .. MaxId + 1 /\ a.nextId <= a.nextId
         /\ a.activeId \in 0 .. MaxId /\ a.supId \in 0 .. MaxId
         /\ a.sync = "none" /\ a.syncId = 0 /\ a.streamId = 0
         /\ a.active => a.activeId # 0 /\ a.activeId \in Id /\ a.result[a.activeId] = "live"
         /\ ~a.active => a.activeId = 0
<1>1. /\ Shape(a) /\ Counted(a) /\ Waiting(a) /\ Book(a) /\ Line(a) /\ Kept(a)
      /\ a.queue \in Seq(Command) /\ a.result \in [Id -> Results]
      /\ a.nextId \in 1 .. MaxId + 1
      /\ a.activeId \in 0 .. MaxId /\ a.supId \in 0 .. MaxId
      /\ a.sync = "none" /\ a.streamId = 0 /\ (~a.active => a.activeId = 0)
  BY DEF Sound, Alone, Book, Waiting, Counted, Ids
<1>2. a.syncId = 0
  BY <1>1 DEF Waiting
<1>3. a.active => a.activeId # 0
  BY <1>1 DEF Sound, Alone, Line, Segments
<1>4. \A i \in 0 .. MaxId : i # 0 => i \in Id
  BY AxisAssumption DEF Id
<1>5. a.active => a.result[a.activeId] = "live"
  BY <1>1, <1>3 DEF Book, Fits
<1>6. a.nextId <= a.nextId
  BY <1>1, AxisAssumption
<1> QED
  BY <1>1, <1>2, <1>3, <1>4, <1>5, <1>6

\* Failures of commands are in the ledger of b; offsets are not recorded there.
Ledger(a, S, b) == \A i \in Id : i \in S => i = a.supId \/ i \in b.errors

\* The ids in E enter the ledger; a completion is recorded.
Enters(a, b, E) == b.errors = a.errors \cup E /\ \A i \in E : i \in Id /\ b.result[i] = "error"
Completes(a, b) == b.lastDone = a.lastDone \/ (b.lastDone \in Id /\ b.result[b.lastDone] = "done")

\* Ids that end.
LEMMA EndedSettles ==
  ASSUME NEW a, a.result \in [Id -> Results], NEW S, NEW r \in Final,
         NEW b, b.result = Ended(a, S, r),
         r = "error" => Ledger(a, S, b)
  PROVE  /\ Settles(a, b)
         /\ r # "done" => \A i \in Id : b.result[i] = "done" => a.result[i] = "done"
         /\ \A i \in Id : i \in S /\ a.result[i] = "live" => b.result[i] = r
  BY DEF Settles, Ended, Final, Ledger

\* Records stay true; E is added to the ledger of errors.
LEMMA RecordsKept ==
  ASSUME NEW a, Recorded(a), NEW b, Settles(a, b),
         NEW E, Enters(a, b, E), Completes(a, b)
  PROVE  Recorded(b)
  BY DEF Recorded, Settles, Final, Enters, Completes

\* The ids that the axis works on, when nothing but commands and offsets is there.
LEMMA OwnedLive ==
  ASSUME NEW a, Sound(a)
  PROVE  /\ OwnedIds(a) \subseteq Id
         /\ \A i \in OwnedIds(a) : a.result[i] = "live"
         /\ \A i \in Id : Runs(a, i) => i \in OwnedIds(a)
<1>1. /\ Book(a) /\ a.queue \in Seq(Command)
      /\ a.activeId \in 0 .. MaxId /\ a.supId \in 0 .. MaxId
      /\ a.syncId = 0 /\ a.streamId = 0
  BY SoundTypes
<1>2. \A k \in DOMAIN a.queue : a.queue[k].id \in 0 .. MaxId
  BY <1>1, QueueElements
<1>3. \A i \in 0 .. MaxId : i # 0 => i \in Id
  BY AxisAssumption DEF Id
<1>4. OwnedIds(a) \subseteq Id
  BY <1>1, <1>2, <1>3 DEF OwnedIds, QueueIds
<1>5. \A i \in OwnedIds(a) : a.result[i] = "live"
  BY <1>1 DEF Book, Waiting, Fits, Live, OwnedIds, QueueIds
<1>6. \A i \in Id : i # 0
  BY DEF Id
<1> QED
  BY <1>4, <1>5, <1>6 DEF Runs, OwnedIds

\* What the private functions do to the records.
LEMMA AbortRecords ==
  ASSUME NEW a, Shape(a)
  PROVE  LET b == abort_motion(a) IN
         b.errors = a.errors /\ b.lastDone = a.lastDone /\ b.supDone = 0
  BY DEF Shape, abort_motion, AxisFields

LEMMA StartRecords ==
  ASSUME NEW a, Shape(a), NEW c, NEW n, NEW ok
  PROVE  LET b == start(a, c, n, ok) IN
         b.errors = a.errors /\ b.lastDone = a.lastDone /\ b.supDone = a.supDone
<1> DEFINE d == normalize(c)
           e == [a EXCEPT !.cmd = d, !.activeId = d.id, !.holding = FALSE, !.left = n]
<1> HIDE DEF d
<1>1. /\ Shape(e)
      /\ \A f \in AxisFields \ {"cmd", "activeId", "holding", "left"} : e[f] = a[f]
  BY DEF Shape, AxisFields
<1> QED
  BY <1>1 DEF Shape, start, AxisFields, d

LEMMA NextRecords ==
  ASSUME NEW a, Shape(a), NEW n, NEW ok
  PROVE  LET b == start_next_queued(a, n, ok) IN
         b.errors = a.errors /\ b.lastDone = a.lastDone /\ b.supDone = a.supDone
<1> DEFINE d == [a EXCEPT !.queue = Tail(@)]
<1>1. Shape(d) /\ d.errors = a.errors /\ d.lastDone = a.lastDone /\ d.supDone = a.supDone
  BY DEF Shape, AxisFields
<1>2. start_next_queued(a, n, ok) = IF a.queue = <<>> THEN a ELSE start(d, Head(a.queue), n, ok)
  BY DEF start_next_queued
<1> HIDE DEF d
<1>3. CASE a.queue = <<>>
  BY <1>2, <1>3
<1>4. CASE a.queue # <<>>
  BY <1>1, <1>2, <1>4, StartRecords
<1> QED
  BY <1>3, <1>4

\* abort_motion ends what there is, with CommandAborted.
LEMMA AbortAges ==
  ASSUME NEW a, Sound(a)
  PROVE  AfterCall(a, abort_motion(a))
<1> DEFINE b == abort_motion(a)
<1>0. /\ Shape(a) /\ Counted(a) /\ Line(a) /\ Kept(a)
      /\ a.result \in [Id -> Results] /\ a.nextId <= a.nextId
  BY SoundTypes
<1>1. /\ Shape(b) /\ ~b.active /\ b.activeId = 0
      /\ b.sync = "none" /\ b.streamId = 0 /\ b.supId = 0
      /\ b.nextId = a.nextId /\ b.result = Ended(a, OwnedIds(a), "aborted")
      /\ b.errors = a.errors /\ b.lastDone = a.lastDone /\ b.supDone = 0
  BY <1>0, AbortEffect, AbortRecords
<1>2. Book(b) /\ Kept(b)
  BY <1>0, AbortBook DEF Kept
<1>3. Line(b)
  BY <1>0, AbortClears, LineKept DEF Quiet
<1> HIDE DEF b
<1>4. /\ Settles(a, b)
      /\ \A i \in Id : b.result[i] = "done" => a.result[i] = "done"
      /\ \A i \in Id : i \in OwnedIds(a) /\ a.result[i] = "live" => b.result[i] = "aborted"
  BY <1>0, <1>1, EndedSettles DEF Final
<1>5. Continues(a, b)
  BY <1>4, OwnedLive DEF Continues
<1>6. Ages(a, b)
  BY <1>0, <1>1, <1>4, <1>5 DEF Ages, Offsets
<1>7. Recorded(b)
  <2>1. Enters(a, b, {}) /\ Completes(a, b)
    BY <1>1 DEF Enters, Completes
  <2> QED
    BY <1>4, <2>1, RecordsKept DEF Sound
<1>8. Sound(b)
  BY <1>1, <1>2, <1>3, <1>7 DEF Sound, Alone
<1> QED
  BY <1>1, <1>4, <1>6, <1>8 DEF AfterCall, CompletesNone, b

\* trigger_error ends it with Error, and records each id.
LEMMA ErrorAges ==
  ASSUME NEW a, Sound(a)
  PROVE  AfterCall(a, trigger_error(a))
<1> DEFINE S == OwnedIds(a) \cup ({a.activeId} \ {0})
           r == record_command_error(a, S)
           d == abort_motion(r)
           b == trigger_error(a)
<1>0. /\ Shape(a) /\ Counted(a) /\ Line(a) /\ Kept(a)
      /\ a.result \in [Id -> Results] /\ a.nextId <= a.nextId
      /\ ~a.active => a.activeId = 0
  BY SoundTypes
<1>1. /\ OwnedIds(a) \subseteq Id /\ \A i \in OwnedIds(a) : a.result[i] = "live"
      /\ \A i \in Id : Runs(a, i) => i \in OwnedIds(a)
  BY OwnedLive
<1>2. S = OwnedIds(a) /\ 0 \notin S
  BY <1>0 DEF OwnedIds
<1>3. /\ Shape(r) /\ r.result = Ended(a, S, "error") /\ r.errors = a.errors \cup S
      /\ \A f \in AxisFields \ {"errors", "result"} : r[f] = a[f]
  BY <1>0, <1>2 DEF record_command_error, Shape, AxisFields
<1>4. b = [d EXCEPT !.error = TRUE, !.status = "errorstop"]
  BY DEF trigger_error
<1> HIDE DEF r, S
<1>5. r.nextId = a.nextId /\ r.lastDone = a.lastDone /\ OwnedIds(r) = S
  BY <1>2, <1>3 DEF AxisFields, OwnedIds, QueueIds
<1>6. /\ Shape(d) /\ ~d.active /\ d.activeId = 0
      /\ d.sync = "none" /\ d.streamId = 0 /\ d.supId = 0
      /\ d.nextId = r.nextId /\ d.result = Ended(r, OwnedIds(r), "aborted")
      /\ d.errors = r.errors /\ d.lastDone = r.lastDone /\ d.supDone = 0
  BY <1>3, AbortEffect, AbortRecords
<1> HIDE DEF d
<1>7. /\ Shape(b) /\ ~b.active /\ b.activeId = 0
      /\ b.sync = "none" /\ b.streamId = 0 /\ b.supId = 0
      /\ b.nextId = a.nextId /\ b.result = d.result
      /\ b.errors = a.errors \cup S /\ b.lastDone = a.lastDone /\ b.supDone = 0
  BY <1>3, <1>4, <1>5, <1>6 DEF Shape, AxisFields
<1>8. Book(b) /\ Kept(b) /\ Line(b)
  BY <1>0, ErrorBook, AbortClears, LineKept DEF Quiet
<1> HIDE DEF b
<1>9. b.result = Ended(a, S, "error")
  BY <1>3, <1>5, <1>6, <1>7 DEF Ended
<1>10. /\ Settles(a, b)
       /\ \A i \in Id : b.result[i] = "done" => a.result[i] = "done"
       /\ \A i \in Id : i \in S /\ a.result[i] = "live" => b.result[i] = "error"
  <2>1. Ledger(a, S, b) /\ "error" \in Final
    BY <1>7 DEF Ledger, Final
  <2> QED
    BY <1>0, <1>9, <2>1, EndedSettles
<1>11. Continues(a, b)
  BY <1>1, <1>2, <1>10 DEF Continues
<1>12. Ages(a, b)
  BY <1>0, <1>7, <1>10, <1>11 DEF Ages, Offsets
<1>13. Recorded(b)
  <2>1. Enters(a, b, S) /\ Completes(a, b)
    BY <1>1, <1>2, <1>7, <1>10 DEF Enters, Completes
  <2> QED
    BY <1>10, <2>1, RecordsKept DEF Sound
<1>14. Sound(b)
  BY <1>7, <1>8, <1>13 DEF Sound, Alone
<1> QED
  BY <1>7, <1>10, <1>12, <1>14 DEF AfterCall, CompletesNone, b

\* The next command of the queue takes nothing from the records, and is no profile.
LEMMA NextKeeps ==
  ASSUME PlansSucceed, NEW a, Line(a), a.active \/ a.activeId = 0,
         a.active => a.cmd.kind # "acceleration_profile",
         NEW n, NEW ok \in Feasible
  PROVE  LET b == start_next_queued(a, n, ok) IN
         /\ Line(b)
         /\ b.result = a.result /\ b.nextId = a.nextId /\ b.supId = a.supId
         /\ b.sync = a.sync /\ b.streamId = a.streamId
         /\ b.errors = a.errors /\ b.lastDone = a.lastDone /\ b.supDone = a.supDone
         /\ ~b.active => b.activeId = 0
         /\ b.active => b.cmd.kind # "acceleration_profile"
<1> DEFINE b == start_next_queued(a, n, ok)
<1>0. Shape(a) /\ a.queue \in Seq(Command) /\ Plannable(a)
  BY DEF Line
<1>1. Line(b)
  BY NextLine
<1>2. b.errors = a.errors /\ b.lastDone = a.lastDone /\ b.supDone = a.supDone
  BY <1>0, NextRecords
<1>3. CASE a.queue = <<>>
  <2>1. b = a
    BY <1>3 DEF start_next_queued
  <2> HIDE DEF b
  <2> QED
    BY <1>1, <2>1 DEF b
<1>4. CASE a.queue # <<>>
  <2> DEFINE c == Head(a.queue)
  <2>1. ok
    BY DEF PlansSucceed
  <2>2. /\ b.result = a.result /\ b.nextId = a.nextId /\ b.supId = a.supId
        /\ b.sync = a.sync /\ b.streamId = a.streamId
        /\ b.active /\ b.cmd = normalize(c)
    <3>1. /\ b.result = a.result /\ b.nextId = a.nextId /\ b.supId = a.supId
          /\ b.sync = a.sync /\ b.streamId = a.streamId
          /\ (b.active /\ b.cmd = normalize(c)) \/ ~(Plannable(a) /\ ok)
      BY <1>0, <1>4, NextEffect
    <3> QED
      BY <1>0, <2>1, <3>1
  <2>3. c \in Command /\ c = a.queue[1] /\ 1 \in DOMAIN a.queue
    BY <1>0, <1>4, TailFacts
  <2>4. a.queue[1].kind # "acceleration_profile"
    BY <2>3 DEF Line, Segments
  <2>5. normalize(c).kind # "acceleration_profile"
    BY <2>3, <2>4 DEF normalize, Command
  <2> HIDE DEF b, c
  <2> QED
    BY <1>1, <1>2, <2>2, <2>5 DEF b
<1> QED
  BY <1>3, <1>4

\* The active command ends with r: it is done, or failed.
Closes(a, b, r) ==
    /\ b.result = Ended(a, {a.activeId}, r)
    /\ b.nextId = a.nextId /\ b.supId = a.supId /\ b.supDone = a.supDone
    /\ b.sync = a.sync /\ b.streamId = a.streamId
    /\ IF r = "done" THEN b.errors = a.errors /\ b.lastDone = a.activeId
       ELSE b.errors = a.errors \cup {a.activeId} /\ b.lastDone = a.lastDone

\* A command that is done was no continuous motion; one that failed is recorded.
LEMMA ClosesAges ==
  ASSUME NEW a, Sound(a), a.active, NEW r \in {"done", "error"}, NEW b, Closes(a, b, r),
         r = "done" => a.cmd.kind # "move_continuous_absolute"
  PROVE  /\ Ages(a, b) /\ Recorded(b)
         /\ r = "done" => CompletesOne(a, b)
         /\ r = "error" => CompletesNone(a, b)
<1>0. /\ a.result \in [Id -> Results] /\ a.nextId <= a.nextId
      /\ a.activeId \in Id /\ a.result[a.activeId] = "live"
  BY SoundTypes
<1>1. /\ Settles(a, b)
      /\ r # "done" => \A i \in Id : b.result[i] = "done" => a.result[i] = "done"
      /\ \A i \in Id : i \in {a.activeId} /\ a.result[i] = "live" => b.result[i] = r
  <2> DEFINE S == {a.activeId}
  <2>1. r \in Final /\ b.result = Ended(a, S, r)
    BY DEF Final, Closes
  <2>2. r = "error" => Ledger(a, S, b)
    BY DEF Closes, Ledger
  <2> HIDE DEF S
  <2>3. /\ Settles(a, b)
        /\ r # "done" => \A i \in Id : b.result[i] = "done" => a.result[i] = "done"
        /\ \A i \in Id : i \in S /\ a.result[i] = "live" => b.result[i] = r
    BY <1>0, <2>1, <2>2, EndedSettles
  <2> QED
    BY <2>3 DEF S
<1>2. b.result[a.activeId] = r
  BY <1>0, <1>1
<1>3. \A i \in Id : a.result[i] = "live" /\ b.result[i] = "done" => i = a.activeId
  BY DEF Closes, Ended
<1>4. Continues(a, b)
  BY <1>2 DEF Continues, Runs
<1>5. Ages(a, b)
  BY <1>0, <1>1, <1>4 DEF Ages, Offsets, Closes
<1>6. Recorded(b)
  <2>0. Recorded(a) /\ Settles(a, b)
    BY <1>1 DEF Sound
  <2>1. CASE r = "done"
    <3>1. Enters(a, b, {}) /\ Completes(a, b)
      BY <1>0, <1>2, <2>1 DEF Closes, Enters, Completes
    <3> QED
      BY <2>0, <3>1, RecordsKept
  <2>2. CASE r = "error"
    <3>1. Enters(a, b, {a.activeId}) /\ Completes(a, b)
      BY <1>0, <1>2, <2>2 DEF Closes, Enters, Completes
    <3> QED
      BY <2>0, <3>1, RecordsKept
  <2> QED
    BY <2>1, <2>2
<1>7. r = "done" => CompletesOne(a, b)
  BY <1>3 DEF CompletesOne, Closes
<1>8. r = "error" => CompletesNone(a, b)
  BY <1>1 DEF CompletesNone, Closes
<1> QED
  BY <1>5, <1>6, <1>7, <1>8

\* finish_active: the command is done, and the next one follows.
LEMMA FinishAges ==
  ASSUME PlansSucceed, NEW a, Sound(a), a.active, a.cmd.kind # "move_continuous_absolute",
         NEW n, NEW ok \in Feasible
  PROVE  AfterCycle(a, finish_active(a, n, ok)) /\ finish_active(a, n, ok).supId = a.supId
<1> DEFINE locking == a.cmd.kind = "stop" /\ a.cmd.lock
           locked == locking /\ a.stopLock = a.activeId /\ ~a.stopRelease
           v == [a EXCEPT !.active = FALSE, !.cmd = NoCommand, !.activeId = 0,
                       !.left = 0, !.holding = FALSE, !.moving = FALSE,
                       !.lastDone = a.activeId,
                       !.result = Ended(a, {a.activeId}, "done"),
                       !.status = IF locked THEN "stopping"
                                  ELSE IF a.cmd.homing THEN "homing" ELSE RestStatus(a),
                       !.stopLock = IF locking /\ ~locked THEN 0 ELSE @,
                       !.stopRelease = IF locking /\ ~locked THEN FALSE ELSE @]
           b == finish_active(a, n, ok)
<1>0. /\ Shape(a) /\ Line(a) /\ Book(a) /\ Kept(a) /\ Plannable(a)
      /\ a.cmd.kind # "acceleration_profile" /\ a.sync = "none" /\ a.streamId = 0
  BY SoundTypes DEF Sound, Alone, Line
<1>1. ok
  BY DEF PlansSucceed
<1>2. /\ Shape(v) /\ ~v.active /\ v.activeId = 0
      /\ v.queue = a.queue /\ v.override = a.override
      /\ Closes(a, v, "done")
  BY <1>0 DEF Shape, AxisFields, Closes
<1>3. b = IF locked THEN v ELSE start_next_queued(v, n, ok)
  BY DEF finish_active
<1> HIDE DEF v, locked, b
<1>4. Line(v)
  BY <1>0, <1>2 DEF Line, Plannable, Segments
<1>5. /\ Closes(a, b, "done")
      /\ ~b.active => b.activeId = 0
      /\ b.active => b.cmd.kind # "acceleration_profile"
  <2>1. CASE locked
    BY <1>2, <1>3, <2>1
  <2>2. CASE ~locked
    <3> DEFINE d == start_next_queued(v, n, ok)
    <3>1. /\ d.result = v.result /\ d.nextId = v.nextId /\ d.supId = v.supId
          /\ d.sync = v.sync /\ d.streamId = v.streamId
          /\ d.errors = v.errors /\ d.lastDone = v.lastDone /\ d.supDone = v.supDone
          /\ ~d.active => d.activeId = 0
          /\ d.active => d.cmd.kind # "acceleration_profile"
      BY <1>2, <1>4, NextKeeps
    <3>2. b = d
      BY <1>3, <2>2
    <3> HIDE DEF d
    <3> QED
      BY <1>2, <3>1, <3>2 DEF Closes
  <2> QED
    BY <2>1, <2>2
<1>6. Book(b) /\ Kept(b) /\ Line(b)
  BY <1>0, <1>1, FinishBook, EndsLine DEF b
<1>7. Ages(a, b) /\ Recorded(b) /\ CompletesOne(a, b)
  BY <1>5, ClosesAges
<1>8. Sound(b)
  BY <1>0, <1>5, <1>6, <1>7 DEF Sound, Alone, Closes
<1>9. b.supId = a.supId
  BY <1>5 DEF Closes
<1> QED
  BY <1>7, <1>8, <1>9 DEF AfterCycle, b

\* blend_into_next: the command is done when its successor takes over.
LEMMA BlendAges ==
  ASSUME PlansSucceed, NEW a, Sound(a), a.active, a.cmd.kind = "move_absolute",
         a.queue # <<>>, NEW n, NEW ok \in Feasible
  PROVE  AfterCycle(a, blend_into_next(a, n, ok)) /\ blend_into_next(a, n, ok).supId = a.supId
<1> DEFINE v == [a EXCEPT !.lastDone = a.activeId, !.result = Ended(a, {a.activeId}, "done")]
           b == blend_into_next(a, n, ok)
<1>0. /\ Shape(a) /\ Line(a) /\ Book(a) /\ Kept(a) /\ Plannable(a)
      /\ a.sync = "none" /\ a.streamId = 0
  BY SoundTypes DEF Line
<1>1. ok
  BY DEF PlansSucceed
<1>2. /\ SameLine(a, v) /\ Closes(a, v, "done")
  BY <1>0 DEF Shape, AxisFields, Closes, SameLine
<1>3. b = start_next_queued(v, n, ok)
  BY DEF blend_into_next
<1> HIDE DEF v, b
<1>4. Line(v) /\ v.active /\ v.cmd.kind # "acceleration_profile"
  BY <1>0, <1>2, LineKept DEF Quiet, SameLine
<1>5. /\ b.result = v.result /\ b.nextId = v.nextId /\ b.supId = v.supId
      /\ b.sync = v.sync /\ b.streamId = v.streamId
      /\ b.errors = v.errors /\ b.lastDone = v.lastDone /\ b.supDone = v.supDone
      /\ ~b.active => b.activeId = 0
      /\ b.active => b.cmd.kind # "acceleration_profile"
  BY <1>3, <1>4, NextKeeps
<1>6. Closes(a, b, "done")
  BY <1>2, <1>5 DEF Closes
<1>7. Book(b) /\ Kept(b) /\ Line(b)
  BY <1>0, <1>1, BlendBook, EndsLine DEF b
<1>8. Ages(a, b) /\ Recorded(b) /\ CompletesOne(a, b)
  BY <1>6, ClosesAges
<1>9. Sound(b)
  BY <1>0, <1>5, <1>6, <1>7, <1>8 DEF Sound, Alone, Closes
<1>10. b.supId = a.supId
  BY <1>6 DEF Closes
<1> QED
  BY <1>8, <1>9, <1>10 DEF AfterCycle, b

\* fail_command: the command failed, and the next one follows.
LEMMA FailAges ==
  ASSUME PlansSucceed, NEW a, Sound(a), a.active, NEW n, NEW ok \in Feasible
  PROVE  AfterCall(a, fail_command(a, n, ok))
<1> DEFINE r == record_command_error(a, {a.activeId})
           v == [r EXCEPT !.active = FALSE, !.cmd = NoCommand, !.activeId = 0, !.left = 0,
                          !.holding = FALSE, !.braking = FALSE, !.paused = FALSE,
                          !.status = IF a.cmd.homing THEN "homing" ELSE RestStatus(a)]
           d == start_next_queued(v, n, ok)
           b == fail_command(a, n, ok)
<1>0. /\ Shape(a) /\ Line(a) /\ Book(a) /\ Kept(a) /\ Plannable(a)
      /\ a.cmd.kind # "acceleration_profile" /\ a.sync = "none" /\ a.streamId = 0
      /\ a.activeId # 0
  BY SoundTypes DEF Sound, Alone, Line
<1>1. ok
  BY DEF PlansSucceed
<1>2. /\ Shape(r) /\ r.result = Ended(a, {a.activeId}, "error")
      /\ r.errors = a.errors \cup {a.activeId}
      /\ \A f \in AxisFields \ {"errors", "result"} : r[f] = a[f]
  BY <1>0 DEF record_command_error, Shape, AxisFields
<1>3. b = [d EXCEPT !.moving = d.active /\ @]
  BY DEF fail_command
<1> HIDE DEF r
<1>4. /\ Shape(v) /\ ~v.active /\ v.activeId = 0
      /\ v.queue = a.queue /\ v.override = a.override
      /\ Closes(a, v, "error")
  BY <1>2 DEF Shape, AxisFields, Closes
<1> HIDE DEF v
<1>5. Line(v)
  BY <1>0, <1>4 DEF Line, Plannable, Segments
<1>6. /\ Line(d)
      /\ d.result = v.result /\ d.nextId = v.nextId /\ d.supId = v.supId
      /\ d.sync = v.sync /\ d.streamId = v.streamId
      /\ d.errors = v.errors /\ d.lastDone = v.lastDone /\ d.supDone = v.supDone
      /\ ~d.active => d.activeId = 0
      /\ d.active => d.cmd.kind # "acceleration_profile"
  BY <1>4, <1>5, NextKeeps
<1> HIDE DEF d
<1>7. /\ b.result = d.result /\ b.nextId = d.nextId /\ b.supId = d.supId
      /\ b.sync = d.sync /\ b.streamId = d.streamId
      /\ b.errors = d.errors /\ b.lastDone = d.lastDone /\ b.supDone = d.supDone
      /\ b.active = d.active /\ b.activeId = d.activeId /\ b.cmd = d.cmd
  BY <1>3, <1>6 DEF Line, Shape, AxisFields
<1> HIDE DEF b
<1>8. Closes(a, b, "error")
  BY <1>4, <1>6, <1>7 DEF Closes
<1>9. Book(b) /\ Kept(b) /\ Line(b)
  BY <1>0, <1>1, FailBook, EndsLine DEF b
<1>10. Ages(a, b) /\ Recorded(b) /\ CompletesNone(a, b)
  BY <1>8, ClosesAges
<1>11. Sound(b)
  BY <1>0, <1>6, <1>7, <1>8, <1>9, <1>10 DEF Sound, Alone, Closes
<1> QED
  BY <1>10, <1>11 DEF AfterCall, b

\* A cycle does not end a continuous motion.
LEMMA ContinuousGoesOn ==
  ASSUME NEW a, Shape(a), a.cmd.kind = "move_continuous_absolute",
         NEW m, NEW blend, NEW n, NEW ok
  PROVE  Moved(a, cycle_base_motion(a, m, blend, n, ok))
<1> DEFINE B == cycle_base_motion(a, m, blend, n, ok)
           T(x) == Tick([a EXCEPT !.moving = x])
<1>1. Moved(a, a)
  BY DEF Moved
<1>2. \A x : /\ Moved(a, T(x))
             /\ Moved(a, [T(x) EXCEPT !.braking = FALSE, !.paused = TRUE, !.moving = FALSE])
             /\ Moved(a, [T(x) EXCEPT !.holding = TRUE, !.status = "continuous_motion"])
  BY DEF Tick, Moved, Shape, AxisFields
<1>3. \A x : Tick([a EXCEPT !.moving = x]) = T(x)
  OBVIOUS
<1>4. ~BlendEligible(a)
  BY DEF BlendEligible
<1> HIDE DEF T
<1>5. CASE ~a.active \/ a.paused
  BY <1>1, <1>5 DEF cycle_base_motion
<1>6. CASE a.active /\ ~a.paused
  <2>1. B \in {T(IF a.holding THEN m ELSE a.override), T(m),
               [T(m) EXCEPT !.braking = FALSE, !.paused = TRUE, !.moving = FALSE],
               [T(m) EXCEPT !.holding = TRUE, !.status = "continuous_motion"]}
    BY <1>3, <1>4, <1>6 DEF cycle_base_motion
  <2> HIDE DEF B
  <2>2. Moved(a, B)
    BY <1>2, <2>1
  <2> QED
    BY <2>2 DEF B
<1> QED
  BY <1>5, <1>6

\* Progress changes nothing that the blocks look at.
LEMMA MovedAlike ==
  ASSUME NEW a, NEW t, Moved(a, t)
  PROVE  Alike(a, t) /\ t.cmd = a.cmd /\ t.queue = a.queue /\ t.active = a.active /\ t.supId = a.supId
<1>1. Shape(t) /\ \A f \in KeyFields : t[f] = a[f]
  BY DEF Moved, KeyFields, BookFields, AxisFields
<1>2. t.cmd = a.cmd /\ t.queue = a.queue /\ t.active = a.active /\ t.supId = a.supId
  BY DEF Moved, AxisFields
<1> QED
  BY <1>1, <1>2 DEF Alike

\* The base motion of a cycle.
LEMMA BaseAges ==
  ASSUME PlansSucceed, NEW a, Sound(a), NEW m, NEW blend, NEW n, NEW ok \in Feasible
  PROVE  LET b == cycle_base_motion(a, m, blend, n, ok) IN
         AfterCycle(a, b) /\ b.supId = a.supId
<1> DEFINE B == cycle_base_motion(a, m, blend, n, ok)
<1>0. Shape(a) /\ AfterCycle(a, a)
  BY SoundTypes, AgesSame
<1>1. ASSUME NEW t, Moved(a, t)
      PROVE  AfterCycle(a, t) /\ t.supId = a.supId
  BY <1>0, <1>1, MovedAlike, AgesAlike
<1>2. CASE a.cmd.kind = "move_continuous_absolute"
  <2>1. Moved(a, B)
    BY <1>0, <1>2, ContinuousGoesOn
  <2> HIDE DEF B
  <2> QED
    BY <1>1, <2>1 DEF B
<1>3. CASE a.cmd.kind # "move_continuous_absolute" /\ B # a
  <2>1. a.active
    BY <1>0, <1>3, BaseForms
  <2>2. PICK t : /\ Moved(a, t)
                 /\ \/ B = t
                    \/ /\ a.cmd.kind # "acceleration_profile"
                       /\ B = finish_active(t, n, ok)
                    \/ /\ a.queue # <<>> /\ a.cmd.kind = "move_absolute"
                       /\ B = blend_into_next(t, n, ok)
    BY <1>0, <1>3, BaseForms
  <2>3. /\ Alike(a, t) /\ t.cmd = a.cmd /\ t.queue = a.queue /\ t.active = a.active
        /\ t.supId = a.supId
    BY <2>2, MovedAlike
  <2>4. Sound(t)
    BY <2>3, SoundAlike
  <2> HIDE DEF B
  <2>5. CASE B = t
    BY <1>1, <2>2, <2>5 DEF B
  <2>6. CASE B = finish_active(t, n, ok)
    <3>1. AfterCycle(t, B) /\ B.supId = t.supId
      BY <1>3, <2>1, <2>3, <2>4, <2>6, FinishAges
    <3> QED
      BY <2>3, <3>1, AgesAlike DEF B
  <2>7. CASE /\ a.queue # <<>> /\ a.cmd.kind = "move_absolute"
             /\ B = blend_into_next(t, n, ok)
    <3>1. AfterCycle(t, B) /\ B.supId = t.supId
      BY <2>1, <2>3, <2>4, <2>7, BlendAges
    <3> QED
      BY <2>3, <3>1, AgesAlike DEF B
  <2> QED
    BY <2>2, <2>5, <2>6, <2>7
<1>4. CASE B = a
  BY <1>0, <1>4
<1> QED
  BY <1>2, <1>3, <1>4

\* An offset that ends completes no command.
CompletesOffset(a, b) ==
    /\ b.lastDone = a.lastDone
    /\ \A i \in Id : b.result[i] = "done" => a.result[i] = "done" \/ i = a.supId

\* The offset goes on, or ends.
LEMMA OffsetAges ==
  ASSUME NEW a, Sound(a), NEW m
  PROVE  LET b == cycle_superimposed(a, m) IN
         Sound(b) /\ Ages(a, b) /\ CompletesOffset(a, b)
<1> DEFINE b == cycle_superimposed(a, m)
           r == IF a.supHalting THEN "aborted" ELSE "done"
<1>0. /\ Shape(a) /\ Book(a) /\ Kept(a) /\ Line(a) /\ a.sync = "none" /\ a.streamId = 0
      /\ a.result \in [Id -> Results] /\ a.nextId <= a.nextId
  BY SoundTypes
<1>1. OneWriter(a)
  BY <1>0 DEF OneWriter
<1>2. Book(b) /\ Kept(b)
  BY <1>0, <1>1, OffsetBook DEF Books
<1>3. \A f \in KeyFields \ {"supId", "supDone", "result"} : b[f] = a[f]
  BY <1>0 DEF cycle_superimposed, Shape, AxisFields, KeyFields, BookFields
<1>4. /\ Shape(b)
      /\ b.stopLock = a.stopLock
      /\ \/ b.supId = a.supId /\ b.supDone = a.supDone /\ b.result = a.result
         \/ /\ b.supId = 0 /\ b.supDone \in {0, a.supId} /\ b.result = Ended(a, {a.supId}, r)
  BY <1>0 DEF cycle_superimposed, Shape, AxisFields
<1> HIDE DEF b
<1>5. /\ b.active = a.active /\ b.activeId = a.activeId /\ b.queue = a.queue
      /\ b.sync = a.sync /\ b.streamId = a.streamId /\ b.nextId = a.nextId
      /\ b.override = a.override /\ b.cmd = a.cmd /\ b.errors = a.errors
      /\ b.lastDone = a.lastDone
  BY <1>3 DEF KeyFields, BookFields
<1>6. Line(b)
  BY <1>0, <1>4, <1>5, LineKept DEF Quiet, SameLine
<1>7. Settles(a, b)
  <2> DEFINE S == {a.supId}
  <2>1. r \in Final /\ r # "error"
    BY DEF Final
  <2> HIDE DEF r
  <2>2. CASE b.result = Ended(a, S, r)
    <3> HIDE DEF S
    <3> QED
      BY <1>0, <2>1, <2>2, EndedSettles
  <2>3. CASE b.result = a.result
    BY <1>0, <2>3 DEF Settles, Final
  <2> QED
    BY <1>4, <2>2, <2>3
<1>8. CompletesOffset(a, b)
  BY <1>4, <1>5 DEF CompletesOffset, Ended
<1>9. Recorded(b)
  <2>1. Enters(a, b, {}) /\ Completes(a, b)
    BY <1>5 DEF Enters, Completes
  <2> QED
    BY <1>7, <2>1, RecordsKept DEF Sound
<1>10. Ages(a, b)
  BY <1>0, <1>4, <1>5, <1>7 DEF Ages, Continues, Runs, Offsets
<1>11. Sound(b)
  BY <1>2, <1>5, <1>6, <1>9 DEF Sound, Alone
<1> QED
  BY <1>8, <1>10, <1>11 DEF b

\* A step after another one: the second completes at most an offset.
LEMMA AgesTwice ==
  ASSUME NEW a, Sound(a), NEW b, Sound(b), Ages(a, b), CompletesOne(a, b), b.supId = a.supId,
         NEW c, Sound(c), Ages(b, c), CompletesOffset(b, c)
  PROVE  AfterCycle(a, c)
<1>0. /\ a.nextId \in Nat /\ b.nextId \in Nat /\ c.nextId \in Nat /\ c.supId \in Nat
      /\ a.result \in [Id -> Results] /\ b.result \in [Id -> Results]
  <2>1. /\ a.nextId \in 1 .. MaxId + 1 /\ b.nextId \in 1 .. MaxId + 1
        /\ c.nextId \in 1 .. MaxId + 1 /\ c.supId \in 0 .. MaxId
        /\ a.result \in [Id -> Results] /\ b.result \in [Id -> Results]
    BY SoundTypes
  <2> QED
    BY <2>1, AxisAssumption
<1>1. Settles(a, c)
  BY DEF Ages, Settles, Final
<1>2. Continues(a, c)
  <2> SUFFICES ASSUME NEW i \in Id, Runs(a, i)
               PROVE  Runs(c, i) \/ c.result[i] \in {"aborted", "error"}
    BY DEF Continues
  <2>1. Runs(b, i) \/ b.result[i] \in {"aborted", "error"}
    BY DEF Ages, Continues
  <2>2. CASE Runs(b, i)
    BY <2>2 DEF Ages, Continues
  <2>3. CASE b.result[i] \in {"aborted", "error"}
    BY <2>3 DEF Ages, Settles, Final
  <2> QED
    BY <2>1, <2>2, <2>3
<1>3. Offsets(a, c) /\ a.nextId <= c.nextId /\ a.errors \subseteq c.errors
  <2>1. a.nextId <= c.nextId /\ (c.supId >= b.nextId => c.supId >= a.nextId)
    BY <1>0 DEF Ages
  <2> QED
    BY <2>1 DEF Ages, Offsets
<1>4. CompletesOne(a, c)
  <2> SUFFICES ASSUME NEW i \in Id, a.result[i] = "live", c.result[i] = "done", i # a.supId
               PROVE  c.lastDone = i
    BY DEF CompletesOne
  <2>1. b.result[i] = "done"
    BY DEF CompletesOffset
  <2> QED
    BY <2>1 DEF CompletesOne, CompletesOffset
<1> QED
  BY <1>1, <1>2, <1>3, <1>4 DEF AfterCycle, Ages

\* cycle()
LEMMA CycleAges ==
  ASSUME PlansSucceed, NEW a, Sound(a), NEW in, in.ok \in Feasible
  PROVE  AfterCycle(a, cycle(a, in))
<1> DEFINE b == cycle_base_motion(a, in.m, in.blend, in.n, in.ok)
           c == cycle_superimposed(b, in.m2)
<1>1. a.sync = "none" /\ a.streamId = 0
  BY SoundTypes
<1>2. cycle(a, in) = IF a.status = "errorstop" THEN a ELSE c
  BY <1>1 DEF cycle, SyncOwnsCycle
<1>3. AfterCycle(a, b) /\ b.supId = a.supId
  BY BaseAges
<1> HIDE DEF b
<1>4. Sound(b) /\ Ages(a, b) /\ CompletesOne(a, b)
  BY <1>3 DEF AfterCycle
<1>5. Sound(c) /\ Ages(b, c) /\ CompletesOffset(b, c)
  BY <1>4, OffsetAges
<1> HIDE DEF c
<1>6. AfterCycle(a, c)
  BY <1>3, <1>4, <1>5, AgesTwice
<1> QED
  BY <1>2, <1>6, AgesSame

-----------------------------------------------------------------------------
(* The calls, on any axis.                                                  *)

\* Calls that change nothing that the blocks look at.
LEMMA QuietCallsAge ==
  ASSUME NEW a, Sound(a), NEW b, Alike(a, b)
  PROVE  AfterCall(a, b)
  BY AgesSame, AgesAlike

\* MC_Power, the feedback of the drive, errors and MC_Reset.
LEMMA EnvironmentAges ==
  ASSUME NEW a, Sound(a)
  PROVE  /\ \A enabled \in BOOLEAN : /\ AfterCall(a, set_power(a, enabled))
                                     /\ AfterCall(a, set_power_feedback(a, enabled))
         /\ AfterCall(a, trigger_error(a)) /\ AfterCall(a, reset_error(a))
         /\ AfterCall(a, release_stop(a))
<1>0. Shape(a)
  BY SoundTypes
<1>1. ASSUME NEW enabled \in BOOLEAN PROVE AfterCall(a, set_power(a, enabled))
  <2> DEFINE d == abort_motion(a)
             s == IF enabled THEN "standstill" ELSE "disabled"
             b == [d EXCEPT !.powered = enabled, !.status = s]
  <2>1. AfterCall(a, d) /\ Shape(d) /\ set_power(a, enabled) = b
    BY <1>0, AbortAges, AbortEffect DEF set_power
  <2> HIDE DEF d
  <2>2. Alike(d, b)
    BY <2>1 DEF Alike, Shape, AxisFields, KeyFields, BookFields
  <2> HIDE DEF b
  <2> QED
    BY <2>1, <2>2, AgesAlike
<1>2. ASSUME NEW available \in BOOLEAN PROVE AfterCall(a, set_power_feedback(a, available))
  <2> DEFINE b == [a EXCEPT !.feedback = available]
             c == [b EXCEPT !.powered = FALSE]
  <2>1. /\ Alike(a, b) /\ Alike(a, c)
    BY <1>0 DEF Alike, Shape, AxisFields, KeyFields, BookFields
  <2>2. set_power_feedback(a, available) \in {b, trigger_error(c)}
    BY DEF set_power_feedback
  <2> HIDE DEF b, c
  <2>3. AfterCall(a, b)
    BY <2>1, QuietCallsAge
  <2>4. AfterCall(c, trigger_error(c))
    BY <2>1, SoundAlike, ErrorAges
  <2>5. AfterCall(a, trigger_error(c))
    BY <2>1, <2>4, AgesAlike
  <2> QED
    BY <2>2, <2>3, <2>5
<1>3. AfterCall(a, reset_error(a)) /\ AfterCall(a, release_stop(a))
  <2>1. Alike(a, reset_error(a)) /\ Alike(a, release_stop(a))
    BY <1>0 DEF reset_error, release_stop, Alike, Shape, AxisFields, KeyFields, BookFields
  <2> QED
    BY <2>1, QuietCallsAge
<1> QED
  BY <1>1, <1>2, <1>3, ErrorAges

\* update_active_target: a new profile, or the command fails.
LEMMA UpdateAges ==
  ASSUME PlansSucceed, NEW a, Sound(a), a.active, NEW inside, NEW n, NEW ok \in Feasible
  PROVE  AfterCall(a, update_active_target(a, inside, n, ok))
<1> DEFINE b == [a EXCEPT !.left = n, !.holding = FALSE]
<1>1. Alike(a, b)
  BY SoundTypes DEF Alike, Shape, AxisFields, KeyFields, BookFields
<1>2. update_active_target(a, inside, n, ok) \in {b, fail_command(a, n, ok)}
  BY DEF update_active_target
<1> HIDE DEF b
<1> QED
  BY <1>1, <1>2, QuietCallsAge, FailAges

\* submit_superimposed: the offset has a new id, and the old one is taken over.
LEMMA OffsetStartAges ==
  ASSUME NEW a, Sound(a), a.nextId <= MaxId, NEW n
  PROVE  LET b == submit_superimposed(a, n) IN
         AfterCall(a, b) /\ b.supId = a.nextId /\ b.nextId = a.nextId + 1 /\ b.supDone = 0
<1> DEFINE v == NewId(a, "live")
           b == submit_superimposed(a, n)
<1>0. /\ Shape(a) /\ Book(a) /\ Kept(a) /\ Line(a) /\ a.sync = "none" /\ a.streamId = 0
      /\ a.result \in [Id -> Results] /\ a.nextId \in 1 .. MaxId + 1
      /\ a.supId \in 0 .. MaxId /\ Counted(a)
  BY SoundTypes
<1>1. Book(b) /\ Kept(b)
  BY <1>0, OffsetStartBook DEF Books
<1>2. /\ Shape(v) /\ \A f \in AxisFields \ {"nextId", "result"} : v[f] = a[f]
      /\ v.nextId = a.nextId + 1 /\ v.result = [a.result EXCEPT ![a.nextId] = "live"]
  BY <1>0 DEF NewId, Shape, AxisFields
<1>3. b = [v EXCEPT !.supId = a.nextId, !.supLeft = n, !.supHalting = FALSE, !.supDone = 0,
                    !.result = Ended(v, {a.supId}, "aborted")]
  BY DEF submit_superimposed
<1> HIDE DEF b, v
<1>4. /\ Shape(b) /\ b.supId = a.nextId /\ b.supDone = 0
      /\ b.result = Ended(v, {a.supId}, "aborted")
      /\ \A f \in AxisFields \ {"supId", "supDone", "supLeft", "supHalting", "result"} :
            b[f] = v[f]
  BY <1>2, <1>3 DEF Shape, AxisFields
<1>5. /\ b.active = a.active /\ b.activeId = a.activeId /\ b.queue = a.queue
      /\ b.sync = a.sync /\ b.streamId = a.streamId /\ b.nextId = a.nextId + 1
      /\ b.override = a.override /\ b.cmd = a.cmd /\ b.errors = a.errors
      /\ b.lastDone = a.lastDone /\ b.stopLock = a.stopLock
  BY <1>2, <1>4 DEF AxisFields
<1>6. Line(b)
  BY <1>0, <1>4, <1>5, LineKept DEF Quiet, SameLine
<1>7. a.nextId \in Id /\ a.nextId <= a.nextId + 1 /\ a.nextId >= a.nextId
  BY <1>0, AxisAssumption DEF Id
<1>8. a.result[a.nextId] = "unused"
  BY <1>7, <1>0 DEF Counted
<1>9. \A i \in Id : i # a.nextId => b.result[i] = a.result[i]
                                      \/ (a.result[i] = "live" /\ b.result[i] = "aborted")
  BY <1>0, <1>2, <1>4, <1>7 DEF Ended
<1>10. b.result[a.nextId] \in {"live", "aborted"}
  BY <1>0, <1>2, <1>4, <1>7 DEF Ended
<1>11. Settles(a, b)
  BY <1>8, <1>9, <1>10 DEF Settles, Final
<1>12. \A i \in Id : b.result[i] = "done" => a.result[i] = "done"
  BY <1>9, <1>10
<1>13. Recorded(b)
  <2>1. Enters(a, b, {}) /\ Completes(a, b)
    BY <1>5 DEF Enters, Completes
  <2> QED
    BY <1>11, <2>1, RecordsKept DEF Sound
<1>14. Ages(a, b)
  BY <1>4, <1>5, <1>7, <1>11 DEF Ages, Continues, Runs, Offsets
<1>15. Sound(b)
  BY <1>1, <1>5, <1>6, <1>13 DEF Sound, Alone
<1> QED
  BY <1>4, <1>5, <1>12, <1>14, <1>15 DEF AfterCall, CompletesNone, b

\* abort_superimposed: the offset ends, if there is one.
LEMMA OffsetEndAges ==
  ASSUME NEW a, Sound(a)
  PROVE  AfterCall(a, abort_superimposed(a))
<1> DEFINE b == abort_superimposed(a)
<1>0. /\ Shape(a) /\ Book(a) /\ Kept(a) /\ Line(a) /\ a.syncId = 0 /\ a.streamId = 0
      /\ a.result \in [Id -> Results] /\ a.nextId <= a.nextId
  BY SoundTypes
<1>1. OffsetEnds(a, b, "error")
  BY DEF OffsetEnds, abort_superimposed
<1>2. Book(b) /\ Kept(b)
  BY <1>0, <1>1, OffsetEndBook DEF Books
<1>3. /\ Shape(b) /\ b.supId = 0 /\ b.supDone = 0 /\ b.result = Ended(a, {a.supId}, "error")
      /\ b.active = a.active /\ b.activeId = a.activeId /\ b.queue = a.queue
      /\ b.sync = a.sync /\ b.streamId = a.streamId /\ b.nextId = a.nextId
      /\ b.override = a.override /\ b.cmd = a.cmd /\ b.errors = a.errors
      /\ b.lastDone = a.lastDone /\ b.stopLock = a.stopLock
  BY <1>0, <1>1 DEF OffsetEnds, Shape, AxisFields
<1> HIDE DEF b
<1>4. Line(b)
  BY <1>0, <1>3, LineKept DEF Quiet, SameLine
<1>5. /\ Settles(a, b)
      /\ \A i \in Id : b.result[i] = "done" => a.result[i] = "done"
  <2> DEFINE S == {a.supId}
  <2>1. "error" \in Final /\ b.result = Ended(a, S, "error") /\ Ledger(a, S, b)
    BY <1>3 DEF Final, Ledger
  <2> HIDE DEF S
  <2> QED
    BY <1>0, <2>1, EndedSettles
<1>6. Recorded(b)
  <2>1. Enters(a, b, {}) /\ Completes(a, b)
    BY <1>3 DEF Enters, Completes
  <2> QED
    BY <1>5, <2>1, RecordsKept DEF Sound
<1>7. Ages(a, b)
  BY <1>0, <1>3, <1>5 DEF Ages, Continues, Runs, Offsets
<1>8. Sound(b)
  BY <1>0, <1>2, <1>3, <1>4, <1>6 DEF Sound, Alone
<1> QED
  BY <1>3, <1>5, <1>7, <1>8 DEF AfterCall, CompletesNone, b

\* What a submit comes to for the ids: the new one is given out, and what ends is
\* taken over.
Submits(a, b) ==
    /\ b.nextId = a.nextId + 1
    /\ b.result[a.nextId] \in {"live", "rejected"}
    /\ \A i \in Id : i # a.nextId =>
          b.result[i] = a.result[i] \/ (a.result[i] = "live" /\ b.result[i] = "aborted")
    /\ b.errors = a.errors /\ b.lastDone = a.lastDone
    /\ b.supId \in {a.supId, 0} /\ b.supDone \in {a.supDone, 0}
    /\ Continues(a, b)
    /\ Alone(b)

LEMMA SubmitsAge ==
  ASSUME NEW a, Sound(a), a.nextId \in Id, NEW b, Book(b), Kept(b), Line(b), Submits(a, b)
  PROVE  AfterCall(a, b)
<1>0. a.result \in [Id -> Results] /\ a.nextId \in 1 .. MaxId + 1 /\ Counted(a)
  BY SoundTypes
<1>1. a.result[a.nextId] = "unused" /\ a.nextId <= a.nextId + 1
  BY <1>0, AxisAssumption DEF Counted
<1>2. Settles(a, b)
  BY <1>1 DEF Submits, Settles, Final
<1>3. \A i \in Id : b.result[i] = "done" => a.result[i] = "done"
  BY DEF Submits
<1>4. Recorded(b)
  <2>1. Enters(a, b, {}) /\ Completes(a, b)
    BY DEF Enters, Completes, Submits
  <2> QED
    BY <1>2, <2>1, RecordsKept DEF Sound
<1>5. Ages(a, b)
  BY <1>1, <1>2 DEF Ages, Submits, Offsets
<1> QED
  BY <1>3, <1>4, <1>5 DEF AfterCall, CompletesNone, Sound, Submits

\* An accepted command: its id is live, and a continuous motion that takes over
\* is the active command.
Takes(a, b, in) ==
    /\ a.nextId \in Id /\ a.nextId # 0
    /\ b.result[a.nextId] = "live" /\ a.nextId # b.supId
    /\ in.kind = "move_continuous_absolute" /\ in.mode = "aborting" => Runs(b, a.nextId)

\* submit_impl, when plans succeed.
LEMMA SubmitAges ==
  ASSUME PlansSucceed, Sound(ax), NEW in \in CommandInput, in.inside = TRUE,
         NEW n \in Ticks, NEW ok \in Feasible, Submit(in, n, ok)
  PROVE  /\ AfterCall(ax, ax')
         /\ submit_impl(ax, in, n, ok).ok => Takes(ax, ax', in)
<1> DEFINE id == ax.nextId
           c == [kind |-> in.kind, mode |-> in.mode, inside |-> in.inside,
                 lock |-> in.lock, homing |-> in.homing, timed |-> in.timed, id |-> id]
           live == NewId(ax, "live")
           dead == NewId(ax, "rejected")
           d == abort_motion(live)
           e == [d EXCEPT !.moving = ax.moving]
           s == submit_impl(ax, in, n, ok)
<1>0. /\ Shape(ax) /\ Book(ax) /\ Line(ax) /\ Kept(ax) /\ Counted(ax)
      /\ ax.result \in [Id -> Results] /\ ax.override
      /\ ax.sync = "none" /\ ax.streamId = 0 /\ ax.supId \in 0 .. MaxId
      /\ ~ax.active => ax.activeId = 0
      /\ ax.active => ax.cmd.kind # "acceleration_profile"
      /\ ax.queue \in Seq(Command) /\ ax.nextId \in 1 .. MaxId + 1
  BY SoundTypes DEF Line, Plannable, Sound, Alone
<1>1. id \in Id /\ id # 0
  BY <1>0, AxisAssumption DEF Submit, Id
<1>2. c \in Command /\ c.kind # "acceleration_profile" /\ c.inside /\ c.id = id
      /\ c.kind = in.kind /\ c.mode = in.mode
  BY <1>1, AxisAssumption DEF Command, CommandInput, CommandKinds, Id
<1>3. ok
  BY DEF PlansSucceed
<1>4. ax.result[id] = "unused" /\ id \notin OwnedIds(ax)
  BY <1>0, <1>1, OwnedLive DEF Counted
<1>5. id # ax.supId
  BY <1>0, <1>1, <1>4 DEF OwnedIds
<1>6. \A r \in {"live", "rejected"} :
        /\ Shape(NewId(ax, r))
        /\ \A f \in AxisFields \ {"nextId", "result"} : NewId(ax, r)[f] = ax[f]
        /\ NewId(ax, r).nextId = id + 1
        /\ NewId(ax, r).result = [ax.result EXCEPT ![id] = r]
  BY <1>0 DEF NewId, Shape, AxisFields
<1>7. /\ Startable(ax, c, ok)
      /\ \A b : b.override => Startable(b, normalize(c), ok)
  BY <1>0, <1>2, <1>3 DEF Startable, normalize, Command
<1>8. ax' = s.ax
  BY DEF Submit
<1>9. \/ ax' = dead /\ ~s.ok
      \/ /\ c.kind = "torque"
         /\ ax' = [d EXCEPT !.active = TRUE, !.cmd = c, !.activeId = id,
                            !.status = "continuous_motion"]
      \/ c.mode = "aborting" /\ ax' = start([d EXCEPT !.moving = live.moving], c, n, ok)
      \/ c.mode # "aborting" /\ ~ax.active /\ ax' = start(live, c, n, ok)
      \/ c.mode # "aborting" /\ ax.active /\ ax' = [live EXCEPT !.queue = Append(@, c)]
  BY <1>0, <1>2, <1>7, <1>8 DEF submit_impl
<1>10. Book(ax') /\ Kept(ax') /\ Line(ax')
  BY <1>0, SubmitBook, SubmitLine DEF Books
<1>11. live.moving = ax.moving /\ OwnedIds(live) = OwnedIds(ax)
  BY <1>6 DEF AxisFields, OwnedIds, QueueIds
<1> HIDE DEF s, c
<1>12. /\ Shape(live) /\ live.nextId = id + 1 /\ live.result = [ax.result EXCEPT ![id] = "live"]
       /\ live.active = ax.active /\ live.activeId = ax.activeId /\ live.queue = ax.queue
       /\ live.sync = ax.sync /\ live.streamId = ax.streamId /\ live.supId = ax.supId
       /\ live.cmd = ax.cmd /\ live.errors = ax.errors /\ live.lastDone = ax.lastDone
       /\ live.supDone = ax.supDone /\ live.override = ax.override
  BY <1>6 DEF AxisFields
<1>13. /\ Shape(dead) /\ dead.nextId = id + 1
       /\ dead.result = [ax.result EXCEPT ![id] = "rejected"]
       /\ dead.active = ax.active /\ dead.activeId = ax.activeId
       /\ dead.sync = ax.sync /\ dead.streamId = ax.streamId /\ dead.supId = ax.supId
       /\ dead.cmd = ax.cmd /\ dead.errors = ax.errors /\ dead.lastDone = ax.lastDone
       /\ dead.supDone = ax.supDone
  BY <1>6 DEF AxisFields
<1> HIDE DEF live, dead
<1>14. /\ Shape(d) /\ d.sync = "none" /\ d.streamId = 0 /\ d.supId = 0 /\ d.supDone = 0
       /\ ~d.active /\ d.activeId = 0
       /\ d.nextId = id + 1 /\ d.override = ax.override
       /\ d.errors = ax.errors /\ d.lastDone = ax.lastDone
       /\ d.result = Ended(live, OwnedIds(ax), "aborted")
  BY <1>11, <1>12, AbortEffect, AbortRecords
<1> HIDE DEF d
<1>15. /\ Shape(e) /\ e.sync = "none" /\ e.streamId = 0 /\ e.supId = 0 /\ e.supDone = 0
       /\ e.nextId = id + 1 /\ e.override = ax.override
       /\ e.errors = ax.errors /\ e.lastDone = ax.lastDone
       /\ e.result = Ended(live, OwnedIds(ax), "aborted")
  BY <1>14 DEF Shape, AxisFields
<1> HIDE DEF e, id
<1>16. ASSUME NEW b, b.result = Ended(live, OwnedIds(ax), "aborted")
       PROVE  /\ b.result[id] = "live" /\ Continues(ax, b)
              /\ \A i \in Id : i # id =>
                    b.result[i] = ax.result[i] \/ (ax.result[i] = "live" /\ b.result[i] = "aborted")
  <2>1. \A i \in Id : b.result[i] = IF i \in OwnedIds(ax) /\ live.result[i] = "live"
                                    THEN "aborted" ELSE live.result[i]
    BY <1>16 DEF Ended
  <2>2. \A i \in Id : live.result[i] = IF i = id THEN "live" ELSE ax.result[i]
    BY <1>0, <1>1, <1>12
  <2>3. \A i \in Id : Runs(ax, i) => i \in OwnedIds(ax) /\ ax.result[i] = "live"
    BY <1>0, OwnedLive
  <2> QED
    BY <1>1, <1>4, <2>1, <2>2, <2>3 DEF Continues
<1>17. ASSUME NEW b, NEW r \in {"live", "rejected"}, b.result = [ax.result EXCEPT ![id] = r],
              ~ax.active \/ (b.active /\ b.activeId = ax.activeId /\ b.cmd = ax.cmd)
       PROVE  /\ b.result[id] = r /\ Continues(ax, b)
              /\ \A i \in Id : i # id =>
                    b.result[i] = ax.result[i] \/ (ax.result[i] = "live" /\ b.result[i] = "aborted")
  BY <1>0, <1>1, <1>17 DEF Continues, Runs
<1>18. /\ Submits(ax, ax')
       /\ s.ok => Takes(ax, ax', in)
  <2>1. CASE ax' = dead /\ ~s.ok
    BY <1>0, <1>13, <1>17, <2>1 DEF Submits, Alone, id
  <2>2. CASE /\ c.kind = "torque"
             /\ ax' = [d EXCEPT !.active = TRUE, !.cmd = c, !.activeId = id,
                                !.status = "continuous_motion"]
    <3>1. /\ ax'.active = TRUE /\ ax'.cmd = c /\ ax'.sync = "none" /\ ax'.streamId = 0
          /\ ax'.supId = 0 /\ ax'.supDone = 0 /\ ax'.nextId = id + 1
          /\ ax'.errors = ax.errors /\ ax'.lastDone = ax.lastDone
          /\ ax'.result = Ended(live, OwnedIds(ax), "aborted")
      BY <1>14, <2>2 DEF Shape, AxisFields
    <3>2. /\ ax'.result[id] = "live" /\ Continues(ax, ax')
          /\ \A i \in Id : i # id => ax'.result[i] = ax.result[i]
                                      \/ (ax.result[i] = "live" /\ ax'.result[i] = "aborted")
      BY <1>16, <3>1
    <3>3. in.kind = "torque" /\ ax'.cmd.kind # "acceleration_profile"
      BY <1>2, <2>2, <3>1
    <3> QED
      BY <1>1, <3>1, <3>2, <3>3 DEF Submits, Alone, Takes, id
  <2>3. CASE c.mode = "aborting" /\ ax' = start([d EXCEPT !.moving = live.moving], c, n, ok)
    <3>1. ax' = start(e, c, n, ok) /\ Startable(e, normalize(c), ok)
      BY <1>0, <1>7, <1>11, <1>15, <2>3 DEF e
    <3>2. /\ ax'.active /\ ax'.cmd = normalize(c) /\ ax'.activeId = c.id
      BY <1>2, <1>15, <3>1, StartActive
    <3>3. /\ ax'.sync = "none" /\ ax'.streamId = 0 /\ ax'.supId = 0 /\ ax'.nextId = id + 1
          /\ ax'.result = Ended(live, OwnedIds(ax), "aborted")
      BY <1>2, <1>15, <3>1, StartEffect
    <3>4. ax'.supDone = 0 /\ ax'.errors = ax.errors /\ ax'.lastDone = ax.lastDone
      BY <1>15, <3>1, StartRecords
    <3>5. /\ ax'.cmd.kind # "acceleration_profile"
          /\ in.kind = "move_continuous_absolute" => ax'.cmd.kind = in.kind
      BY <1>2, <3>2 DEF normalize, Command
    <3> QED
      BY <1>1, <1>2, <1>16, <3>2, <3>3, <3>4, <3>5 DEF Submits, Alone, Takes, Runs, id
  <2>4. CASE c.mode # "aborting" /\ ~ax.active /\ ax' = start(live, c, n, ok)
    <3>1. Startable(live, normalize(c), ok)
      BY <1>0, <1>7, <1>12
    <3>2. /\ ax'.active /\ ax'.cmd = normalize(c) /\ ax'.activeId = c.id
      BY <1>2, <1>12, <2>4, <3>1, StartActive
    <3>3. /\ ax'.sync = "none" /\ ax'.streamId = 0 /\ ax'.supId = ax.supId
          /\ ax'.nextId = id + 1 /\ ax'.result = [ax.result EXCEPT ![id] = "live"]
      BY <1>0, <1>2, <1>12, <2>4, StartEffect
    <3>4. ax'.supDone = ax.supDone /\ ax'.errors = ax.errors /\ ax'.lastDone = ax.lastDone
      BY <1>12, <2>4, StartRecords
    <3>5. ax'.cmd.kind # "acceleration_profile"
      BY <1>2, <3>2 DEF normalize, Command
    <3>6. /\ ax'.result[id] = "live" /\ Continues(ax, ax')
          /\ \A i \in Id : i # id => ax'.result[i] = ax.result[i]
                                      \/ (ax.result[i] = "live" /\ ax'.result[i] = "aborted")
      BY <1>17, <2>4, <3>3
    <3> QED
      BY <1>1, <1>2, <1>5, <2>4, <3>2, <3>3, <3>4, <3>5, <3>6 DEF Submits, Alone, Takes, id
  <2>5. CASE c.mode # "aborting" /\ ax.active /\ ax' = [live EXCEPT !.queue = Append(@, c)]
    <3>1. /\ ax'.active = ax.active /\ ax'.activeId = ax.activeId /\ ax'.cmd = ax.cmd
          /\ ax'.sync = "none" /\ ax'.streamId = 0 /\ ax'.supId = ax.supId
          /\ ax'.nextId = id + 1 /\ ax'.result = [ax.result EXCEPT ![id] = "live"]
          /\ ax'.supDone = ax.supDone /\ ax'.errors = ax.errors /\ ax'.lastDone = ax.lastDone
      BY <1>0, <1>12, <2>5 DEF Shape, AxisFields
    <3>2. /\ ax'.result[id] = "live" /\ Continues(ax, ax')
          /\ \A i \in Id : i # id => ax'.result[i] = ax.result[i]
                                      \/ (ax.result[i] = "live" /\ ax'.result[i] = "aborted")
      BY <1>17, <2>5, <3>1
    <3> QED
      BY <1>0, <1>1, <1>2, <1>5, <2>5, <3>1, <3>2 DEF Submits, Alone, Takes, id
  <2> QED
    BY <1>9, <2>1, <2>2, <2>3, <2>4, <2>5
<1>19. AfterCall(ax, ax')
  BY <1>1, <1>10, <1>18, SubmitsAge DEF id
<1> QED
  BY <1>18, <1>19 DEF s

-----------------------------------------------------------------------------
(* The blocks, one by one.                                                  *)

FbShape(f) ==
    /\ DOMAIN f = {"out", "tracked", "stopId", "last", "lowCycle"}
    /\ DOMAIN f.out = {"done", "busy", "active", "aborted", "error"}

\* The ends that f shows are the ones that g shows.
SameEnds(f, g) ==
    /\ g.out.done <=> f.out.done
    /\ g.out.aborted <=> f.out.aborted
    /\ g.out.error <=> f.out.error

\* What an edge of Execute comes to: the block is cleared, or goes on.
LEMMA Edges ==
  ASSUME NEW f, FbShape(f), NEW execute \in BOOLEAN, NEW retain \in BOOLEAN
  PROVE  LET g == rising_edge(f, execute, retain) IN
         /\ FbShape(g) /\ g.last = execute
         /\ execute /\ ~f.last => g.out = Cleared /\ g.tracked = 0 /\ ~g.lowCycle
         /\ \/ /\ g.out = Cleared /\ g.tracked = 0
               /\ \/ execute /\ ~f.last
                  \/ ~execute /\ (f.lowCycle \/ terminal(f))
            \/ /\ g.out = f.out /\ g.tracked = f.tracked /\ g.lowCycle = f.lowCycle
               /\ execute => f.last
  BY DEF rising_edge, clear, FbShape, Cleared

LEMMA Accepts ==
  ASSUME NEW f, FbShape(f), NEW id
  PROVE  LET g == accept(f, id) IN
         /\ FbShape(g) /\ g.tracked = id /\ g.last = f.last /\ g.lowCycle = f.lowCycle
         /\ g.out.busy <=> id # 0
         /\ g.out.error <=> id = 0
         /\ ~g.out.aborted
         /\ g.out.done <=> f.out.done /\ id = 0
  BY DEF accept, FbShape

\* What a report shows, and what it leaves.
LEMMA ErrorReport ==
  ASSUME NEW f, FbShape(f), NEW g, g = ReportsError(f)
  PROVE  /\ FbShape(g) /\ g.tracked = f.tracked /\ g.last = f.last
         /\ g.out.error /\ ~g.out.busy /\ ~g.out.aborted /\ ~g.out.done
  BY DEF ReportsError, terminal_observed, FbShape

LEMMA DoneReport ==
  ASSUME NEW f, FbShape(f), NEW g, g = ReportsDone(f)
  PROVE  /\ FbShape(g) /\ g.tracked = f.tracked /\ g.last = f.last
         /\ g.out.done /\ ~g.out.busy
         /\ g.out.aborted <=> f.out.aborted
         /\ g.out.error <=> f.out.error
  BY DEF ReportsDone, terminal_observed, FbShape

LEMMA AbortedReport ==
  ASSUME NEW f, FbShape(f), NEW g, g = ReportsAborted(f)
  PROVE  /\ FbShape(g) /\ g.tracked = f.tracked /\ g.last = f.last
         /\ g.out.aborted /\ ~g.out.busy
         /\ g.out.done <=> f.out.done
         /\ g.out.error <=> f.out.error
  BY DEF ReportsAborted, terminal_observed, FbShape

LEMMA BusyReport ==
  ASSUME NEW f, FbShape(f), NEW g, g = ReportsBusy(f, TRUE) \/ g = ReportsBusy(f, FALSE)
  PROVE  /\ FbShape(g) /\ g.tracked = f.tracked /\ g.last = f.last
         /\ g.lowCycle = f.lowCycle
         /\ g.out.busy /\ SameEnds(f, g)
<1>1. CASE g = ReportsBusy(f, TRUE)
  BY <1>1 DEF ReportsBusy, FbShape, SameEnds
<1>2. CASE g = ReportsBusy(f, FALSE)
  BY <1>2 DEF ReportsBusy, FbShape, SameEnds
<1> QED
  BY <1>1, <1>2

-----------------------------------------------------------------------------
(* An end is shown before its command is dropped.                           *)

\* A block that was started and is looked at for the last time shows an end.
Shown(f, class) ==
    /\ FbShape(f)
    /\ f.lowCycle /\ f.tracked # 0 => terminal(f)
    /\ class = "continuous" => ~f.out.done

Drops(f, g) == f.tracked # 0 /\ g.tracked # f.tracked => terminal(f) \/ (g.last /\ ~f.last)

\* Looking at the axis shows ends, and takes none back.
LEMMA ObserveShown ==
  ASSUME NEW f, NEW class, Shown(f, class), NEW a,
         NEW g, \/ g = observe_axis(f, a) /\ class # "continuous"
                \/ g = observe_continuous(f, a) /\ class = "continuous"
                \/ g = observe_superimposed(f, a) /\ class # "continuous"
  PROVE  Shown(g, class) /\ g.tracked = f.tracked /\ g.last = f.last
<1> DEFINE h == [f EXCEPT !.out.done = FALSE]
<1>1. FbShape(f)
  BY DEF Shown
<1>2. /\ FbShape(h) /\ h.tracked = f.tracked /\ h.last = f.last /\ h.lowCycle = f.lowCycle
      /\ ~h.out.done /\ (h.out.aborted <=> f.out.aborted) /\ (h.out.error <=> f.out.error)
  BY <1>1 DEF FbShape
<1>3. CASE class = "continuous"
  <2>1. g \in {f, ReportsError(f), ReportsAborted(h), ReportsBusy(h, TRUE)}
    BY <1>3 DEF observe_continuous
  <2> HIDE DEF h
  <2>2. CASE g = f
    BY <2>2
  <2>3. CASE g = ReportsError(f)
    BY <1>1, <1>3, <2>3, ErrorReport DEF Shown, terminal
  <2>4. CASE g = ReportsAborted(h)
    BY <1>2, <2>4, AbortedReport DEF Shown, terminal
  <2>5. CASE g = ReportsBusy(h, TRUE)
    <3>1. /\ FbShape(g) /\ g.tracked = h.tracked /\ g.last = h.last
          /\ g.lowCycle = h.lowCycle /\ SameEnds(h, g)
      BY <1>2, <2>5, BusyReport
    <3> QED
      BY <1>2, <1>3, <3>1 DEF Shown, terminal, SameEnds
  <2> QED
    BY <2>1, <2>2, <2>3, <2>4, <2>5
<1>4. CASE class # "continuous"
  <2>1. g \in {f, ReportsError(f), ReportsDone(f), ReportsAborted(f),
               ReportsBusy(f, TRUE), ReportsBusy(f, FALSE)}
    BY <1>4 DEF observe_axis, observe_superimposed
  <2>2. CASE g \in {f, ReportsError(f), ReportsDone(f), ReportsAborted(f)}
    <3>1. CASE g = f
      BY <3>1
    <3>2. CASE g = ReportsError(f)
      BY <1>1, <1>4, <3>2, ErrorReport DEF Shown, terminal
    <3>3. CASE g = ReportsDone(f)
      BY <1>1, <1>4, <3>3, DoneReport DEF Shown, terminal
    <3>4. CASE g = ReportsAborted(f)
      BY <1>1, <1>4, <3>4, AbortedReport DEF Shown, terminal
    <3> QED
      BY <2>2, <3>1, <3>2, <3>3, <3>4
  <2>3. CASE g \in {ReportsBusy(f, TRUE), ReportsBusy(f, FALSE)}
    <3>1. /\ FbShape(g) /\ g.tracked = f.tracked /\ g.last = f.last
          /\ g.lowCycle = f.lowCycle /\ SameEnds(f, g)
      BY <1>1, <2>3, BusyReport
    <3> QED
      BY <1>4, <3>1 DEF Shown, terminal, SameEnds
  <2> QED
    BY <2>1, <2>2, <2>3
<1> QED
  BY <1>3, <1>4

\* A block that is not started forgets its command only after its end.
LEMMA EdgeShown ==
  ASSUME NEW f, NEW class, Shown(f, class), NEW execute \in BOOLEAN, NEW retain \in BOOLEAN
  PROVE  LET g == rising_edge(f, execute, retain) IN
         /\ Shown(g, class) /\ g.last = execute
         /\ ~(execute /\ ~f.last) => Drops(f, g)
         /\ execute /\ ~f.last => g.out = Cleared /\ ~g.lowCycle
<1> DEFINE g == rising_edge(f, execute, retain)
<1>1. /\ FbShape(g) /\ g.last = execute
      /\ execute /\ ~f.last => g.out = Cleared /\ g.tracked = 0 /\ ~g.lowCycle
      /\ \/ /\ g.out = Cleared /\ g.tracked = 0
            /\ \/ execute /\ ~f.last
               \/ ~execute /\ (f.lowCycle \/ terminal(f))
         \/ /\ g.out = f.out /\ g.tracked = f.tracked /\ g.lowCycle = f.lowCycle
            /\ execute => f.last
  BY Edges DEF Shown
<1> HIDE DEF g
<1>2. Shown(g, class)
  BY <1>1 DEF Shown, terminal, Cleared
<1>3. ~(execute /\ ~f.last) => Drops(f, g)
  BY <1>1 DEF Shown, Drops
<1> QED
  BY <1>1, <1>2, <1>3 DEF g

\* A block that is started shows nothing yet.
LEMMA SubmitShown ==
  ASSUME NEW g, FbShape(g), g.out = Cleared, ~g.lowCycle, NEW class,
         NEW a, NEW command, NEW n, NEW ok
  PROVE  LET r == submit(g, a, command, n, ok) IN
         Shown(r.f, class) /\ r.f.last = g.last
<1> DEFINE r == submit(g, a, command, n, ok)
<1>1. PICK id : r.f = accept(g, id)
  BY DEF submit
<1> HIDE DEF r
<1>2. Shown(r.f, class) /\ r.f.last = g.last
  BY <1>1, Accepts DEF Shown, Cleared
<1> QED
  BY <1>2 DEF r

\* Every call of a block.
CallShows(f, g, class) == Shown(g, class) /\ Drops(f, g)

LEMMA MoveShown ==
  ASSUME NEW f, NEW class, Shown(f, class), NEW a, NEW block, NEW execute \in BOOLEAN,
         NEW change, NEW n, NEW ok
  PROVE  /\ class # "continuous" =>
              /\ CallShows(f, call_move(f, a, block, execute, change, n, ok).f, class)
              /\ CallShows(f, call_stop(f, a, block, execute, n, ok).f, class)
         /\ class = "continuous" =>
              CallShows(f, call_continuous(f, a, block, execute, change, n, ok).f, class)
<1>1. ASSUME NEW retain \in BOOLEAN, NEW b, NEW c, NEW h,
             LET g == rising_edge(f, execute, retain) IN
             h = IF execute /\ ~f.last THEN submit(g, b, block.command, n, ok).f ELSE g,
             NEW k, \/ k = observe_axis(h, c) /\ class # "continuous"
                    \/ k = observe_continuous(h, c) /\ class = "continuous"
      PROVE  CallShows(f, k, class)
  <2> DEFINE g == rising_edge(f, execute, retain)
  <2>1. /\ Shown(g, class) /\ g.last = execute
        /\ ~(execute /\ ~f.last) => Drops(f, g)
        /\ execute /\ ~f.last => g.out = Cleared /\ ~g.lowCycle
    BY EdgeShown
  <2>2. h = IF execute /\ ~f.last THEN submit(g, b, block.command, n, ok).f ELSE g
    BY <1>1
  <2> HIDE DEF g
  <2>3. Shown(h, class) /\ h.last = execute /\ (~(execute /\ ~f.last) => Drops(f, h))
    BY <2>1, <2>2, SubmitShown DEF Shown
  <2>4. Shown(k, class) /\ k.tracked = h.tracked /\ k.last = h.last
    BY <1>1, <2>3, ObserveShown
  <2> QED
    BY <2>3, <2>4 DEF CallShows, Drops
<1>2. CASE class # "continuous"
  <2>1. CallShows(f, call_move(f, a, block, execute, change, n, ok).f, class)
    <3> DEFINE g == rising_edge(f, execute, FALSE)
               s == submit(g, a, block.command, n, ok)
               r == IF execute /\ ~f.last THEN s
                    ELSE [f |-> g, a |-> update_target(g, a, execute, change, n, ok)]
    <3>1. /\ r.f = IF execute /\ ~f.last THEN s.f ELSE g
          /\ call_move(f, a, block, execute, change, n, ok).f = observe_axis(r.f, r.a)
      BY DEF call_move, submit
    <3> HIDE DEF r
    <3> QED
      BY <1>1, <1>2, <3>1
  <2>2. CallShows(f, call_stop(f, a, block, execute, n, ok).f, class)
    <3> DEFINE b == IF ~execute /\ f.last /\ f.stopId # 0 /\ a.stopLock = f.stopId
                    THEN release_stop(a) ELSE a
               g == rising_edge(f, execute, FALSE)
               s == submit(g, b, block.command, n, ok)
               r == IF execute /\ ~f.last THEN [s EXCEPT !.f.stopId = s.f.tracked]
                    ELSE [f |-> g, a |-> b]
               k == call_stop(f, a, block, execute, n, ok).f
    <3>1. /\ execute /\ ~f.last => r.f = [s.f EXCEPT !.stopId = s.f.tracked]
          /\ ~(execute /\ ~f.last) => r.f = g
      BY DEF submit
    <3>2. k = observe_axis(r.f, r.a)
      BY DEF call_stop, submit
    <3>3. /\ Shown(g, class) /\ g.last = execute
          /\ ~(execute /\ ~f.last) => Drops(f, g)
          /\ execute /\ ~f.last => g.out = Cleared /\ ~g.lowCycle
      BY EdgeShown
    <3> HIDE DEF r, g
    <3>4. execute /\ ~f.last => Shown(s.f, class) /\ s.f.last = g.last
      BY <3>3, SubmitShown DEF Shown
    <3> HIDE DEF s, k
    <3>5. Shown(r.f, class) /\ r.f.last = execute /\ (~(execute /\ ~f.last) => Drops(f, r.f))
      BY <3>1, <3>3, <3>4 DEF Shown, FbShape, terminal
    <3>6. Shown(k, class) /\ k.tracked = r.f.tracked /\ k.last = r.f.last
      BY <1>2, <3>2, <3>5, ObserveShown
    <3>7. CallShows(f, k, class)
      BY <3>5, <3>6 DEF CallShows, Drops
    <3> QED
      BY <3>7 DEF k
  <2> QED
    BY <1>2, <2>1, <2>2
<1>3. CASE class = "continuous"
  <2> DEFINE g == rising_edge(f, execute, TRUE)
             s == submit(g, a, block.command, n, ok)
             r == IF execute /\ ~f.last THEN s
                  ELSE [f |-> g, a |-> update_target(g, a, execute, change, n, ok)]
  <2>1. /\ r.f = IF execute /\ ~f.last THEN s.f ELSE g
        /\ call_continuous(f, a, block, execute, change, n, ok).f = observe_continuous(r.f, r.a)
    BY DEF call_continuous, submit
  <2> HIDE DEF r
  <2> QED
    BY <1>1, <1>3, <2>1
<1> QED
  BY <1>2, <1>3

LEMMA SuperimposedShown ==
  ASSUME NEW f, NEW class, Shown(f, class), class # "continuous", NEW a, NEW block,
         NEW execute \in BOOLEAN, NEW change, NEW n, NEW ok
  PROVE  CallShows(f, call_superimposed(f, a, block, execute, change, n, ok).f, class)
<1> DEFINE g == rising_edge(f, execute, FALSE)
           k == call_superimposed(f, a, block, execute, change, n, ok).f
<1>1. \/ /\ execute /\ ~f.last
         /\ \E id : k = [accept(g, id) EXCEPT !.out.done = FALSE]
      \/ ~(execute /\ ~f.last) /\ k = g
      \/ /\ ~(execute /\ ~f.last)
         /\ k = [g EXCEPT !.out.error = TRUE, !.out.busy = FALSE, !.out.active = FALSE]
      \/ ~(execute /\ ~f.last) /\ \E b : k = observe_superimposed(g, b)
  BY DEF call_superimposed
<1>2. /\ Shown(g, class) /\ g.last = execute
      /\ ~(execute /\ ~f.last) => Drops(f, g)
      /\ execute /\ ~f.last => g.out = Cleared /\ ~g.lowCycle
  BY EdgeShown
<1> SUFFICES CallShows(f, k, class)
  OBVIOUS
<1> HIDE DEF g, k
<1>3. CASE /\ execute /\ ~f.last
           /\ \E id : k = [accept(g, id) EXCEPT !.out.done = FALSE]
  <2>1. PICK id : k = [accept(g, id) EXCEPT !.out.done = FALSE]
    BY <1>3
  <2>2. FbShape(accept(g, id)) /\ accept(g, id).last = g.last /\ accept(g, id).lowCycle = g.lowCycle
    BY <1>2, Accepts DEF Shown
  <2>3. Shown(k, class) /\ k.last = g.last
    BY <1>2, <1>3, <2>1, <2>2 DEF Shown, FbShape
  <2> QED
    BY <1>2, <1>3, <2>3 DEF CallShows, Drops
<1>4. CASE ~(execute /\ ~f.last) /\ k = g
  BY <1>2, <1>4 DEF CallShows
<1>5. CASE /\ ~(execute /\ ~f.last)
           /\ k = [g EXCEPT !.out.error = TRUE, !.out.busy = FALSE, !.out.active = FALSE]
  <2>1. Shown(k, class) /\ k.last = g.last /\ k.tracked = g.tracked
    BY <1>2, <1>5 DEF Shown, FbShape, terminal
  <2> QED
    BY <1>2, <1>5, <2>1 DEF CallShows, Drops
<1>6. CASE ~(execute /\ ~f.last) /\ \E b : k = observe_superimposed(g, b)
  <2>1. Shown(k, class) /\ k.tracked = g.tracked /\ k.last = g.last
    BY <1>2, <1>6, ObserveShown
  <2> QED
    BY <1>2, <1>6, <2>1 DEF CallShows, Drops
<1> QED
  BY <1>1, <1>3, <1>4, <1>5, <1>6

\* The blocks of a program have a class and a command.
LEMMA BlockTypes ==
  ASSUME NEW p \in Programs, NEW i \in DOMAIN p
  PROVE  /\ p[i].class \in BlockClass /\ p[i].command \in CommandInput
         /\ p[i].update \in BOOLEAN
<1> DEFINE T == [class : BlockClass, command : CommandInput, update : BOOLEAN]
<1>1. p \in Seq(T)
  BY ProgramsAssumption
<1> HIDE DEF T
<1>2. p[i] \in T
  BY <1>1
<1> QED
  BY <1>2 DEF T

AllShown ==
    /\ blocks \in Programs
    /\ DOMAIN fb = Block
    /\ \A i \in Block : Shown(fb[i], blocks[i].class)

\* The call of block i, whatever its class.
LEMMA CallShown ==
  ASSUME AllShown, NEW i \in Block, NEW execute \in BOOLEAN, NEW change, NEW n, NEW ok
  PROVE  CallShows(fb[i], call(i, execute, change, n, ok).f, blocks[i].class)
<1> DEFINE block == blocks[i]
           k == call(i, execute, change, n, ok).f
<1>1. block.class \in BlockClass /\ Shown(fb[i], block.class)
  BY BlockTypes DEF AllShown, Block
<1>2. /\ block.class = "move" => k = call_move(fb[i], ax, block, execute, change, n, ok).f
      /\ block.class = "stop" => k = call_stop(fb[i], ax, block, execute, n, ok).f
      /\ block.class = "continuous" =>
           k = call_continuous(fb[i], ax, block, execute, change, n, ok).f
      /\ block.class = "superimposed" =>
           k = call_superimposed(fb[i], ax, block, execute, change, n, ok).f
  BY DEF call
<1> SUFFICES CallShows(fb[i], k, block.class)
  OBVIOUS
<1> HIDE DEF k, block
<1>3. CASE block.class = "superimposed"
  BY <1>1, <1>2, <1>3, SuperimposedShown
<1>4. CASE block.class # "superimposed"
  BY <1>1, <1>2, <1>4, MoveShown DEF BlockClass
<1> QED
  BY <1>3, <1>4

\* EndShownBeforeDropped: for every program, axis and interleaving, a block gives
\* up the command it follows only after its outputs showed the end, or when it is
\* started again.  A falling Execute in the middle of a motion does not lose it,
\* and the end is shown for one call although Execute is low (AxisExecuteFb in
\* core/fb/motion.h).
THEOREM EndsShown == FbsSpec => EndShownBeforeDropped
<1>1. FbsInit => AllShown
  BY DEF FbsInit, AllShown, Block, FbInit, Cleared, Shown, FbShape
<1>2. ASSUME AllShown, [FbsNext]_vars
      PROVE  /\ AllShown'
             /\ \A i \in Block : fb'[i] = fb[i] \/ CallShows(fb[i], fb'[i], blocks[i].class)
  <2>1. CASE CallBlock
    <3>1. PICK execute \in BOOLEAN, change \in Change(blocks[scan]), n \in Ticks, ok \in Feasible :
             /\ execute /\ ~fb[scan].last => ax.nextId <= MaxId
             /\ LET r == call(scan, execute, change, n, ok)
                IN  ax' = r.a /\ fb' = [fb EXCEPT ![scan] = r.f]
      BY <2>1 DEF CallBlock
    <3>2. scan \in Block /\ blocks' = blocks
      BY <2>1 DEF CallBlock
    <3>3. CallShows(fb[scan], call(scan, execute, change, n, ok).f, blocks[scan].class)
      BY <1>2, <3>2, CallShown
    <3> QED
      BY <1>2, <3>1, <3>2, <3>3 DEF AllShown, Block, CallShows
  <2>2. CASE Environment \/ CycleAxis \/ UNCHANGED vars
    <3>1. fb' = fb /\ blocks' = blocks
      BY <2>2 DEF Environment, CycleAxis, vars
    <3> QED
      BY <1>2, <3>1 DEF AllShown, Block
  <2> QED
    BY <1>2, <2>1, <2>2 DEF FbsNext
<1>3. ASSUME AllShown, [FbsNext]_vars
      PROVE  \A i \in Block : fb[i].tracked # 0 /\ fb'[i].tracked # fb[i].tracked
                                => terminal(fb[i]) \/ (fb'[i].last /\ ~fb[i].last)
  BY <1>2, <1>3 DEF CallShows, Drops
<1> QED
  BY <1>1, <1>2, <1>3, PTL DEF FbsSpec, EndShownBeforeDropped

-----------------------------------------------------------------------------
(* What a block shows is what became of its command.                        *)

\* The command of a block, and what the block shows of it.  seen: the block was
\* called since the last cycle, so that it knows if its command is done.
Told(f, class, a, seen) ==
    f.tracked # 0 =>
        /\ f.tracked \in Id /\ f.tracked # a.supId
        /\ a.result[f.tracked] \in Final \cup {"live"}
        /\ f.out.done => a.result[f.tracked] = "done"
        /\ f.out.aborted => a.result[f.tracked] = "aborted"
        /\ f.out.error => a.result[f.tracked] = "error"
        /\ a.result[f.tracked] = "error" => f.tracked \in a.errors
        /\ IF class = "continuous"
           THEN /\ a.result[f.tracked] # "done"
                /\ a.result[f.tracked] = "live" => Runs(a, f.tracked)
           ELSE a.result[f.tracked] = "done" /\ ~f.out.done =>
                  a.lastDone = f.tracked /\ ~seen

\* One output at a time, one of them while Execute is set, none without a command
\* but Error.
Lone(f) ==
    /\ f.out.busy => ~f.out.done /\ ~f.out.aborted /\ ~f.out.error
    /\ f.tracked = 0 => ~f.out.done /\ ~f.out.aborted /\ ~f.out.busy
    /\ f.last => f.out.done \/ f.out.busy \/ f.out.aborted \/ f.out.error

Good(f, class, a, seen) == FbShape(f) /\ Told(f, class, a, seen) /\ Lone(f)

\* A command that was given out is older than whatever is given out now.
LEMMA OlderThanNext ==
  ASSUME NEW a, Sound(a), NEW i \in Id, a.result[i] # "unused",
         NEW b, Sound(b), Ages(a, b), i # a.supId
  PROVE  i < a.nextId /\ i # b.supId
<1>1. /\ Counted(a) /\ a.nextId \in 1 .. MaxId + 1 /\ b.supId \in 0 .. MaxId
  BY SoundTypes
<1>2. i \in Nat /\ i # 0 /\ a.nextId \in Nat /\ b.supId \in Nat
  BY <1>1, AxisAssumption DEF Id
<1>3. ~(i >= a.nextId)
  BY <1>1 DEF Counted
<1> QED
  BY <1>2, <1>3 DEF Ages, Offsets

\* What another block, or the environment, does to the axis.
LEMMA ToldCall ==
  ASSUME NEW a, Sound(a), NEW f, NEW class, NEW seen, Told(f, class, a, seen),
         NEW b, AfterCall(a, b)
  PROVE  Told(f, class, b, seen)
<1> SUFFICES ASSUME f.tracked # 0
             PROVE  Told(f, class, b, seen)
  BY DEF Told
<1> DEFINE t == f.tracked
<1>1. /\ t \in Id /\ t # a.supId /\ a.result[t] \in Final \cup {"live"}
      /\ a.result[t] = "error" => t \in a.errors
  BY DEF Told
<1>2. Sound(b) /\ Ages(a, b) /\ CompletesNone(a, b)
  BY DEF AfterCall
<1>3. a.result[t] # "unused"
  BY <1>1 DEF Final
<1>4. t # b.supId
  BY <1>1, <1>2, <1>3, OlderThanNext
<1> HIDE DEF t
<1>5. /\ a.result[t] \in Final => b.result[t] = a.result[t]
      /\ a.result[t] = "live" => b.result[t] \in Final \cup {"live"}
      /\ b.result[t] = "error" => t \in b.errors
  BY <1>1, <1>2 DEF Ages, Settles
<1>6. b.result[t] = "done" => a.result[t] = "done"
  BY <1>1, <1>2 DEF CompletesNone
<1>7. Runs(a, t) => Runs(b, t) \/ b.result[t] \in {"aborted", "error"}
  BY <1>1, <1>2 DEF Ages, Continues
<1>8. b.lastDone = a.lastDone
  BY <1>2 DEF CompletesNone
<1>9. /\ f.out.done => a.result[t] = "done"
      /\ f.out.aborted => a.result[t] = "aborted"
      /\ f.out.error => a.result[t] = "error"
      /\ IF class = "continuous"
         THEN /\ a.result[t] # "done"
              /\ a.result[t] = "live" => Runs(a, t)
         ELSE a.result[t] = "done" /\ ~f.out.done => a.lastDone = t /\ ~seen
  BY DEF Told, t
<1>10. /\ f.out.done => b.result[t] = "done"
       /\ f.out.aborted => b.result[t] = "aborted"
       /\ f.out.error => b.result[t] = "error"
       /\ b.result[t] \in Final \cup {"live"}
  BY <1>1, <1>5, <1>9 DEF Final
<1>11. class = "continuous" => /\ b.result[t] # "done"
                               /\ b.result[t] = "live" => Runs(b, t)
  BY <1>1, <1>5, <1>6, <1>7, <1>9 DEF Final
<1>12. class # "continuous" =>
         (b.result[t] = "done" /\ ~f.out.done => b.lastDone = t /\ ~seen)
  BY <1>6, <1>8, <1>9
<1> QED
  BY <1>1, <1>4, <1>5, <1>10, <1>11, <1>12 DEF Told, t

\* A cycle: what is done now will be told by the next call of the block.
LEMMA ToldCycle ==
  ASSUME NEW a, Sound(a), NEW f, NEW class, Told(f, class, a, TRUE),
         NEW b, AfterCycle(a, b)
  PROVE  Told(f, class, b, FALSE)
<1> SUFFICES ASSUME f.tracked # 0
             PROVE  Told(f, class, b, FALSE)
  BY DEF Told
<1> DEFINE t == f.tracked
<1>1. /\ t \in Id /\ t # a.supId /\ a.result[t] \in Final \cup {"live"}
      /\ a.result[t] = "error" => t \in a.errors
  BY DEF Told
<1>2. Sound(b) /\ Ages(a, b) /\ CompletesOne(a, b)
  BY DEF AfterCycle
<1>3. a.result[t] # "unused"
  BY <1>1 DEF Final
<1>4. t # b.supId
  BY <1>1, <1>2, <1>3, OlderThanNext
<1> HIDE DEF t
<1>5. /\ a.result[t] \in Final => b.result[t] = a.result[t]
      /\ a.result[t] = "live" => b.result[t] \in Final \cup {"live"}
      /\ b.result[t] = "error" => t \in b.errors
  BY <1>1, <1>2 DEF Ages, Settles
<1>6. a.result[t] = "live" /\ b.result[t] = "done" => b.lastDone = t
  BY <1>1, <1>2 DEF CompletesOne
<1>7. Runs(a, t) => Runs(b, t) \/ b.result[t] \in {"aborted", "error"}
  BY <1>1, <1>2 DEF Ages, Continues
<1>8. Runs(b, t) => b.result[t] = "live"
  BY <1>2, SoundTypes DEF Runs
<1>9. /\ f.out.done => a.result[t] = "done"
      /\ f.out.aborted => a.result[t] = "aborted"
      /\ f.out.error => a.result[t] = "error"
      /\ IF class = "continuous"
         THEN /\ a.result[t] # "done"
              /\ a.result[t] = "live" => Runs(a, t)
         ELSE a.result[t] = "done" => f.out.done
  BY DEF Told, t
<1>10. /\ f.out.done => b.result[t] = "done"
       /\ f.out.aborted => b.result[t] = "aborted"
       /\ f.out.error => b.result[t] = "error"
       /\ b.result[t] \in Final \cup {"live"}
  BY <1>1, <1>5, <1>9 DEF Final
<1>11. class = "continuous" => /\ b.result[t] # "done"
                               /\ b.result[t] = "live" => Runs(b, t)
  BY <1>1, <1>5, <1>7, <1>8, <1>9 DEF Final
<1>12. class # "continuous" =>
         (b.result[t] = "done" /\ ~f.out.done => b.lastDone = t)
  BY <1>1, <1>5, <1>6, <1>9 DEF Final
<1> QED
  BY <1>1, <1>4, <1>5, <1>10, <1>11, <1>12 DEF Told, t

\* FbMove and FbStop look at the axis.
LEMMA ObserveGood ==
  ASSUME NEW a, Sound(a), NEW f, NEW class, class # "continuous", Good(f, class, a, FALSE)
  PROVE  Good(observe_axis(f, a), class, a, TRUE)
<1> DEFINE t == f.tracked
           g == observe_axis(f, a)
<1>0. FbShape(f) /\ Told(f, class, a, FALSE) /\ Lone(f)
  BY DEF Good
<1>1. CASE t = 0 \/ f.out.done
  <2>1. g = f
    BY <1>1 DEF observe_axis
  <2> HIDE DEF g
  <2> QED
    BY <1>0, <1>1, <2>1 DEF Good, Told, g
<1>2. CASE ~(t = 0 \/ f.out.done)
  <2>1. g = IF t \in a.errors THEN ReportsError(f)
            ELSE IF a.activeId = t THEN ReportsBusy(f, TRUE)
            ELSE IF a.lastDone = t THEN ReportsDone(f)
            ELSE IF t \in QueueIds(a) THEN ReportsBusy(f, FALSE)
            ELSE ReportsAborted(f)
    BY <1>2 DEF observe_axis
  <2>2. /\ t \in Id /\ t # 0 /\ t # a.supId /\ a.result[t] \in Final \cup {"live"}
        /\ f.out.aborted => a.result[t] = "aborted"
        /\ f.out.error => a.result[t] = "error"
        /\ a.result[t] = "error" => t \in a.errors
        /\ a.result[t] = "done" => a.lastDone = t
    BY <1>0, <1>2 DEF Told
  <2>3. /\ t \in a.errors => a.result[t] = "error"
        /\ a.lastDone = t => a.result[t] = "done"
        /\ a.activeId = t => a.result[t] = "live"
    BY <2>2, SoundTypes DEF Sound, Recorded
  <2>4. t \in QueueIds(a) => a.result[t] = "live"
    BY <2>2, OwnedLive DEF OwnedIds
  <2>5. a.result[t] = "live" => a.activeId = t \/ t \in QueueIds(a)
    <3>1. a.syncId = 0 /\ a.streamId = 0 /\ Kept(a)
      BY SoundTypes
    <3> QED
      BY <2>2, <3>1 DEF Kept, Waits, QueueIds
  <2> SUFFICES Good(g, class, a, TRUE)
    OBVIOUS
  <2> HIDE DEF g
  <2>6. CASE g = ReportsError(f) /\ t \in a.errors
    <3>1. /\ FbShape(g) /\ g.tracked = t /\ g.last = f.last
          /\ g.out.error /\ ~g.out.busy /\ ~g.out.aborted /\ ~g.out.done
      BY <1>0, <2>6, ErrorReport
    <3> HIDE DEF t
    <3> QED
      BY <2>2, <2>3, <2>6, <3>1, <1>0, <1>2 DEF Good, Told, Lone, Final
  <2>7. CASE (g = ReportsBusy(f, TRUE) \/ g = ReportsBusy(f, FALSE)) /\ a.result[t] = "live"
    <3>1. /\ FbShape(g) /\ g.tracked = t /\ g.last = f.last
          /\ g.out.busy /\ SameEnds(f, g)
      BY <1>0, <2>7, BusyReport
    <3> HIDE DEF t
    <3>2. ~g.out.done /\ ~g.out.aborted /\ ~g.out.error
      BY <1>2, <2>2, <2>7, <3>1 DEF SameEnds
    <3> QED
      BY <2>2, <2>7, <3>1, <3>2 DEF Good, Told, Lone, Final
  <2>8. CASE g = ReportsDone(f) /\ a.lastDone = t
    <3>1. /\ FbShape(g) /\ g.tracked = t /\ g.last = f.last
          /\ g.out.done /\ ~g.out.busy
          /\ g.out.aborted <=> f.out.aborted
          /\ g.out.error <=> f.out.error
      BY <1>0, <2>8, DoneReport
    <3> HIDE DEF t
    <3>2. a.result[t] = "done" /\ ~g.out.aborted /\ ~g.out.error
      BY <2>2, <2>3, <2>8, <3>1
    <3> QED
      BY <2>2, <3>1, <3>2, <1>2 DEF Good, Told, Lone, Final
  <2>9. CASE g = ReportsAborted(f) /\ a.result[t] = "aborted"
    <3>1. /\ FbShape(g) /\ g.tracked = t /\ g.last = f.last
          /\ g.out.aborted /\ ~g.out.busy
          /\ g.out.done <=> f.out.done
          /\ g.out.error <=> f.out.error
      BY <1>0, <2>9, AbortedReport
    <3> HIDE DEF t
    <3>2. ~g.out.done /\ ~g.out.error
      BY <1>2, <2>2, <2>9, <3>1
    <3> QED
      BY <2>2, <2>9, <3>1, <3>2, <1>2 DEF Good, Told, Lone, Final
  <2> HIDE DEF t
  <2> QED
    BY <2>1, <2>2, <2>3, <2>4, <2>5, <2>6, <2>7, <2>8, <2>9 DEF Final
<1> HIDE DEF t, g
<1>3. Good(g, class, a, TRUE)
  BY <1>1, <1>2 DEF g
<1> QED
  BY <1>3 DEF g

\* FbMoveContinuous looks at the axis.
LEMMA ObserveContinuousGood ==
  ASSUME NEW a, Sound(a), NEW f, Good(f, "continuous", a, FALSE)
  PROVE  Good(observe_continuous(f, a), "continuous", a, TRUE)
<1> DEFINE t == f.tracked
           g == observe_continuous(f, a)
           h == [f EXCEPT !.out.done = FALSE]
<1>0. FbShape(f) /\ Told(f, "continuous", a, FALSE) /\ Lone(f)
  BY DEF Good
<1> SUFFICES Good(g, "continuous", a, TRUE)
  OBVIOUS
<1>1. CASE t = 0
  <2>1. g = f
    BY <1>1 DEF observe_continuous
  <2> HIDE DEF g
  <2> QED
    BY <1>0, <1>1, <2>1 DEF Good, Told
<1>2. CASE t # 0
  <2>1. g = IF t \in a.errors THEN ReportsError(f)
            ELSE IF a.activeId # t THEN ReportsAborted(h) ELSE ReportsBusy(h, TRUE)
    BY <1>2 DEF observe_continuous
  <2>2. /\ t \in Id /\ t # 0 /\ t # a.supId /\ a.result[t] \in Final \cup {"live"}
        /\ a.result[t] # "done" /\ ~f.out.done
        /\ f.out.aborted => a.result[t] = "aborted"
        /\ f.out.error => a.result[t] = "error"
        /\ a.result[t] = "error" => t \in a.errors
        /\ a.result[t] = "live" => Runs(a, t)
    BY <1>0, <1>2 DEF Told
  <2>3. /\ t \in a.errors => a.result[t] = "error"
        /\ a.activeId = t => a.result[t] = "live"
        /\ a.result[t] = "live" => a.activeId = t
    BY <2>2, SoundTypes DEF Sound, Recorded, Runs
  <2>4. /\ FbShape(h) /\ h.tracked = t /\ h.last = f.last /\ ~h.out.done
        /\ (h.out.aborted <=> f.out.aborted) /\ (h.out.error <=> f.out.error)
    BY <1>0 DEF FbShape
  <2> HIDE DEF g, h
  <2>5. CASE g = ReportsError(f) /\ t \in a.errors
    <3>1. /\ FbShape(g) /\ g.tracked = t /\ g.last = f.last
          /\ g.out.error /\ ~g.out.busy /\ ~g.out.aborted /\ ~g.out.done
      BY <1>0, <2>5, ErrorReport
    <3> HIDE DEF t
    <3> QED
      BY <2>2, <2>3, <2>5, <3>1 DEF Good, Told, Lone, Final
  <2>6. CASE g = ReportsBusy(h, TRUE) /\ a.result[t] = "live"
    <3>1. /\ FbShape(g) /\ g.tracked = t /\ g.last = f.last
          /\ g.out.busy /\ SameEnds(h, g)
      BY <2>4, <2>6, BusyReport
    <3> HIDE DEF t
    <3>2. ~g.out.done /\ ~g.out.aborted /\ ~g.out.error
      BY <2>2, <2>4, <2>6, <3>1 DEF SameEnds
    <3> QED
      BY <2>2, <2>6, <3>1, <3>2 DEF Good, Told, Lone, Final
  <2>7. CASE g = ReportsAborted(h) /\ a.result[t] = "aborted"
    <3>1. /\ FbShape(g) /\ g.tracked = t /\ g.last = f.last
          /\ g.out.aborted /\ ~g.out.busy
          /\ g.out.done <=> h.out.done
          /\ g.out.error <=> h.out.error
      BY <2>4, <2>7, AbortedReport
    <3> HIDE DEF t
    <3>2. ~g.out.done /\ ~g.out.error
      BY <2>2, <2>4, <2>7, <3>1
    <3> QED
      BY <2>2, <2>7, <3>1, <3>2 DEF Good, Told, Lone, Final
  <2> HIDE DEF t
  <2> QED
    BY <2>1, <2>2, <2>3, <2>5, <2>6, <2>7 DEF Final
<1> HIDE DEF t, g, h
<1> QED
  BY <1>1, <1>2

\* An edge of Execute forgets the command, or leaves what was told of it.
LEMMA EdgeTold ==
  ASSUME NEW f, NEW class, NEW a, NEW seen, Good(f, class, a, seen),
         NEW execute \in BOOLEAN, NEW retain \in BOOLEAN
  PROVE  LET g == rising_edge(f, execute, retain) IN
         /\ FbShape(g) /\ Told(g, class, a, seen)
         /\ execute /\ ~f.last => g.out = Cleared
         /\ ~(execute /\ ~f.last) => Lone(g)
<1> DEFINE g == rising_edge(f, execute, retain)
<1>1. /\ FbShape(g) /\ g.last = execute
      /\ execute /\ ~f.last => g.out = Cleared /\ g.tracked = 0 /\ ~g.lowCycle
      /\ \/ /\ g.out = Cleared /\ g.tracked = 0
            /\ \/ execute /\ ~f.last
               \/ ~execute /\ (f.lowCycle \/ terminal(f))
         \/ /\ g.out = f.out /\ g.tracked = f.tracked /\ g.lowCycle = f.lowCycle
            /\ execute => f.last
  BY Edges DEF Good
<1> HIDE DEF g
<1>2. Told(g, class, a, seen)
  <2>1. CASE g.tracked = 0
    BY <2>1 DEF Told
  <2>2. CASE g.out = f.out /\ g.tracked = f.tracked
    BY <2>2 DEF Told, Good
  <2> QED
    BY <1>1, <2>1, <2>2
<1>3. ~(execute /\ ~f.last) => Lone(g)
  BY <1>1 DEF Good, Lone, Cleared
<1> QED
  BY <1>1, <1>2, <1>3 DEF g

\* A block that is started: its command was accepted, or it shows Error.
LEMMA SubmitGood ==
  ASSUME PlansSucceed, Sound(ax), NEW command \in CommandInput, command.inside = TRUE,
         ax.nextId <= MaxId, NEW class,
         class = "continuous" =>
            command.kind = "move_continuous_absolute" /\ command.mode = "aborting",
         NEW g, FbShape(g), g.out = Cleared, NEW n \in Ticks, NEW ok \in Feasible,
         ax' = submit(g, ax, command, n, ok).a
  PROVE  AfterCall(ax, ax') /\ Good(submit(g, ax, command, n, ok).f, class, ax', FALSE)
<1> DEFINE s == submit_impl(ax, command, n, ok)
           f == submit(g, ax, command, n, ok).f
<1> SUFFICES AfterCall(ax, ax') /\ Good(f, class, ax', FALSE)
  OBVIOUS
<1>1. CASE submit_admissibility(ax, command)
  <2>1. ax' = s.ax /\ f = accept(g, IF s.ok THEN ax.nextId ELSE 0)
    BY <1>1 DEF submit
  <2>2. Submit(command, n, ok)
    BY <1>1, <2>1 DEF Submit
  <2>3. AfterCall(ax, ax') /\ (s.ok => Takes(ax, ax', command))
    BY <2>2, SubmitAges
  <2> HIDE DEF s, f
  <2>4. CASE s.ok
    <3>1. f = accept(g, ax.nextId)
      BY <2>1, <2>4
    <3>2. /\ FbShape(f) /\ f.tracked = ax.nextId /\ f.last = g.last
          /\ f.out.busy <=> ax.nextId # 0
          /\ f.out.error <=> ax.nextId = 0
          /\ ~f.out.aborted
          /\ f.out.done <=> g.out.done /\ ax.nextId = 0
      BY <3>1, Accepts
    <3>3. /\ ax.nextId \in Id /\ ax.nextId # 0
          /\ ax'.result[ax.nextId] = "live" /\ ax.nextId # ax'.supId
          /\ class = "continuous" => Runs(ax', ax.nextId)
      BY <2>3, <2>4 DEF Takes
    <3> QED
      BY <2>3, <3>2, <3>3 DEF Good, Told, Lone, Final
  <2>5. CASE ~s.ok
    <3>1. f = accept(g, 0)
      BY <2>1, <2>5
    <3>2. /\ FbShape(f) /\ f.tracked = 0 /\ ~f.out.busy /\ f.out.error
          /\ ~f.out.aborted /\ ~f.out.done
      BY <3>1, Accepts DEF Cleared
    <3> QED
      BY <2>3, <3>2 DEF Good, Told, Lone
  <2> QED
    BY <2>4, <2>5
<1>2. CASE ~submit_admissibility(ax, command)
  <2>1. ax' = ax /\ f = accept(g, 0)
    BY <1>2 DEF submit
  <2> HIDE DEF f
  <2>2. /\ FbShape(f) /\ f.tracked = 0 /\ ~f.out.busy /\ f.out.error
        /\ ~f.out.aborted /\ ~f.out.done
    BY <2>1, Accepts DEF Cleared
  <2>3. AfterCall(ax, ax')
    BY <2>1, AgesSame
  <2> QED
    BY <2>2, <2>3 DEF Good, Told, Lone
<1> QED
  BY <1>1, <1>2

\* update_target
LEMMA TargetAges ==
  ASSUME PlansSucceed, NEW a, Sound(a), NEW g, NEW execute, NEW change, NEW n,
         NEW ok \in Feasible
  PROVE  AfterCall(a, update_target(g, a, execute, change, n, ok))
<1> DEFINE b == update_target(g, a, execute, change, n, ok)
<1>1. b = a \/ (a.active /\ b = update_active_target(a, change = "inside", n, ok))
  BY DEF update_target
<1> SUFFICES AfterCall(a, b)
  OBVIOUS
<1> HIDE DEF b
<1>2. CASE b = a
  BY <1>2, AgesSame
<1>3. CASE a.active /\ b = update_active_target(a, change = "inside", n, ok)
  BY <1>3, UpdateAges
<1> QED
  BY <1>1, <1>2, <1>3

\* What a program may ask of the axis, for a block of class to tell the truth.
Askable(block, class) ==
    /\ block.command \in CommandInput /\ block.command.inside = TRUE
    /\ class = "continuous" => /\ block.command.kind = "move_continuous_absolute"
                               /\ block.command.mode = "aborting"

\* The calls of FbMove and FbMoveContinuous.
LEMMA MoveGood ==
  ASSUME PlansSucceed, Sound(ax), NEW f, NEW class, Good(f, class, ax, FALSE),
         NEW block, Askable(block, class),
         NEW execute \in BOOLEAN, NEW change, NEW n \in Ticks, NEW ok \in Feasible,
         execute /\ ~f.last => ax.nextId <= MaxId,
         NEW r, ax' = r.a,
         \/ class # "continuous" /\ r = call_move(f, ax, block, execute, change, n, ok)
         \/ class = "continuous" /\ r = call_continuous(f, ax, block, execute, change, n, ok)
  PROVE  AfterCall(ax, ax') /\ Good(r.f, class, ax', TRUE)
<1> DEFINE retain == class = "continuous"
           g == rising_edge(f, execute, retain)
           s == submit(g, ax, block.command, n, ok)
           u == update_target(g, ax, execute, change, n, ok)
           h == IF execute /\ ~f.last THEN s.f ELSE g
<1>1. /\ ax' = IF execute /\ ~f.last THEN s.a ELSE u
      /\ r.f = IF class = "continuous" THEN observe_continuous(h, ax') ELSE observe_axis(h, ax')
  <2> DEFINE p == IF execute /\ ~f.last THEN s ELSE [f |-> g, a |-> u]
  <2>1. p.a = IF execute /\ ~f.last THEN s.a ELSE u
    OBVIOUS
  <2>2. p.f = h
    OBVIOUS
  <2>3. CASE class = "continuous"
    <3>1. g = rising_edge(f, execute, TRUE)
      BY <2>3
    <3>2. r = [p EXCEPT !.f = observe_continuous(p.f, p.a)]
      BY <2>3, <3>1 DEF call_continuous
    <3>3. {"f", "a"} \subseteq DOMAIN p
      BY DEF submit
    <3> HIDE DEF p, h, s, u, g
    <3> QED
      BY <2>1, <2>2, <2>3, <3>2, <3>3
  <2>4. CASE class # "continuous"
    <3>1. g = rising_edge(f, execute, FALSE)
      BY <2>4
    <3>2. r = [p EXCEPT !.f = observe_axis(p.f, p.a)]
      BY <2>4, <3>1 DEF call_move
    <3>3. {"f", "a"} \subseteq DOMAIN p
      BY DEF submit
    <3> HIDE DEF p, h, s, u, g
    <3> QED
      BY <2>1, <2>2, <2>4, <3>2, <3>3
  <2> QED
    BY <2>3, <2>4
<1>2. /\ FbShape(g) /\ Told(g, class, ax, FALSE)
      /\ execute /\ ~f.last => g.out = Cleared
      /\ ~(execute /\ ~f.last) => Lone(g)
  <2>1. retain \in BOOLEAN
    OBVIOUS
  <2> HIDE DEF retain
  <2> QED
    BY <2>1, EdgeTold
<1> HIDE DEF g
<1>3. AfterCall(ax, ax') /\ Good(h, class, ax', FALSE)
  <2>1. CASE execute /\ ~f.last
    <3>1. ax' = s.a /\ h = s.f
      BY <1>1, <2>1
    <3>2. /\ block.command \in CommandInput /\ block.command.inside = TRUE
          /\ class = "continuous" => /\ block.command.kind = "move_continuous_absolute"
                                     /\ block.command.mode = "aborting"
      BY DEF Askable
    <3>3. AfterCall(ax, ax') /\ Good(s.f, class, ax', FALSE)
      BY <1>2, <2>1, <3>1, <3>2, SubmitGood
    <3> QED
      BY <3>1, <3>3
  <2>2. CASE ~(execute /\ ~f.last)
    <3>1. ax' = u /\ h = g
      BY <1>1, <2>2
    <3>2. AfterCall(ax, ax')
      BY <3>1, TargetAges
    <3>3. Told(g, class, ax', FALSE)
      BY <1>2, <3>2, ToldCall
    <3> QED
      BY <1>2, <2>2, <3>1, <3>2, <3>3 DEF Good
  <2> QED
    BY <2>1, <2>2
<1> HIDE DEF h
<1>4. Sound(ax')
  BY <1>3 DEF AfterCall
<1>5. CASE class = "continuous"
  BY <1>1, <1>3, <1>4, <1>5, ObserveContinuousGood
<1>6. CASE class # "continuous"
  BY <1>1, <1>3, <1>4, <1>6, ObserveGood
<1> QED
  BY <1>3, <1>5, <1>6

\* The call of FbStop.
LEMMA StopGood ==
  ASSUME PlansSucceed, Sound(ax), NEW f, NEW class, Good(f, class, ax, FALSE),
         class # "continuous", NEW block, Askable(block, class),
         NEW execute \in BOOLEAN, NEW n \in Ticks, NEW ok \in Feasible,
         execute /\ ~f.last => ax.nextId <= MaxId,
         NEW r, ax' = r.a, r = call_stop(f, ax, block, execute, n, ok)
  PROVE  AfterCall(ax, ax') /\ Good(r.f, class, ax', TRUE)
<1> DEFINE b == IF ~execute /\ f.last /\ f.stopId # 0 /\ ax.stopLock = f.stopId
                THEN release_stop(ax) ELSE ax
           g == rising_edge(f, execute, FALSE)
           s == submit(g, ax, block.command, n, ok)
           h == IF execute /\ ~f.last THEN [s.f EXCEPT !.stopId = s.f.tracked] ELSE g
<1>1. /\ ax' = IF execute /\ ~f.last THEN s.a ELSE b
      /\ r.f = observe_axis(h, ax')
  <2>1. CASE execute /\ ~f.last
    BY <2>1 DEF call_stop, submit
  <2>2. CASE ~(execute /\ ~f.last)
    BY <2>2 DEF call_stop, submit
  <2> QED
    BY <2>1, <2>2
<1>2. /\ FbShape(g) /\ Told(g, class, ax, FALSE)
      /\ execute /\ ~f.last => g.out = Cleared
      /\ ~(execute /\ ~f.last) => Lone(g)
  BY EdgeTold
<1> HIDE DEF g
<1>3. AfterCall(ax, ax') /\ Good(h, class, ax', FALSE)
  <2>1. CASE execute /\ ~f.last
    <3>1. ax' = s.a /\ h = [s.f EXCEPT !.stopId = s.f.tracked]
      BY <1>1, <2>1
    <3>2. block.command \in CommandInput /\ block.command.inside = TRUE
      BY DEF Askable
    <3>3. AfterCall(ax, ax') /\ Good(s.f, class, ax', FALSE)
      BY <1>2, <2>1, <3>1, <3>2, SubmitGood
    <3> HIDE DEF s, h
    <3>4. FbShape(h) /\ h.out = s.f.out /\ h.tracked = s.f.tracked /\ h.last = s.f.last
      BY <3>1, <3>3 DEF Good, FbShape
    <3> QED
      BY <3>3, <3>4 DEF Good, Told, Lone
  <2>2. CASE ~(execute /\ ~f.last)
    <3>1. ax' = b /\ h = g
      BY <1>1, <2>2
    <3>2. AfterCall(ax, ax')
      BY <3>1, AgesSame, EnvironmentAges
    <3>3. Told(g, class, ax', FALSE)
      BY <1>2, <3>2, ToldCall
    <3> QED
      BY <1>2, <2>2, <3>1, <3>2, <3>3 DEF Good
  <2> QED
    BY <2>1, <2>2
<1> HIDE DEF h
<1>4. Sound(ax')
  BY <1>3 DEF AfterCall
<1> QED
  BY <1>1, <1>3, <1>4, ObserveGood

\* The call of FbMoveSuperimposed changes nothing for the other blocks.
LEMMA SuperimposedAges ==
  ASSUME NEW a, Sound(a), NEW f, NEW block, NEW execute \in BOOLEAN, NEW change, NEW n, NEW ok,
         execute /\ ~f.last => a.nextId <= MaxId
  PROVE  AfterCall(a, call_superimposed(f, a, block, execute, change, n, ok).a)
<1> DEFINE k == call_superimposed(f, a, block, execute, change, n, ok).a
           b == [a EXCEPT !.supLeft = n]
<1>1. \/ k = a
      \/ execute /\ ~f.last /\ k = submit_superimposed(a, n)
      \/ k = abort_superimposed(a)
      \/ k = b
  BY DEF call_superimposed
<1>2. Alike(a, b)
  BY SoundTypes DEF Alike, Shape, AxisFields, KeyFields, BookFields
<1> SUFFICES AfterCall(a, k)
  OBVIOUS
<1> HIDE DEF k, b
<1> QED
  BY <1>1, <1>2, AgesSame, QuietCallsAge, OffsetStartAges, OffsetEndAges

-----------------------------------------------------------------------------
(* The block of an offset.                                                  *)

\* What FbMoveSuperimposed shows: CommandAborted is for good, the offset neither
\* runs nor is the last one that was done, and no newer offset has its id.
OffsetTold(f, a) ==
    f.tracked # 0 =>
        /\ f.tracked \in Nat /\ f.tracked < a.nextId /\ ~f.out.error
        /\ f.out.aborted => f.tracked # a.supId /\ f.tracked # a.supDone /\ ~f.out.done

OffsetGood(f, a) == FbShape(f) /\ OffsetTold(f, a) /\ Lone(f)

\* What anything else does to the axis.
LEMMA OffsetToldAges ==
  ASSUME NEW a, Sound(a), NEW b, Sound(b), Ages(a, b), NEW f, OffsetTold(f, a)
  PROVE  OffsetTold(f, b)
<1> SUFFICES ASSUME f.tracked # 0
             PROVE  OffsetTold(f, b)
  BY DEF OffsetTold
<1> DEFINE t == f.tracked
<1>1. /\ t \in Nat /\ t < a.nextId /\ t # 0 /\ ~f.out.error
      /\ f.out.aborted => t # a.supId /\ t # a.supDone /\ ~f.out.done
  BY DEF OffsetTold
<1>2. /\ a.nextId \in Nat /\ b.nextId \in Nat /\ a.nextId <= b.nextId
      /\ b.supId \in Nat
      /\ b.supId \in {a.supId, 0} \/ b.supId >= a.nextId
      /\ b.supDone \in {a.supDone, 0, a.supId}
  BY SoundTypes, AxisAssumption DEF Ages, Offsets
<1> HIDE DEF t
<1>3. t < b.nextId
  BY <1>1, <1>2
<1>4. f.out.aborted => t # b.supId /\ t # b.supDone /\ ~f.out.done
  BY <1>1, <1>2
<1> QED
  BY <1>1, <1>3, <1>4 DEF OffsetTold, t

\* FbMoveSuperimposed::observe
LEMMA ObserveOffsetGood ==
  ASSUME NEW f, NEW a, OffsetGood(f, a)
  PROVE  OffsetGood(observe_superimposed(f, a), a)
<1> DEFINE g == observe_superimposed(f, a)
<1>1. CASE f.tracked = 0 \/ f.out.done
  BY <1>1 DEF observe_superimposed
<1>2. CASE ~(f.tracked = 0 \/ f.out.done)
  <2>0. FbShape(f)
    BY DEF OffsetGood
  <2>1. /\ a.supId = f.tracked => g = ReportsBusy(f, TRUE)
        /\ a.supId # f.tracked /\ a.supDone = f.tracked => g = ReportsDone(f)
        /\ a.supId # f.tracked /\ a.supDone # f.tracked => g = ReportsAborted(f)
    BY <1>2 DEF observe_superimposed
  <2> HIDE DEF g
  <2>2. CASE a.supId = f.tracked
    <3>1. /\ FbShape(g) /\ g.tracked = f.tracked /\ g.last = f.last
          /\ g.out.busy /\ SameEnds(f, g)
      BY <2>0, <2>1, <2>2, BusyReport
    <3> QED
      BY <1>2, <2>2, <3>1 DEF OffsetGood, OffsetTold, Lone, SameEnds, g
  <2>3. CASE a.supId # f.tracked /\ a.supDone = f.tracked
    <3>1. /\ FbShape(g) /\ g.tracked = f.tracked /\ g.last = f.last
          /\ g.out.done /\ ~g.out.busy
          /\ g.out.aborted <=> f.out.aborted
          /\ g.out.error <=> f.out.error
      BY <2>0, <2>1, <2>3, DoneReport
    <3> QED
      BY <1>2, <2>3, <3>1 DEF OffsetGood, OffsetTold, Lone, g
  <2>4. CASE a.supId # f.tracked /\ a.supDone # f.tracked
    <3>1. /\ FbShape(g) /\ g.tracked = f.tracked /\ g.last = f.last
          /\ g.out.aborted /\ ~g.out.busy
          /\ g.out.done <=> f.out.done
          /\ g.out.error <=> f.out.error
      BY <2>0, <2>1, <2>4, AbortedReport
    <3> QED
      BY <1>2, <2>4, <3>1 DEF OffsetGood, OffsetTold, Lone, g
  <2> QED
    BY <2>2, <2>3, <2>4
<1> QED
  BY <1>1, <1>2

\* An offset that is asked for: Busy with a new id, or Error.
LEMMA OffsetAnswer ==
  ASSUME NEW g, FbShape(g), NEW id
  PROVE  LET k == [accept(g, id) EXCEPT !.out.done = FALSE] IN
         /\ FbShape(k) /\ k.tracked = id /\ ~k.out.aborted /\ ~k.out.done
         /\ k.out.busy <=> id # 0
         /\ k.out.error <=> id = 0
<1> DEFINE e == accept(g, id)
<1>1. /\ FbShape(e) /\ e.tracked = id /\ ~e.out.aborted
      /\ e.out.busy <=> id # 0
      /\ e.out.error <=> id = 0
  BY Accepts
<1> HIDE DEF e
<1>2. LET k == [e EXCEPT !.out.done = FALSE] IN
         /\ FbShape(k) /\ k.tracked = id /\ ~k.out.aborted /\ ~k.out.done
         /\ k.out.busy <=> id # 0
         /\ k.out.error <=> id = 0
  BY <1>1 DEF FbShape
<1> QED
  BY <1>2 DEF e

LEMMA OffsetEdge ==
  ASSUME NEW f, NEW a, OffsetGood(f, a), NEW execute \in BOOLEAN, NEW retain \in BOOLEAN
  PROVE  LET g == rising_edge(f, execute, retain) IN
         /\ FbShape(g) /\ g.last = execute
         /\ ~(execute /\ ~f.last) => OffsetGood(g, a)
<1> DEFINE g == rising_edge(f, execute, retain)
<1>1. /\ FbShape(g) /\ g.last = execute
      /\ execute /\ ~f.last => g.out = Cleared /\ g.tracked = 0 /\ ~g.lowCycle
      /\ \/ /\ g.out = Cleared /\ g.tracked = 0
            /\ \/ execute /\ ~f.last
               \/ ~execute /\ (f.lowCycle \/ terminal(f))
         \/ /\ g.out = f.out /\ g.tracked = f.tracked /\ g.lowCycle = f.lowCycle
            /\ execute => f.last
  BY Edges DEF OffsetGood
<1> HIDE DEF g
<1>2. ~(execute /\ ~f.last) => OffsetGood(g, a)
  BY <1>1 DEF OffsetGood, OffsetTold, Lone, Cleared
<1> QED
  BY <1>1, <1>2 DEF g

\* The call of FbMoveSuperimposed, when the program keeps its target.
LEMMA OffsetCallGood ==
  ASSUME NEW a, Sound(a), NEW f, OffsetGood(f, a), NEW block, NEW execute \in BOOLEAN,
         NEW n, NEW ok, execute /\ ~f.last => a.nextId <= MaxId,
         NEW r, r = call_superimposed(f, a, block, execute, "none", n, ok)
  PROVE  OffsetGood(r.f, r.a)
<1> DEFINE g == rising_edge(f, execute, FALSE)
           b == submit_superimposed(a, n)
           taken == [accept(g, a.nextId) EXCEPT !.out.done = FALSE]
           refused == [accept(g, 0) EXCEPT !.out.done = FALSE]
<1>1. \/ execute /\ ~f.last /\ r.f = taken /\ r.a = b
      \/ execute /\ ~f.last /\ r.f = refused /\ r.a = a
      \/ ~(execute /\ ~f.last) /\ r.f = g /\ r.a = a
      \/ ~(execute /\ ~f.last) /\ r.f = observe_superimposed(g, a) /\ r.a = a
  BY DEF call_superimposed
<1>2. /\ FbShape(g) /\ g.last = execute
      /\ ~(execute /\ ~f.last) => OffsetGood(g, a)
  <2>1. FALSE \in BOOLEAN
    OBVIOUS
  <2> QED
    BY <2>1, OffsetEdge
<1>3. a.nextId \in Nat /\ a.nextId # 0 /\ 0 \in Nat
  BY SoundTypes, AxisAssumption
<1> HIDE DEF g
<1>4. CASE execute /\ ~f.last /\ r.f = taken /\ r.a = b
  <2>1. b.supId = a.nextId /\ b.nextId = a.nextId + 1 /\ b.supDone = 0
    BY <1>4, OffsetStartAges
  <2> DEFINE id == a.nextId
             k == [accept(g, id) EXCEPT !.out.done = FALSE]
  <2>0. taken = k
    OBVIOUS
  <2> HIDE DEF id
  <2>2. /\ FbShape(k) /\ k.tracked = id /\ ~k.out.aborted /\ ~k.out.done
        /\ k.out.busy <=> id # 0
        /\ k.out.error <=> id = 0
    BY <1>2, OffsetAnswer
  <2> HIDE DEF taken, b, k
  <2>3. a.nextId < b.nextId
    BY <1>3, <2>1
  <2>4. OffsetTold(k, b)
    BY <1>3, <2>2, <2>3 DEF OffsetTold, id
  <2>5. Lone(k)
    BY <1>3, <2>2 DEF Lone, id
  <2> QED
    BY <1>4, <2>0, <2>2, <2>4, <2>5 DEF OffsetGood
<1>5. CASE execute /\ ~f.last /\ r.f = refused /\ r.a = a
  <2>1. /\ FbShape(refused) /\ refused.tracked = 0 /\ ~refused.out.busy /\ refused.out.error
        /\ ~refused.out.aborted /\ ~refused.out.done
    BY <1>2, OffsetAnswer
  <2> HIDE DEF refused
  <2> QED
    BY <1>5, <2>1 DEF OffsetGood, OffsetTold, Lone
<1>6. CASE ~(execute /\ ~f.last) /\ r.a = a /\ (r.f = g \/ r.f = observe_superimposed(g, a))
  BY <1>2, <1>6, ObserveOffsetGood
<1> QED
  BY <1>1, <1>4, <1>5, <1>6

-----------------------------------------------------------------------------
(* The blocks of a program together.                                        *)

\* What the theorems ask of programs: targets inside the limits, continuous moves
\* that take over, offsets whose target stays.
TargetsInside == \A p \in Programs : \A i \in DOMAIN p : p[i].command.inside = TRUE

ContinuousTakesOver ==
    \A p \in Programs : \A i \in DOMAIN p :
        p[i].class = "continuous" => /\ p[i].command.kind = "move_continuous_absolute"
                                     /\ p[i].command.mode = "aborting"

OffsetsKept ==
    \A p \in Programs : \A i \in DOMAIN p :
        p[i].class = "superimposed" => p[i].update = FALSE

\* Block i when block s is called next: the ones before it were called since the
\* last cycle.
Heard(f, class, a, i, s) ==
    IF i < s THEN Good(f, class, a, TRUE) ELSE Good(f, class, a, FALSE)

\* The invariant.
Truthful ==
    /\ blocks \in Programs /\ DOMAIN fb = Block
    /\ scan \in 1 .. Len(blocks) + 1
    /\ Sound(ax)
    /\ \A i \in Block :
          blocks[i].class # "superimposed" => Heard(fb[i], blocks[i].class, ax, i, scan)

OffsetsTrue ==
    \A i \in Block : blocks[i].class = "superimposed" => OffsetGood(fb[i], ax)

LEMMA ProgramLine ==
  ASSUME NEW p \in Programs
  PROVE  DOMAIN p = 1 .. Len(p) /\ Len(p) \in Nat
<1> DEFINE T == [class : BlockClass, command : CommandInput, update : BOOLEAN]
<1>1. p \in Seq(T)
  BY ProgramsAssumption
<1> HIDE DEF T
<1> QED
  BY <1>1

\* An axis that was never used is in order.
LEMMA SoundInit == Sound(AxisInit)
<1> DEFINE a == AxisInit
<1>1. /\ <<>> \in Seq(Command) /\ DOMAIN <<>> = {}
      /\ [i \in Id |-> "unused"] \in [Id -> Results] /\ 1 \in 1 .. MaxId + 1
      /\ \A i \in Id : [j \in Id |-> "unused"][i] = "unused"
  BY AxisAssumption DEF Results
<1>2. /\ Shape(a) /\ a.active = FALSE /\ a.activeId = 0 /\ a.queue = <<>> /\ a.override = TRUE
      /\ a.sync = "none" /\ a.syncId = 0 /\ a.streamId = 0 /\ a.supId = 0 /\ a.nextId = 1
      /\ a.errors = {} /\ a.lastDone = 0 /\ a.result = [i \in Id |-> "unused"]
  BY DEF AxisInit, Shape, AxisFields
<1> SUFFICES Sound(a)
  OBVIOUS
<1> HIDE DEF a
<1>3. Book(a)
  BY <1>1, <1>2, Values DEF Book, Waiting, Counted, Ids, Live
<1>4. Line(a)
  BY <1>1, <1>2 DEF Line, Plannable, Segments
<1>5. Kept(a)
  BY <1>1, <1>2 DEF Kept
<1>6. Alone(a) /\ Recorded(a)
  BY <1>2 DEF Alone, Recorded
<1> QED
  BY <1>3, <1>4, <1>5, <1>6 DEF Sound

LEMMA TruthfulInit == FbsInit => Truthful /\ OffsetsTrue
<1> SUFFICES ASSUME FbsInit
             PROVE  Truthful /\ OffsetsTrue
  OBVIOUS
<1>1. /\ ax = AxisInit /\ blocks \in Programs /\ fb = [i \in Block |-> FbInit] /\ scan = 1
  BY DEF FbsInit, Init
<1>2. DOMAIN blocks = 1 .. Len(blocks) /\ Len(blocks) \in Nat
  BY <1>1, ProgramLine
<1>3. FbShape(FbInit) /\ FbInit.tracked = 0 /\ Lone(FbInit)
  BY DEF FbInit, FbShape, Cleared, Lone
<1>4. ASSUME NEW class, NEW seen
      PROVE  Good(FbInit, class, ax, seen)
  BY <1>3 DEF Good, Told
<1>5. OffsetGood(FbInit, ax)
  BY <1>3 DEF OffsetGood, OffsetTold
<1>6. \A i \in Block : Heard(fb[i], blocks[i].class, ax, i, scan)
  BY <1>1, <1>4 DEF Heard
<1>7. Truthful
  BY <1>1, <1>2, <1>6, SoundInit DEF Truthful
<1> QED
  BY <1>1, <1>5, <1>7 DEF OffsetsTrue

\* The call of the next block, whatever its class.
LEMMA CallTruth ==
  ASSUME PlansSucceed, TargetsInside, ContinuousTakesOver, Truthful, scan \in Block,
         NEW execute \in BOOLEAN, NEW change, NEW n \in Ticks, NEW ok \in Feasible,
         execute /\ ~fb[scan].last => ax.nextId <= MaxId,
         ax' = call(scan, execute, change, n, ok).a
  PROVE  /\ AfterCall(ax, ax')
         /\ blocks[scan].class # "superimposed" =>
              Good(call(scan, execute, change, n, ok).f, blocks[scan].class, ax', TRUE)
<1> DEFINE block == blocks[scan]
           f == fb[scan]
           class == block.class
           r == call(scan, execute, change, n, ok)
<1>0. block.class \in BlockClass /\ Askable(block, class)
  BY BlockTypes DEF Truthful, Block, Askable, TargetsInside, ContinuousTakesOver
<1>1. /\ class = "move" => r = call_move(f, ax, block, execute, change, n, ok)
      /\ class = "stop" => r = call_stop(f, ax, block, execute, n, ok)
      /\ class = "continuous" => r = call_continuous(f, ax, block, execute, change, n, ok)
      /\ class = "superimposed" => r = call_superimposed(f, ax, block, execute, change, n, ok)
  BY DEF call
<1>2. Sound(ax) /\ (class # "superimposed" => Good(f, class, ax, FALSE))
  <2>1. ~(scan < scan)
    BY DEF Truthful
  <2> QED
    BY <2>1 DEF Truthful, Heard
<1>3. ax' = r.a
  OBVIOUS
<1> SUFFICES AfterCall(ax, ax') /\ (class # "superimposed" => Good(r.f, class, ax', TRUE))
  OBVIOUS
<1>4. execute /\ ~f.last => ax.nextId <= MaxId
  OBVIOUS
<1> HIDE DEF r, f, class, block
<1>5. CASE class = "superimposed"
  BY <1>1, <1>2, <1>3, <1>4, <1>5, SuperimposedAges
<1>6. CASE class = "move"
  BY <1>0, <1>1, <1>2, <1>3, <1>4, <1>6, MoveGood
<1>7. CASE class = "continuous"
  BY <1>0, <1>1, <1>2, <1>3, <1>4, <1>7, MoveGood
<1>8. CASE class = "stop"
  BY <1>0, <1>1, <1>2, <1>3, <1>4, <1>8, StopGood
<1> QED
  BY <1>0, <1>5, <1>6, <1>7, <1>8 DEF BlockClass, class

\* Every step keeps the invariant, and ages the axis.
LEMMA TruthfulStep ==
  ASSUME PlansSucceed, TargetsInside, ContinuousTakesOver, Truthful, [FbsNext]_vars
  PROVE  Truthful' /\ (ax' = ax \/ AfterCall(ax, ax') \/ AfterCycle(ax, ax'))
<1>0. /\ blocks \in Programs /\ DOMAIN fb = Block /\ Sound(ax)
      /\ Block = 1 .. Len(blocks) /\ Len(blocks) \in Nat /\ scan \in 1 .. Len(blocks) + 1
  BY ProgramLine DEF Truthful, Block
<1>1. CASE CallBlock
  <2>1. PICK execute \in BOOLEAN, change \in Change(blocks[scan]), n \in Ticks, ok \in Feasible :
           /\ execute /\ ~fb[scan].last => ax.nextId <= MaxId
           /\ LET r == call(scan, execute, change, n, ok)
              IN  ax' = r.a /\ fb' = [fb EXCEPT ![scan] = r.f]
    BY <1>1 DEF CallBlock
  <2>2. scan \in Block /\ blocks' = blocks /\ scan' = scan + 1
    BY <1>1 DEF CallBlock
  <2> DEFINE k == call(scan, execute, change, n, ok)
  <2>3. /\ AfterCall(ax, ax')
        /\ blocks[scan].class # "superimposed" => Good(k.f, blocks[scan].class, ax', TRUE)
    BY <2>1, <2>2, CallTruth
  <2>4. fb' = [fb EXCEPT ![scan] = k.f]
    BY <2>1
  <2> HIDE DEF k
  <2>5. ASSUME NEW i \in Block, blocks[i].class # "superimposed"
        PROVE  Heard(fb'[i], blocks[i].class, ax', i, scan + 1)
    <3>1. CASE i = scan
      <4>1. i < scan + 1 /\ fb'[i] = k.f
        BY <1>0, <2>2, <2>4, <3>1
      <4> QED
        BY <2>3, <2>5, <3>1, <4>1 DEF Heard
    <3>2. CASE i # scan
      <4>1. i < scan + 1 <=> i < scan
        BY <1>0, <2>2, <3>2
      <4>2. fb'[i] = fb[i]
        BY <1>0, <2>2, <2>4, <3>2
      <4>3. Heard(fb[i], blocks[i].class, ax, i, scan)
        BY <2>5 DEF Truthful
      <4> QED
        BY <1>0, <2>3, <4>1, <4>2, <4>3, ToldCall DEF Heard, Good
    <3> QED
      BY <3>1, <3>2
  <2>6. Sound(ax') /\ DOMAIN fb' = Block /\ scan + 1 \in 1 .. Len(blocks) + 1
    BY <1>0, <2>2, <2>3, <2>4 DEF AfterCall
  <2> QED
    BY <1>0, <2>2, <2>3, <2>5, <2>6 DEF Truthful, Block
<1>2. CASE CycleAxis
  <2>1. scan \notin Block /\ blocks' = blocks /\ scan' = 1 /\ fb' = fb
    BY <1>2 DEF CycleAxis
  <2>2. PICK in \in CycleInput(ax) : ax' = cycle(ax, in)
    BY <1>2 DEF CycleAxis, Cycle
  <2>3. in.ok \in Feasible
    BY <2>2 DEF CycleInput
  <2>4. AfterCycle(ax, ax')
    BY <1>0, <2>2, <2>3, CycleAges
  <2>5. ASSUME NEW i \in Block, blocks[i].class # "superimposed"
        PROVE  Heard(fb[i], blocks[i].class, ax', i, 1)
    <3>1. i < scan /\ ~(i < 1)
      BY <1>0, <2>1
    <3>2. Good(fb[i], blocks[i].class, ax, TRUE)
      BY <2>5, <3>1 DEF Truthful, Heard
    <3> QED
      BY <1>0, <2>4, <3>1, <3>2, ToldCycle DEF Heard, Good
  <2>6. Sound(ax') /\ 1 \in 1 .. Len(blocks) + 1
    BY <1>0, <2>4 DEF AfterCycle
  <2> QED
    BY <1>0, <2>1, <2>4, <2>5, <2>6 DEF Truthful, Block
<1>3. CASE Environment \/ UNCHANGED vars
  <2>1. fb' = fb /\ blocks' = blocks /\ scan' = scan
    BY <1>3 DEF Environment, vars
  <2>2. ax' = ax \/ AfterCall(ax, ax')
    BY <1>0, <1>3, EnvironmentAges
       DEF Environment, vars, SetPower, SetPowerFeedback, TriggerError, ResetError
  <2>3. AfterCall(ax, ax')
    BY <1>0, <2>2, AgesSame
  <2>4. ASSUME NEW i \in Block, blocks[i].class # "superimposed"
        PROVE  Heard(fb[i], blocks[i].class, ax', i, scan)
    <3>1. Heard(fb[i], blocks[i].class, ax, i, scan)
      BY <2>4 DEF Truthful
    <3> QED
      BY <1>0, <2>3, <3>1, ToldCall DEF Heard, Good
  <2>5. Sound(ax')
    BY <2>3 DEF AfterCall
  <2> QED
    BY <1>0, <2>1, <2>2, <2>4, <2>5 DEF Truthful, Block
<1> QED
  BY <1>1, <1>2, <1>3 DEF FbsNext

\* What the block of an offset shows stays right as well.
LEMMA OffsetsStep ==
  ASSUME OffsetsKept, Truthful, OffsetsTrue, [FbsNext]_vars,
         ax' = ax \/ AfterCall(ax, ax') \/ AfterCycle(ax, ax')
  PROVE  OffsetsTrue'
<1>0. blocks \in Programs /\ DOMAIN fb = Block /\ Sound(ax) /\ Sound(ax') /\ Ages(ax, ax')
  BY AgesSame DEF Truthful, AfterCall, AfterCycle
<1>1. ASSUME NEW i \in Block, blocks[i].class = "superimposed"
      PROVE  /\ OffsetGood(fb[i], ax)
             /\ OffsetGood(fb[i], ax')
  BY <1>0, <1>1, OffsetToldAges DEF OffsetsTrue, OffsetGood
<1>2. CASE CallBlock
  <2>1. PICK execute \in BOOLEAN, change \in Change(blocks[scan]), n \in Ticks, ok \in Feasible :
           /\ execute /\ ~fb[scan].last => ax.nextId <= MaxId
           /\ LET r == call(scan, execute, change, n, ok)
              IN  ax' = r.a /\ fb' = [fb EXCEPT ![scan] = r.f]
    BY <1>2 DEF CallBlock
  <2>2. scan \in Block /\ blocks' = blocks
    BY <1>2 DEF CallBlock
  <2> DEFINE k == call(scan, execute, change, n, ok)
  <2>3. CASE blocks[scan].class = "superimposed"
    <3>1. blocks[scan].update = FALSE
      BY <1>0, <2>2, <2>3 DEF OffsetsKept, Block
    <3>2. change = "none"
      BY <2>1, <3>1 DEF Change
    <3>3. k = call_superimposed(fb[scan], ax, blocks[scan], execute, "none", n, ok)
      BY <2>3, <3>2 DEF call
    <3>4. OffsetGood(fb[scan], ax) /\ (execute /\ ~fb[scan].last => ax.nextId <= MaxId)
      BY <1>1, <2>1, <2>2, <2>3
    <3>5. ax' = k.a /\ fb' = [fb EXCEPT ![scan] = k.f]
      BY <2>1
    <3> HIDE DEF k
    <3>6. OffsetGood(k.f, k.a)
      BY <1>0, <3>3, <3>4, OffsetCallGood
    <3> QED
      BY <1>0, <1>1, <2>2, <3>5, <3>6 DEF OffsetsTrue, Block
  <2>4. CASE blocks[scan].class # "superimposed"
    <3>1. \A i \in Block : i # scan => fb'[i] = fb[i]
      BY <1>0, <2>1, <2>2
    <3> QED
      BY <1>1, <2>2, <2>4, <3>1 DEF OffsetsTrue, Block
  <2> QED
    BY <2>3, <2>4
<1>3. CASE Environment \/ CycleAxis \/ UNCHANGED vars
  <2>1. fb' = fb /\ blocks' = blocks
    BY <1>3 DEF Environment, CycleAxis, vars
  <2> QED
    BY <1>1, <2>1 DEF OffsetsTrue, Block
<1> QED
  BY <1>2, <1>3 DEF FbsNext

\* OutputsTruthful: what a block reports about its command is what became of it.
\* The blocks infer it from the ids in the snapshot (AxisExecuteFb::observe_axis
\* and the observe of FbMoveContinuous in core/fb/motion.h), and the snapshot
\* keeps one completed id and the failed ones: the theorem says that this is
\* enough, for every program whose blocks are called once per cycle, whatever is
\* queued, taken over or lost to an error between two of their calls.  It asks
\* that plans succeed and targets are inside the limits, and that a continuous
\* move takes over: a block whose continuous move waits in the queue reports
\* CommandAborted at once, while its command will still run.  (The record of
\* failures is a set here; the code forgets the oldest of QueueCapacity + 4.)
THEOREM BlocksTruthful ==
  ASSUME PlansSucceed, TargetsInside, ContinuousTakesOver
  PROVE  FbsSpec => []OutputsTruthful
<1>1. FbsInit => Truthful
  BY TruthfulInit
<1>2. ASSUME Truthful, [FbsNext]_vars
      PROVE  Truthful'
  BY <1>2, TruthfulStep
<1>3. ASSUME Truthful
      PROVE  OutputsTruthful
  <2> SUFFICES ASSUME NEW i \in Block,
                      fb[i].tracked # 0 /\ blocks[i].class # "superimposed"
               PROVE  /\ fb[i].out.done => ax.result[fb[i].tracked] = "done"
                      /\ fb[i].out.aborted => ax.result[fb[i].tracked] = "aborted"
                      /\ fb[i].out.error => ax.result[fb[i].tracked] = "error"
    BY DEF OutputsTruthful
  <2> QED
    BY <1>3 DEF Truthful, Heard, Good, Told
<1> QED
  BY <1>1, <1>2, <1>3, PTL DEF FbsSpec

\* OutputsExclusive: Done, Busy, CommandAborted and Error of a block exclude each
\* other, and one of them is set as long as Execute is, in every call, cycle and
\* error (MotionOutputs in core/fb/motion.h).  For a command this follows from
\* what is true of it: its history has one end.  An offset leaves no history, and
\* the proof needs that no newer offset has its id and that its program does not
\* change its target: FbMoveSuperimposed with ContinuousUpdate goes on to look at
\* an offset that it reported as failed.  That plans succeed is only needed for
\* the truth the proof goes through.
THEOREM OneOutput ==
  ASSUME PlansSucceed, TargetsInside, ContinuousTakesOver, OffsetsKept
  PROVE  FbsSpec => []OutputsExclusive
<1>1. FbsInit => Truthful /\ OffsetsTrue
  BY TruthfulInit
<1>2. ASSUME Truthful /\ OffsetsTrue, [FbsNext]_vars
      PROVE  (Truthful /\ OffsetsTrue)'
  <2>1. Truthful' /\ (ax' = ax \/ AfterCall(ax, ax') \/ AfterCycle(ax, ax'))
    BY <1>2, TruthfulStep
  <2> QED
    BY <1>2, <2>1, OffsetsStep
<1>3. ASSUME NEW f, Lone(f),
             /\ ~(f.out.done /\ f.out.aborted)
             /\ ~(f.out.done /\ f.out.error)
             /\ ~(f.out.aborted /\ f.out.error)
      PROVE  LET set == {x \in {"done", "busy", "aborted", "error"} : f.out[x]}
             IN  (f.last => set # {}) /\ \A x, y \in set : x = y
  <2>1. f.last => \E x \in {"done", "busy", "aborted", "error"} : f.out[x]
    BY <1>3 DEF Lone
  <2>2. \A x, y \in {"done", "busy", "aborted", "error"} : f.out[x] /\ f.out[y] => x = y
    BY <1>3 DEF Lone
  <2> QED
    BY <2>1, <2>2
<1>4. ASSUME Truthful, OffsetsTrue, NEW i \in Block
      PROVE  /\ Lone(fb[i])
             /\ ~(fb[i].out.done /\ fb[i].out.aborted)
             /\ ~(fb[i].out.done /\ fb[i].out.error)
             /\ ~(fb[i].out.aborted /\ fb[i].out.error)
  <2>1. CASE blocks[i].class = "superimposed"
    BY <1>4, <2>1 DEF OffsetsTrue, OffsetGood, OffsetTold, Lone
  <2>2. CASE blocks[i].class # "superimposed"
    BY <1>4, <2>2 DEF Truthful, Heard, Good, Told, Lone
  <2> QED
    BY <2>1, <2>2
<1>5. ASSUME Truthful /\ OffsetsTrue
      PROVE  OutputsExclusive
  BY <1>3, <1>4, <1>5 DEF OutputsExclusive
<1> QED
  BY <1>1, <1>2, <1>5, PTL DEF FbsSpec
=============================================================================
