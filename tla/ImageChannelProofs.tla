------------------------- MODULE ImageChannelProofs -------------------------
(***************************************************************************)
(* TLAPS proofs about the channels of the process image, for every set of  *)
(* host threads and every number of versions.                              *)
(***************************************************************************)
EXTENDS ImageChannel, TLAPS

\* The publisher counts one ahead of what it has published until it makes the
\* new version the current one; a discarded scan goes back to the same count.
VersionInv ==
    version = IF pc[Publisher] \in {"reclaim", "claim", "write"} THEN latest + 1 ELSE latest

\* What may be read is whole, and the current slot has the latest version
\* unless the publisher is filling it again; an image always has a current slot.
ContentInv ==
    /\ \A s \in Slot : state[s] \in {"published", "reading"} => content[s] \in 0 .. latest
    /\ published \in Slot =>
          content[published] = latest \/ (pc[Publisher] = "write" /\ pub.slot = published)
    /\ pc[Publisher] = "show" => published = pub.slot
    /\ kind = "image" => published \in Slot

\* The slot that a thread is about to take holds nothing older than its read;
\* a thread that copies has begun with the bytes that are still there.
ReadInv ==
    /\ \A t \in Thread :
          /\ low[t] <= latest
          /\ pc[t] = "take" =>
                \/ content[idx[t]] \in low[t] .. latest
                \/ pc[Publisher] = "write" /\ pub.slot = idx[t]
          /\ pc[t] = "copy" =>
                val[t] = content[idx[t]] /\ content[idx[t]] \in low[t] .. latest
    /\ pc[Publisher] \notin {"idle", "reclaim", "claim", "write", "show", "retire"}
          => low[Publisher] = latest

IInv == TypeOK /\ SlotHasOneUser /\ VersionInv /\ ContentInv /\ ReadInv /\ FreshReads

-----------------------------------------------------------------------------

\* The invariant holds when a channel has been loaded.
LEMMA InitInv == Init => IInv
  BY ChannelAssumption
  DEF Init, IInv, TypeOK, SlotHasOneUser, VersionInv, ContentInv, ReadInv, FreshReads,
      NoClaim, Slot, Thread, Reads, Writes

\* Every step keeps the types: a discarded scan goes back to a version that was
\* published, because its read is whole.
LEMMA TypeStep ==
  ASSUME IInv, [Next]_vars
  PROVE  TypeOK'
<1> USE ChannelAssumption DEF IInv, TypeOK, VersionInv, ContentInv, FreshReads, Slot, Thread
<1>1. CASE StartPublish
  BY <1>1 DEF StartPublish, reading
<1>2. CASE Reclaim
  BY <1>2 DEF Reclaim, CompareExchange, reading
<1>3. CASE ClaimSucceeds
  BY <1>3 DEF ClaimSucceeds, Exchanged, reading
<1>4. CASE ClaimFails
  BY <1>4 DEF ClaimFails, NextSlot, reading
<1>5. CASE Exchange
  BY <1>5 DEF Exchange, reading
<1>6. CASE Show
  BY <1>6 DEF Show, NoClaim, reading
<1>7. CASE Retire
  <2>1. state' \in [Slot -> {"empty", "writing", "published", "reading"}]
    <3>1. state' = state \/ state' = [state EXCEPT ![pub.old] = "empty"]
      BY <1>7 DEF Retire, CompareExchange
    <3> QED
      BY <3>1
  <2>2. pub' \in [pos : Slot, slot : Slot, old : Slot \cup {-1}]
    BY <1>7 DEF Retire, NoClaim
  <2> QED
    BY <1>7, <2>1, <2>2 DEF Retire, reading
<1>8. ASSUME NEW t \in Thread, ReadBegin(t) PROVE TypeOK'
  BY <1>8 DEF ReadBegin, writing, MayRead
<1>9. ASSUME NEW t \in Thread, Take(t) PROVE TypeOK'
  BY <1>9 DEF Take, Exchanged, writing
<1>10. ASSUME NEW t \in Thread, TakeFails(t) PROVE TypeOK'
  BY <1>10 DEF TakeFails, Forget, writing
<1>11. ASSUME NEW t \in Thread, CopyEnd(t) PROVE TypeOK'
  BY <1>11 DEF CopyEnd, writing
<1>12. ASSUME NEW t \in Thread, ConsumeEnd(t) PROVE TypeOK'
  BY <1>12 DEF ConsumeEnd, Forget, writing
<1>13. ASSUME NEW t \in Thread, FinishStale(t) PROVE TypeOK'
  BY <1>13 DEF FinishStale, Return, Forget, writing
<1>14. ASSUME NEW t \in Thread, FinishCurrent(t) PROVE TypeOK'
  BY <1>14 DEF FinishCurrent, writing, reading
<1>15. ASSUME NEW t \in Thread, Restore(t) PROVE TypeOK'
  BY <1>15 DEF Restore, writing, reading
<1>16. ASSUME NEW t \in Thread, Recheck(t) PROVE TypeOK'
  BY <1>16 DEF Recheck, Return, Forget, writing
<1>17. ASSUME NEW t \in Thread, RecheckEarly(t) PROVE TypeOK'
  BY <1>17 DEF RecheckEarly, writing, reading
<1>18. ASSUME NEW t \in Thread, RestoreLate(t) PROVE TypeOK'
  BY <1>18 DEF RestoreLate, Return, Forget, writing
<1>19. ASSUME NEW t \in Thread, Drop(t) PROVE TypeOK'
  BY <1>19 DEF Drop, Return, Forget, CompareExchange, writing
<1>20. CASE UNCHANGED vars
  BY <1>20 DEF vars
<1> QED
  BY <1>1, <1>2, <1>3, <1>4, <1>5, <1>6, <1>7, <1>8, <1>9, <1>10, <1>11, <1>12, <1>13, <1>14, <1>15, <1>16, <1>17, <1>18, <1>19, <1>20 DEF Next, Publish, ReadOn

\* Every slot keeps its one user: a slot changes hands only through an exchange
\* that its user makes, or one that finds it without a user.
LEMMA UserStep ==
  ASSUME IInv, [Next]_vars
  PROVE  SlotHasOneUser'
<1> USE ChannelAssumption DEF IInv, TypeOK, SlotHasOneUser, Reads, Writes, Slot, Thread
<1>1. CASE StartPublish
  BY <1>1 DEF StartPublish, reading
<1>2. CASE Reclaim
  BY <1>2 DEF Reclaim, CompareExchange, reading
<1>3. CASE ClaimSucceeds
  BY <1>3 DEF ClaimSucceeds, Exchanged, reading
<1>4. CASE ClaimFails
  BY <1>4 DEF ClaimFails, NextSlot, reading
<1>5. CASE Exchange
  BY <1>5 DEF Exchange, reading
<1>6. CASE Show
  BY <1>6 DEF Show, NoClaim, reading
<1>7. CASE Retire
  BY <1>7 DEF Retire, NoClaim, CompareExchange, reading
<1>8. ASSUME NEW t \in Thread, ReadBegin(t) PROVE SlotHasOneUser'
  BY <1>8 DEF ReadBegin, writing, MayRead
<1>9. ASSUME NEW t \in Thread, Take(t) PROVE SlotHasOneUser'
  BY <1>9 DEF Take, Exchanged, writing
<1>10. ASSUME NEW t \in Thread, TakeFails(t) PROVE SlotHasOneUser'
  BY <1>10 DEF TakeFails, Forget, writing
<1>11. ASSUME NEW t \in Thread, CopyEnd(t) PROVE SlotHasOneUser'
  BY <1>11 DEF CopyEnd, writing
<1>12. ASSUME NEW t \in Thread, ConsumeEnd(t) PROVE SlotHasOneUser'
  BY <1>12 DEF ConsumeEnd, Forget, writing
<1>13. ASSUME NEW t \in Thread, FinishStale(t) PROVE SlotHasOneUser'
  BY <1>13 DEF FinishStale, Return, Forget, writing
<1>14. ASSUME NEW t \in Thread, FinishCurrent(t) PROVE SlotHasOneUser'
  BY <1>14 DEF FinishCurrent, writing, reading
<1>15. ASSUME NEW t \in Thread, Restore(t) PROVE SlotHasOneUser'
  BY <1>15 DEF Restore, writing, reading
<1>16. ASSUME NEW t \in Thread, Recheck(t) PROVE SlotHasOneUser'
  BY <1>16 DEF Recheck, Return, Forget, writing
<1>17. ASSUME NEW t \in Thread, RecheckEarly(t) PROVE SlotHasOneUser'
  BY <1>17 DEF RecheckEarly, writing, reading
<1>18. ASSUME NEW t \in Thread, RestoreLate(t) PROVE SlotHasOneUser'
  BY <1>18 DEF RestoreLate, Return, Forget, writing
<1>19. ASSUME NEW t \in Thread, Drop(t) PROVE SlotHasOneUser'
  BY <1>19 DEF Drop, Return, Forget, CompareExchange, writing
<1>20. CASE UNCHANGED vars
  BY <1>20 DEF vars
<1> QED
  BY <1>1, <1>2, <1>3, <1>4, <1>5, <1>6, <1>7, <1>8, <1>9, <1>10, <1>11, <1>12, <1>13, <1>14, <1>15, <1>16, <1>17, <1>18, <1>19, <1>20 DEF Next, Publish, ReadOn

\* The publisher's count follows what it publishes and what it discards.
LEMMA VersionStep ==
  ASSUME IInv, [Next]_vars
  PROVE  VersionInv'
<1> USE ChannelAssumption DEF IInv, TypeOK, VersionInv, ReadInv, FreshReads, Slot, Thread
<1>1. CASE StartPublish
  BY <1>1 DEF StartPublish, reading
<1>2. CASE Reclaim
  BY <1>2 DEF Reclaim, CompareExchange, reading
<1>3. CASE ClaimSucceeds
  BY <1>3 DEF ClaimSucceeds, Exchanged, reading
<1>4. CASE ClaimFails
  BY <1>4 DEF ClaimFails, NextSlot, reading
<1>5. CASE Exchange
  BY <1>5 DEF Exchange, reading
<1>6. CASE Show
  BY <1>6 DEF Show, NoClaim, reading
<1>7. CASE Retire
  BY <1>7 DEF Retire, NoClaim, CompareExchange, reading
<1>8. ASSUME NEW t \in Thread, ReadBegin(t) PROVE VersionInv'
  BY <1>8 DEF ReadBegin, writing, MayRead
<1>9. ASSUME NEW t \in Thread, Take(t) PROVE VersionInv'
  BY <1>9 DEF Take, Exchanged, writing
<1>10. ASSUME NEW t \in Thread, TakeFails(t) PROVE VersionInv'
  BY <1>10 DEF TakeFails, Forget, writing
<1>11. ASSUME NEW t \in Thread, CopyEnd(t) PROVE VersionInv'
  BY <1>11 DEF CopyEnd, writing
<1>12. ASSUME NEW t \in Thread, ConsumeEnd(t) PROVE VersionInv'
  BY <1>12 DEF ConsumeEnd, Forget, writing
<1>13. ASSUME NEW t \in Thread, FinishStale(t) PROVE VersionInv'
  BY <1>13 DEF FinishStale, Return, Forget, writing
<1>14. ASSUME NEW t \in Thread, FinishCurrent(t) PROVE VersionInv'
  BY <1>14 DEF FinishCurrent, writing, reading
<1>15. ASSUME NEW t \in Thread, Restore(t) PROVE VersionInv'
  BY <1>15 DEF Restore, writing, reading
<1>16. ASSUME NEW t \in Thread, Recheck(t) PROVE VersionInv'
  BY <1>16 DEF Recheck, Return, Forget, writing
<1>17. ASSUME NEW t \in Thread, RecheckEarly(t) PROVE VersionInv'
  BY <1>17 DEF RecheckEarly, writing, reading
<1>18. ASSUME NEW t \in Thread, RestoreLate(t) PROVE VersionInv'
  BY <1>18 DEF RestoreLate, Return, Forget, writing
<1>19. ASSUME NEW t \in Thread, Drop(t) PROVE VersionInv'
  BY <1>19 DEF Drop, Return, Forget, CompareExchange, writing
<1>20. CASE UNCHANGED vars
  BY <1>20 DEF vars
<1> QED
  BY <1>1, <1>2, <1>3, <1>4, <1>5, <1>6, <1>7, <1>8, <1>9, <1>10, <1>11, <1>12, <1>13, <1>14, <1>15, <1>16, <1>17, <1>18, <1>19, <1>20 DEF Next, Publish, ReadOn

\* What may be read stays whole: only the slot that is written changes.
LEMMA ContentStep ==
  ASSUME IInv, [Next]_vars
  PROVE  ContentInv'
<1> USE ChannelAssumption DEF IInv, TypeOK, VersionInv, ContentInv, SlotHasOneUser, Reads, Writes, Slot, Thread
<1>1. CASE StartPublish
  BY <1>1 DEF StartPublish, reading
<1>2. CASE Reclaim
  BY <1>2 DEF Reclaim, CompareExchange, reading
<1>3. CASE ClaimSucceeds
  BY <1>3 DEF ClaimSucceeds, Exchanged, reading
<1>4. CASE ClaimFails
  BY <1>4 DEF ClaimFails, NextSlot, reading
<1>5. CASE Exchange
  BY <1>5 DEF Exchange, reading
<1>6. CASE Show
  BY <1>6 DEF Show, NoClaim, reading
<1>7. CASE Retire
  BY <1>7 DEF Retire, NoClaim, CompareExchange, reading
<1>8. ASSUME NEW t \in Thread, ReadBegin(t) PROVE ContentInv'
  BY <1>8 DEF ReadBegin, writing, MayRead
<1>9. ASSUME NEW t \in Thread, Take(t) PROVE ContentInv'
  BY <1>9 DEF Take, Exchanged, writing
<1>10. ASSUME NEW t \in Thread, TakeFails(t) PROVE ContentInv'
  BY <1>10 DEF TakeFails, Forget, writing
<1>11. ASSUME NEW t \in Thread, CopyEnd(t) PROVE ContentInv'
  BY <1>11 DEF CopyEnd, writing
<1>12. ASSUME NEW t \in Thread, ConsumeEnd(t) PROVE ContentInv'
  BY <1>12 DEF ConsumeEnd, Forget, writing
<1>13. ASSUME NEW t \in Thread, FinishStale(t) PROVE ContentInv'
  BY <1>13 DEF FinishStale, Return, Forget, writing
<1>14. ASSUME NEW t \in Thread, FinishCurrent(t) PROVE ContentInv'
  BY <1>14 DEF FinishCurrent, writing, reading
<1>15. ASSUME NEW t \in Thread, Restore(t) PROVE ContentInv'
  BY <1>15 DEF Restore, writing, reading
<1>16. ASSUME NEW t \in Thread, Recheck(t) PROVE ContentInv'
  BY <1>16 DEF Recheck, Return, Forget, writing
<1>17. ASSUME NEW t \in Thread, RecheckEarly(t) PROVE ContentInv'
  BY <1>17 DEF RecheckEarly, writing, reading
<1>18. ASSUME NEW t \in Thread, RestoreLate(t) PROVE ContentInv'
  BY <1>18 DEF RestoreLate, Return, Forget, writing
<1>19. ASSUME NEW t \in Thread, Drop(t) PROVE ContentInv'
  BY <1>19 DEF Drop, Return, Forget, CompareExchange, writing
<1>20. CASE UNCHANGED vars
  BY <1>20 DEF vars
<1> QED
  BY <1>1, <1>2, <1>3, <1>4, <1>5, <1>6, <1>7, <1>8, <1>9, <1>10, <1>11, <1>12, <1>13, <1>14, <1>15, <1>16, <1>17, <1>18, <1>19, <1>20 DEF Next, Publish, ReadOn

\* Reads stay fresh while they go on.
LEMMA ReadStep ==
  ASSUME IInv, [Next]_vars
  PROVE  ReadInv'
<1> USE ChannelAssumption DEF IInv, TypeOK, VersionInv, ContentInv, ReadInv, SlotHasOneUser, Reads, Writes, Slot, Thread
<1>1. CASE StartPublish
  BY <1>1 DEF StartPublish, reading
<1>2. CASE Reclaim
  BY <1>2 DEF Reclaim, CompareExchange, reading
<1>3. CASE ClaimSucceeds
  BY <1>3 DEF ClaimSucceeds, Exchanged, reading
<1>4. CASE ClaimFails
  BY <1>4 DEF ClaimFails, NextSlot, reading
<1>5. CASE Exchange
  BY <1>5 DEF Exchange, reading
<1>6. CASE Show
  BY <1>6 DEF Show, NoClaim, reading
<1>7. CASE Retire
  BY <1>7 DEF Retire, NoClaim, CompareExchange, reading
<1>8. ASSUME NEW t \in Thread, ReadBegin(t) PROVE ReadInv'
  BY <1>8 DEF ReadBegin, writing, MayRead
<1>9. ASSUME NEW t \in Thread, Take(t) PROVE ReadInv'
  BY <1>9 DEF Take, Exchanged, writing
<1>10. ASSUME NEW t \in Thread, TakeFails(t) PROVE ReadInv'
  BY <1>10 DEF TakeFails, Forget, writing
<1>11. ASSUME NEW t \in Thread, CopyEnd(t) PROVE ReadInv'
  BY <1>11 DEF CopyEnd, writing
<1>12. ASSUME NEW t \in Thread, ConsumeEnd(t) PROVE ReadInv'
  BY <1>12 DEF ConsumeEnd, Forget, writing
<1>13. ASSUME NEW t \in Thread, FinishStale(t) PROVE ReadInv'
  BY <1>13 DEF FinishStale, Return, Forget, writing
<1>14. ASSUME NEW t \in Thread, FinishCurrent(t) PROVE ReadInv'
  BY <1>14 DEF FinishCurrent, writing, reading
<1>15. ASSUME NEW t \in Thread, Restore(t) PROVE ReadInv'
  BY <1>15 DEF Restore, writing, reading
<1>16. ASSUME NEW t \in Thread, Recheck(t) PROVE ReadInv'
  BY <1>16 DEF Recheck, Return, Forget, writing
<1>17. ASSUME NEW t \in Thread, RecheckEarly(t) PROVE ReadInv'
  BY <1>17 DEF RecheckEarly, writing, reading
<1>18. ASSUME NEW t \in Thread, RestoreLate(t) PROVE ReadInv'
  BY <1>18 DEF RestoreLate, Return, Forget, writing
<1>19. ASSUME NEW t \in Thread, Drop(t) PROVE ReadInv'
  BY <1>19 DEF Drop, Return, Forget, CompareExchange, writing
<1>20. CASE UNCHANGED vars
  BY <1>20 DEF vars
<1> QED
  BY <1>1, <1>2, <1>3, <1>4, <1>5, <1>6, <1>7, <1>8, <1>9, <1>10, <1>11, <1>12, <1>13, <1>14, <1>15, <1>16, <1>17, <1>18, <1>19, <1>20 DEF Next, Publish, ReadOn

\* A copy that ends is whole and fresh.
LEMMA FreshStep ==
  ASSUME IInv, [Next]_vars
  PROVE  FreshReads'
<1> USE ChannelAssumption DEF IInv, TypeOK, VersionInv, ContentInv, ReadInv, FreshReads, SlotHasOneUser, Reads, Writes, Slot, Thread
<1>1. CASE StartPublish
  BY <1>1 DEF StartPublish, reading
<1>2. CASE Reclaim
  BY <1>2 DEF Reclaim, CompareExchange, reading
<1>3. CASE ClaimSucceeds
  BY <1>3 DEF ClaimSucceeds, Exchanged, reading
<1>4. CASE ClaimFails
  BY <1>4 DEF ClaimFails, NextSlot, reading
<1>5. CASE Exchange
  BY <1>5 DEF Exchange, reading
<1>6. CASE Show
  BY <1>6 DEF Show, NoClaim, reading
<1>7. CASE Retire
  BY <1>7 DEF Retire, NoClaim, CompareExchange, reading
<1>8. ASSUME NEW t \in Thread, ReadBegin(t) PROVE FreshReads'
  BY <1>8 DEF ReadBegin, writing, MayRead
<1>9. ASSUME NEW t \in Thread, Take(t) PROVE FreshReads'
  BY <1>9 DEF Take, Exchanged, writing
<1>10. ASSUME NEW t \in Thread, TakeFails(t) PROVE FreshReads'
  BY <1>10 DEF TakeFails, Forget, writing
<1>11. ASSUME NEW t \in Thread, CopyEnd(t) PROVE FreshReads'
  BY <1>11 DEF CopyEnd, writing
<1>12. ASSUME NEW t \in Thread, ConsumeEnd(t) PROVE FreshReads'
  BY <1>12 DEF ConsumeEnd, Forget, writing
<1>13. ASSUME NEW t \in Thread, FinishStale(t) PROVE FreshReads'
  BY <1>13 DEF FinishStale, Return, Forget, writing
<1>14. ASSUME NEW t \in Thread, FinishCurrent(t) PROVE FreshReads'
  BY <1>14 DEF FinishCurrent, writing, reading
<1>15. ASSUME NEW t \in Thread, Restore(t) PROVE FreshReads'
  BY <1>15 DEF Restore, writing, reading
<1>16. ASSUME NEW t \in Thread, Recheck(t) PROVE FreshReads'
  BY <1>16 DEF Recheck, Return, Forget, writing
<1>17. ASSUME NEW t \in Thread, RecheckEarly(t) PROVE FreshReads'
  BY <1>17 DEF RecheckEarly, writing, reading
<1>18. ASSUME NEW t \in Thread, RestoreLate(t) PROVE FreshReads'
  BY <1>18 DEF RestoreLate, Return, Forget, writing
<1>19. ASSUME NEW t \in Thread, Drop(t) PROVE FreshReads'
  BY <1>19 DEF Drop, Return, Forget, CompareExchange, writing
<1>20. CASE UNCHANGED vars
  BY <1>20 DEF vars
<1> QED
  BY <1>1, <1>2, <1>3, <1>4, <1>5, <1>6, <1>7, <1>8, <1>9, <1>10, <1>11, <1>12, <1>13, <1>14, <1>15, <1>16, <1>17, <1>18, <1>19, <1>20 DEF Next, Publish, ReadOn

\* The invariant of the channel: who uses each slot, what is in it, and what the
\* reads have copied.
THEOREM Invariance == Spec => []IInv
<1>1. IInv /\ [Next]_vars => IInv'
  <2> SUFFICES ASSUME IInv, [Next]_vars PROVE IInv'
    OBVIOUS
  <2> QED
    BY TypeStep, UserStep, VersionStep, ContentStep, ReadStep, FreshStep DEF IInv
<1> QED
  BY InitInv, <1>1, PTL DEF Spec

\* Every variable keeps its type, for any number of threads and versions:
\* claim_empty_slot stays within the three slots, and discard_scan only ever
\* gives output_version_ a version that has been published.
THEOREM TypeCorrect == Spec => []TypeOK
<1>1. IInv => TypeOK
  BY DEF IInv
<1> QED
  BY Invariance, <1>1, PTL

\* The copies of publish_channel, snapshot_channel and consume_channel never
\* touch a slot together, whatever finish_snapshot_read and claim_empty_slot
\* take back in between.
THEOREM OneUserPerSlot == Spec => []SlotHasOneUser
<1>1. IInv => SlotHasOneUser
  BY DEF IInv
<1> QED
  BY Invariance, <1>1, PTL

\* snapshot_channel and consume_channel return whole areas that are no older
\* than the one that was current when they were called.
THEOREM ReadsAreFresh == Spec => []FreshReads
<1>1. IInv => FreshReads
  BY DEF IInv
<1> QED
  BY Invariance, <1>1, PTL

-----------------------------------------------------------------------------
(* An input channel gives each version to its consumer once.               *)

\* The states in which a thread of an input channel can be.
InputStates(t) ==
    IF t = Publisher THEN {"idle", "reclaim", "claim", "write", "show", "retire"}
    ELSE IF t = Consumer THEN {"idle", "take", "copy", "consumed"} ELSE {"idle"}

\* A slot that the consumer may come to take.
Offered(s) ==
    /\ state[s] = "published"
    /\ s = published \/ (pc[Consumer] = "take" /\ s = idx[Consumer])

\* What is offered is newer than what was consumed, and so is what is being
\* consumed; either is older than the latest version unless it is the current
\* one, so that the version offered next is newer still.
OnceInv ==
    /\ kind = "image" => \A t \in Thread : pc[t] # "consumed"
    /\ kind = "input" =>
        /\ \A t \in Thread : pc[t] \in InputStates(t)
        /\ got \in 0 .. latest
        /\ pc[Publisher] = "show" => got < latest
        /\ \A s \in Slot : Offered(s) =>
              content[s] > got /\ (s # published => content[s] < latest)
        /\ pc[Consumer] \in {"copy", "consumed"} =>
              /\ val[Consumer] > got
              /\ idx[Consumer] # published => val[Consumer] < latest

\* The consumer is not the publisher.
LEMMA Roles == Consumer \in Thread /\ Publisher \in Thread /\ Consumer # Publisher
  BY ChannelAssumption DEF Thread

\* Every step keeps what is offered newer than what was consumed.
LEMMA OnceStep ==
  ASSUME IInv, OnceInv, [Next]_vars
  PROVE  OnceInv'
<1> USE Roles, ChannelAssumption
    DEF IInv, TypeOK, VersionInv, ContentInv, ReadInv, FreshReads, SlotHasOneUser, Reads, Writes,
        OnceInv, Offered, InputStates, Slot
<1>1. CASE StartPublish
  BY <1>1 DEF StartPublish, reading
<1>2. CASE Reclaim
  BY <1>2 DEF Reclaim, CompareExchange, reading
<1>3. CASE ClaimSucceeds
  BY <1>3 DEF ClaimSucceeds, Exchanged, reading
<1>4. CASE ClaimFails
  BY <1>4 DEF ClaimFails, NextSlot, reading
<1>5. CASE Exchange
  BY <1>5 DEF Exchange, reading
<1>6. CASE Show
  BY <1>6 DEF Show, NoClaim, reading
<1>7. CASE Retire
  BY <1>7 DEF Retire, NoClaim, CompareExchange, reading
<1>8. ASSUME NEW t \in Thread, ReadBegin(t) PROVE OnceInv'
  BY <1>8 DEF ReadBegin, writing, MayRead
<1>9. ASSUME NEW t \in Thread, Take(t) PROVE OnceInv'
  BY <1>9 DEF Take, Exchanged, writing
<1>10. ASSUME NEW t \in Thread, TakeFails(t) PROVE OnceInv'
  BY <1>10 DEF TakeFails, Forget, writing
<1>11. ASSUME NEW t \in Thread, CopyEnd(t) PROVE OnceInv'
  BY <1>11 DEF CopyEnd, writing
<1>12. ASSUME NEW t \in Thread, ConsumeEnd(t) PROVE OnceInv'
  BY <1>12 DEF ConsumeEnd, Forget, writing
<1>13. ASSUME NEW t \in Thread, FinishStale(t) PROVE OnceInv'
  BY <1>13 DEF FinishStale, Return, Forget, writing
<1>14. ASSUME NEW t \in Thread, FinishCurrent(t) PROVE OnceInv'
  BY <1>14 DEF FinishCurrent, writing, reading
<1>15. ASSUME NEW t \in Thread, Restore(t) PROVE OnceInv'
  BY <1>15 DEF Restore, writing, reading
<1>16. ASSUME NEW t \in Thread, Recheck(t) PROVE OnceInv'
  BY <1>16 DEF Recheck, Return, Forget, writing
<1>17. ASSUME NEW t \in Thread, RecheckEarly(t) PROVE OnceInv'
  BY <1>17 DEF RecheckEarly, writing, reading
<1>18. ASSUME NEW t \in Thread, RestoreLate(t) PROVE OnceInv'
  BY <1>18 DEF RestoreLate, Return, Forget, writing
<1>19. ASSUME NEW t \in Thread, Drop(t) PROVE OnceInv'
  BY <1>19 DEF Drop, Return, Forget, CompareExchange, writing
<1>20. CASE UNCHANGED vars
  BY <1>20 DEF vars
<1> QED
  BY <1>1, <1>2, <1>3, <1>4, <1>5, <1>6, <1>7, <1>8, <1>9, <1>10, <1>11, <1>12, <1>13, <1>14, <1>15, <1>16, <1>17, <1>18, <1>19, <1>20 DEF Next, Publish, ReadOn

\* The consumer finishes with a newer version than it had.
LEMMA OnceConsumes ==
  ASSUME IInv, OnceInv, [Next]_vars, NEW u \in Thread, pc[u] = "consumed", pc'[u] = "idle"
  PROVE  got' > got
<1> USE Roles, ChannelAssumption DEF IInv, TypeOK, OnceInv, InputStates
<1>1. CASE StartPublish
  BY <1>1 DEF StartPublish, reading
<1>2. CASE Reclaim
  BY <1>2 DEF Reclaim, CompareExchange, reading
<1>3. CASE ClaimSucceeds
  BY <1>3 DEF ClaimSucceeds, Exchanged, reading
<1>4. CASE ClaimFails
  BY <1>4 DEF ClaimFails, NextSlot, reading
<1>5. CASE Exchange
  BY <1>5 DEF Exchange, reading
<1>6. CASE Show
  BY <1>6 DEF Show, NoClaim, reading
<1>7. CASE Retire
  BY <1>7 DEF Retire, NoClaim, CompareExchange, reading
<1>8. ASSUME NEW t \in Thread, ReadBegin(t) PROVE got' > got
  BY <1>8 DEF ReadBegin, writing, MayRead
<1>9. ASSUME NEW t \in Thread, Take(t) PROVE got' > got
  BY <1>9 DEF Take, Exchanged, writing
<1>10. ASSUME NEW t \in Thread, TakeFails(t) PROVE got' > got
  BY <1>10 DEF TakeFails, Forget, writing
<1>11. ASSUME NEW t \in Thread, CopyEnd(t) PROVE got' > got
  BY <1>11 DEF CopyEnd, writing
<1>12. ASSUME NEW t \in Thread, ConsumeEnd(t) PROVE got' > got
  BY <1>12 DEF ConsumeEnd, Forget, writing
<1>13. ASSUME NEW t \in Thread, FinishStale(t) PROVE got' > got
  BY <1>13 DEF FinishStale, Return, Forget, writing
<1>14. ASSUME NEW t \in Thread, FinishCurrent(t) PROVE got' > got
  BY <1>14 DEF FinishCurrent, writing, reading
<1>15. ASSUME NEW t \in Thread, Restore(t) PROVE got' > got
  BY <1>15 DEF Restore, writing, reading
<1>16. ASSUME NEW t \in Thread, Recheck(t) PROVE got' > got
  BY <1>16 DEF Recheck, Return, Forget, writing
<1>17. ASSUME NEW t \in Thread, RecheckEarly(t) PROVE got' > got
  BY <1>17 DEF RecheckEarly, writing, reading
<1>18. ASSUME NEW t \in Thread, RestoreLate(t) PROVE got' > got
  BY <1>18 DEF RestoreLate, Return, Forget, writing
<1>19. ASSUME NEW t \in Thread, Drop(t) PROVE got' > got
  BY <1>19 DEF Drop, Return, Forget, CompareExchange, writing
<1>20. CASE UNCHANGED vars
  BY <1>20 DEF vars
<1> QED
  BY <1>1, <1>2, <1>3, <1>4, <1>5, <1>6, <1>7, <1>8, <1>9, <1>10, <1>11, <1>12, <1>13, <1>14, <1>15, <1>16, <1>17, <1>18, <1>19, <1>20 DEF Next, Publish, ReadOn

\* consume_channel gives a submission to the scan thread at most once, and never
\* an older one after a newer one, whatever the executor publishes meanwhile.
THEOREM SubmissionsTakenOnce == Spec => ConsumedOnce
<1>1. Init => OnceInv
  BY Roles, ChannelAssumption DEF Init, OnceInv, Offered, InputStates, Slot
<1>2. IInv /\ OnceInv /\ [Next]_vars => OnceInv'
  BY OnceStep
<1>3. IInv /\ OnceInv /\ [Next]_vars
        => [\A t \in Thread : pc[t] = "consumed" /\ pc'[t] = "idle" => got' > got]_vars
  BY OnceConsumes
<1> QED
  BY Invariance, <1>1, <1>2, <1>3, PTL DEF Spec, ConsumedOnce
=============================================================================
