---------------------------- MODULE ImageChannel ----------------------------
(***************************************************************************)
(* core/st/process_image.h, ByteChannel: three slots through which the     *)
(* scan thread and the host threads hand over whole areas of the process   *)
(* image.  The same channel is used in two ways:                           *)
(*   "input"  the executor submits the input area, and the scan thread     *)
(*            takes each submission away at a scan boundary;               *)
(*   "image"  the scan thread publishes the output (or memory) area after  *)
(*            a scan, host threads take snapshots of it, and so does the   *)
(*            scan thread itself when it discards a scan that failed.      *)
(*                                                                         *)
(* Calls are broken at every access to an atomic.  The copies between them *)
(* are plain memory: a copy begins with the access before it and ends with *)
(* a step of its own or the access after it, the longest it can last.  An  *)
(* area is represented by its version.                                     *)
(***************************************************************************)
EXTENDS Integers

CONSTANTS Reader,     \* the host threads that take snapshots
          Consumer,   \* the one that consumes, when the channel is the input
          Publisher,  \* the executor, or the scan thread
          Torn,       \* bytes of more than one version
          MaxVersion  \* bound on the versions that are published

ASSUME ChannelAssumption ==
    /\ Consumer \in Reader
    /\ Publisher \notin Reader
    /\ MaxVersion \in Nat
    /\ Torn \notin Int

VARIABLES kind,      \* which use this channel is put to; it never changes
          state,     \* the state of each slot
          content,   \* the version whose bytes each slot holds
          published, \* the slot published last, -1 if there is none
          version,   \* output_version_, or the version the executor gives
          pub,       \* claim_empty_slot's index, the claimed slot, and old
          pc,        \* where each thread is
          idx,       \* the slot a reading thread has loaded from published
          val,       \* the version it has copied
          latest,    \* history: the version published last
          low,       \* history: latest when the thread's read began
          got        \* the version the last consume returned; 0: none

vars == <<kind, state, content, published, version, pub, pc, idx, val, latest, low, got>>

Slot == 0 .. 2
Thread == Reader \cup {Publisher}

\* What a publication starts with.
NoClaim == [pos |-> 0, slot |-> 0, old |-> -1]

\* prepare_channel; an output or memory channel is then initialized with
\* version 0 (initialize_channel).
Init ==
    /\ kind \in {"input", "image"}
    /\ state = [s \in Slot |-> IF kind = "image" /\ s = 0 THEN "published" ELSE "empty"]
    /\ content = [s \in Slot |-> 0]
    /\ published = IF kind = "image" THEN 0 ELSE -1
    /\ version = 0
    /\ pub = NoClaim
    /\ pc = [t \in Thread |-> "idle"]
    /\ idx = [t \in Thread |-> 0]
    /\ val = [t \in Thread |-> 0]
    /\ latest = 0
    /\ low = [t \in Thread |-> 0]
    /\ got = 0

reading == <<idx, val, low, got>>

\* compare_exchange on the state of a slot, the two outcomes.
Exchanged(s, expected, desired) ==
    state[s] = expected /\ state' = [state EXCEPT ![s] = desired]
CompareExchange(s, expected, desired) ==
    state' = IF state[s] = expected THEN [state EXCEPT ![s] = desired] ELSE state

-----------------------------------------------------------------------------
(* publish_channel.  published is stored by the publisher only, so that      *)
(* claim_empty_slot's current is published itself.                           *)

\* publish_scan counts the version up; an executor submits a new one.
StartPublish ==
    /\ pc[Publisher] = "idle" /\ version < MaxVersion
    /\ version' = version + 1
    /\ pc' = [pc EXCEPT ![Publisher] = "reclaim"]
    /\ UNCHANGED <<kind, state, content, published, pub, latest, reading>>

\* claim_empty_slot: a slot that is published but not the current one is empty.
Reclaim ==
    /\ pc[Publisher] = "reclaim"
    /\ IF pub.pos # published THEN CompareExchange(pub.pos, "published", "empty")
                              ELSE UNCHANGED state
    /\ pc' = [pc EXCEPT ![Publisher] = "claim"]
    /\ UNCHANGED <<kind, content, published, version, pub, latest, reading>>

\* The slot is the publisher's, and its bytes are neither old nor new from now
\* on until the copy ends.
ClaimSucceeds ==
    /\ pc[Publisher] = "claim"
    /\ Exchanged(pub.pos, "empty", "writing")
    /\ content' = [content EXCEPT ![pub.pos] = Torn]
    /\ pub' = [pub EXCEPT !.slot = pub.pos]
    /\ pc' = [pc EXCEPT ![Publisher] = "write"]
    /\ UNCHANGED <<kind, published, version, latest, reading>>

\* Mutants: one slot too many; the same slot again and again.
NextSlotUnwrapped(s) == (s + 1) % 4
NextSlotStays(s) == s
NextSlot(s) == (s + 1) % 3

\* claim_empty_slot goes on to the next slot, and round again after the last:
\* the slot is not empty, or the weak exchange failed spuriously.
ClaimFails ==
    /\ pc[Publisher] = "claim"
    /\ pub' = [pub EXCEPT !.pos = NextSlot(@)]
    /\ pc' = [pc EXCEPT ![Publisher] = "reclaim"]
    /\ UNCHANGED <<kind, state, content, published, version, latest, reading>>

\* The copy ends, and published.exchange(index) makes the slot the current one.
Exchange ==
    /\ pc[Publisher] = "write"
    /\ content' = [content EXCEPT ![pub.slot] = version]
    /\ pub' = [pub EXCEPT !.old = published]
    /\ published' = pub.slot
    /\ latest' = version
    /\ pc' = [pc EXCEPT ![Publisher] = "show"]
    /\ UNCHANGED <<kind, state, version, reading>>

\* Mutant: the old slot is retired even if it is the new one.
ShowRetireAlways ==
    /\ pc[Publisher] = "show"
    /\ state' = [state EXCEPT ![pub.slot] = "published"]
    /\ pc' = [pc EXCEPT ![Publisher] = IF pub.old >= 0 THEN "retire" ELSE "idle"]
    /\ pub' = IF pub.old >= 0 THEN pub ELSE NoClaim
    /\ UNCHANGED <<kind, content, published, version, latest, reading>>

\* The slot may be taken from now on; the one published before is retired.
Show ==
    /\ pc[Publisher] = "show"
    /\ state' = [state EXCEPT ![pub.slot] = "published"]
    /\ IF pub.old >= 0 /\ pub.old # pub.slot
       THEN pc' = [pc EXCEPT ![Publisher] = "retire"] /\ UNCHANGED pub
       ELSE pc' = [pc EXCEPT ![Publisher] = "idle"] /\ pub' = NoClaim
    /\ UNCHANGED <<kind, content, published, version, latest, reading>>

Retire ==
    /\ pc[Publisher] = "retire"
    /\ CompareExchange(pub.old, "published", "empty")
    /\ pc' = [pc EXCEPT ![Publisher] = "idle"]
    /\ pub' = NoClaim
    /\ UNCHANGED <<kind, content, published, version, latest, reading>>

-----------------------------------------------------------------------------
(* Reads: consume_channel by the consumer of an input channel, and           *)
(* snapshot_channel by the readers of an image, or by the publisher for      *)
(* discard_scan.                                                             *)

MayRead(t) == IF kind = "input" THEN t = Consumer ELSE t \in Thread

writing == <<kind, published, pub, content, latest>>

\* A read begins with its first load of published.
ReadBegin(t) ==
    /\ pc[t] = "idle" /\ MayRead(t) /\ published >= 0
    /\ idx' = [idx EXCEPT ![t] = published]
    /\ low' = [low EXCEPT ![t] = latest]
    /\ pc' = [pc EXCEPT ![t] = "take"]
    /\ UNCHANGED <<writing, state, version, val, got>>

\* Mutant: a slot is read without being taken.
TakeUnchecked(t) ==
    /\ pc[t] = "take"
    /\ state' = [state EXCEPT ![idx[t]] = "reading"]
    /\ val' = [val EXCEPT ![t] = content[idx[t]]]
    /\ pc' = [pc EXCEPT ![t] = "copy"]
    /\ UNCHANGED <<writing, version, idx, low, got>>

\* The slot is taken, and the copy begins.
Take(t) ==
    /\ pc[t] = "take"
    /\ Exchanged(idx[t], "published", "reading")
    /\ val' = [val EXCEPT ![t] = content[idx[t]]]
    /\ pc' = [pc EXCEPT ![t] = "copy"]
    /\ UNCHANGED <<writing, version, idx, low, got>>

\* The end of a call: what the thread had loaded is forgotten.
Forget(t) ==
    /\ pc' = [pc EXCEPT ![t] = "idle"]
    /\ idx' = [idx EXCEPT ![t] = 0]
    /\ val' = [val EXCEPT ![t] = 0]
    /\ low' = [low EXCEPT ![t] = 0]

\* consume_channel gives up; snapshot_channel loads published again.  Its
\* exchange is a weak one, which may fail spuriously.
TakeFails(t) ==
    /\ pc[t] = "take"
    /\ IF kind = "input"
       THEN state[idx[t]] # "published" /\ Forget(t)
       ELSE /\ idx' = [idx EXCEPT ![t] = published]
            /\ UNCHANGED <<pc, val, low>>
    /\ UNCHANGED <<writing, state, version, got>>

\* The copy ends: it is whole if the bytes are still the ones it began with.
CopyEnd(t) ==
    /\ pc[t] = "copy"
    /\ val' = [val EXCEPT ![t] = IF content[idx[t]] = @ THEN @ ELSE Torn]
    /\ pc' = [pc EXCEPT ![t] = IF kind = "input" THEN "consumed" ELSE "check"]
    /\ UNCHANGED <<writing, state, version, idx, low, got>>

\* Mutant: the slot stays published.
ConsumeEndPublished(t) ==
    /\ pc[t] = "consumed"
    /\ state' = [state EXCEPT ![idx[t]] = "published"]
    /\ got' = val[t]
    /\ Forget(t)
    /\ UNCHANGED <<writing, version>>

\* consume_channel: what has been consumed is gone.
ConsumeEnd(t) ==
    /\ pc[t] = "consumed"
    /\ state' = [state EXCEPT ![idx[t]] = "empty"]
    /\ got' = val[t]
    /\ Forget(t)
    /\ UNCHANGED <<writing, version>>

\* A snapshot returns; discard_scan makes its version the publisher's.
Return(t) ==
    /\ Forget(t)
    /\ version' = IF t = Publisher THEN val[t] ELSE version

\* finish_snapshot_read: the slot is not the current one any more.
FinishStale(t) ==
    /\ pc[t] = "check" /\ published # idx[t]
    /\ state' = [state EXCEPT ![idx[t]] = "empty"]
    /\ Return(t)
    /\ UNCHANGED <<writing, got>>

FinishCurrent(t) ==
    /\ pc[t] = "check" /\ published = idx[t]
    /\ pc' = [pc EXCEPT ![t] = "restore"]
    /\ UNCHANGED <<writing, state, version, reading>>

\* The slot is published again, ...
Restore(t) ==
    /\ pc[t] = "restore"
    /\ state' = [state EXCEPT ![idx[t]] = "published"]
    /\ pc' = [pc EXCEPT ![t] = "recheck"]
    /\ UNCHANGED <<writing, version, reading>>

\* ... and published is looked at again.
Recheck(t) ==
    /\ pc[t] = "recheck"
    /\ IF published = idx[t]
       THEN Return(t)
       ELSE /\ pc' = [pc EXCEPT ![t] = "drop"]
            /\ UNCHANGED <<version, idx, val, low>>
    /\ UNCHANGED <<writing, state, got>>

\* An acquire load may take effect before the release store it follows.
RecheckEarly(t) ==
    /\ pc[t] = "restore"
    /\ pc' = [pc EXCEPT ![t] = IF published = idx[t] THEN "restore_last" ELSE "restore_drop"]
    /\ UNCHANGED <<writing, state, version, reading>>

RestoreLate(t) ==
    /\ pc[t] \in {"restore_last", "restore_drop"}
    /\ state' = [state EXCEPT ![idx[t]] = "published"]
    /\ IF pc[t] = "restore_last"
       THEN Return(t)
       ELSE /\ pc' = [pc EXCEPT ![t] = "drop"]
            /\ UNCHANGED <<version, idx, val, low>>
    /\ UNCHANGED <<writing, got>>

\* Mutant: the slot is emptied whoever has it by now.
DropUnconditionally(t) ==
    /\ pc[t] = "drop"
    /\ state' = [state EXCEPT ![idx[t]] = "empty"]
    /\ Return(t)
    /\ UNCHANGED <<writing, got>>

\* The slot is not the current one any more: it is emptied if it still is
\* published.
Drop(t) ==
    /\ pc[t] = "drop"
    /\ CompareExchange(idx[t], "published", "empty")
    /\ Return(t)
    /\ UNCHANGED <<writing, got>>

-----------------------------------------------------------------------------
Publish == Reclaim \/ ClaimSucceeds \/ ClaimFails \/ Exchange \/ Show \/ Retire

\* A read that has begun, up to its end.
ReadOn(t) ==
    \/ Take(t) \/ TakeFails(t) \/ CopyEnd(t)
    \/ ConsumeEnd(t) \/ FinishStale(t) \/ FinishCurrent(t) \/ Restore(t)
    \/ Recheck(t) \/ RecheckEarly(t) \/ RestoreLate(t) \/ Drop(t)

Next == StartPublish \/ Publish \/ \E t \in Thread : ReadBegin(t) \/ ReadOn(t)

Spec == Init /\ [][Next]_vars

\* Threads finish the calls they have begun, the consumer comes back at every
\* scan boundary, and the weak exchange of claim_empty_slot does not fail
\* spuriously for ever.  Nobody has to publish, to discard or to take a snapshot.
FairSpec ==
    /\ Spec
    /\ WF_vars(Publish)
    /\ SF_vars(ClaimSucceeds)
    /\ \A t \in Thread : WF_vars(ReadOn(t))
    /\ WF_vars(kind = "input" /\ ReadBegin(Consumer))

\* Nor does the weak exchange of snapshot_channel, if it can succeed again and
\* again.
FairTakeSpec == FairSpec /\ \A t \in Thread : SF_vars(Take(t))

-----------------------------------------------------------------------------
(* Properties.                                                               *)

\* Every variable has its type.
TypeOK ==
    /\ kind \in {"input", "image"}
    /\ state \in [Slot -> {"empty", "writing", "published", "reading"}]
    /\ content \in [Slot -> 0 .. MaxVersion \cup {Torn}]
    /\ published \in Slot \cup {-1}
    /\ version \in 0 .. MaxVersion
    /\ pub \in [pos : Slot, slot : Slot, old : Slot \cup {-1}]
    /\ pc \in [Thread -> {"idle", "reclaim", "claim", "write",
                          "show", "retire", "take", "copy",
                          "consumed", "check", "restore", "recheck", "restore_last",
                          "restore_drop", "drop"}]
    /\ idx \in [Thread -> Slot]
    /\ val \in [Thread -> 0 .. MaxVersion \cup {Torn}]
    /\ latest \in 0 .. MaxVersion
    /\ low \in [Thread -> 0 .. MaxVersion]
    /\ got \in 0 .. MaxVersion \cup {Torn}

Writes(s) == pc[Publisher] \in {"write", "show"} /\ pub.slot = s
Reads(t, s) ==
    /\ pc[t] \in {"copy", "consumed", "check", "restore", "restore_last",
                  "restore_drop"}
    /\ idx[t] = s

\* The state of a slot tells who is using it, and nobody else is: the plain
\* copies of publish_channel, snapshot_channel and consume_channel never race,
\* although finish_snapshot_read and claim_empty_slot both take slots back.
SlotHasOneUser ==
    \A s \in Slot :
        /\ Writes(s) <=> state[s] = "writing"
        /\ (\E t \in Thread : Reads(t, s)) <=> state[s] = "reading"
        /\ \A t, u \in Thread : Reads(t, s) /\ Reads(u, s) => t = u

\* A read returns one whole version, which was published no earlier than the
\* version that was current when the read began: a snapshot is never older
\* than one taken before, and discard_scan goes back to the last scan that was
\* published and to no other.
FreshReads ==
    \A t \in Thread :
        pc[t] \in {"consumed", "check", "restore", "recheck", "restore_last",
                   "restore_drop", "drop"}
            => val[t] \in low[t] .. latest

\* The scan thread takes a submission at most once, and never an older one
\* after a newer one.
ConsumedOnce ==
    [][\A t \in Thread : pc[t] = "consumed" /\ pc'[t] = "idle" => got' > got]_vars

\* submit_input and publish_scan return: a publisher always gets a slot once
\* the readers finish the reads they have begun.
PublishReturns == pc[Publisher] = "reclaim" ~> pc[Publisher] = "write"

\* A submission reaches a scan unless a newer one is on its way, however
\* submissions and scan boundaries interleave.
InputArrives ==
    kind = "input" /\ pc[Publisher] = "idle" /\ got # latest
        ~> got = latest \/ pc[Publisher] # "idle"

\* discard_scan returns, so that a task that fails does not hold up the thread
\* that runs the other tasks (st-l5-semantics.md:15).  A turn of the loop that
\* loads the same slot and finds it empty again changes nothing: a thread that
\* spins for ever stutters at "take".
DiscardReturns == pc[Publisher] = "take" ~> pc[Publisher] = "idle"
=============================================================================
