---------------------------- MODULE LatestValue ----------------------------
(***************************************************************************)
(* What a latest-value channel promises: versions are published one after  *)
(* the other, and a read that succeeds returns, whole, the version that is *)
(* the latest one at some instant of the read.                             *)
(***************************************************************************)
EXTENDS Naturals

CONSTANT Word \* the words of a payload

VARIABLES latest, \* the number of the version published last; 0: none
          got     \* the version and the payload of the last successful read

\* Every word of a payload shows the version it belongs to.
Whole(v) == [seq |-> v, words |-> [w \in Word |-> v]]

LatestInit == latest = 0 /\ got = Whole(0)

PublishVersion == latest' = latest + 1 /\ got' = got

ReadLatest == latest # 0 /\ got' = Whole(latest) /\ latest' = latest

LatestSpec == LatestInit /\ [][PublishVersion \/ ReadLatest]_<<latest, got>>
=============================================================================
