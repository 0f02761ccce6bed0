------------------------------ MODULE MCBridge ------------------------------
(* Small instances of the bridge for TLC. *)
EXTENDS BridgeProperties

CONSTANTS j1, j2, j3, m1, c1, c2, i1, i2, worker, main, mix, mp3, stem

\* j1, j2 and j3 are tries of one request.
TriesOfOne == [j \in Jobs |-> IF j \in {j1, j2, j3} THEN "one request" ELSE "another"]
OneEach == [j \in Jobs |-> j]

\* mp3 has the bytes of mix, in the same family and under another suffix.
OneSuffix == [a \in Assets |-> a]
TwoSuffixes == [a \in Assets |-> IF a = mp3 THEN mix ELSE a]

NoUploads == <<>>
MixAndStem == [i \in Imports |-> IF i = i1 THEN <<mix, stem>> ELSE <<mix>>]
MixAndCopy == [i \in Imports |-> IF i = i1 THEN <<mix, stem>> ELSE <<mp3>>]
MixTwice == [i \in Imports |-> <<mix, mp3>>]

==============================================================================
