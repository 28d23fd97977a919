-------------------------- MODULE MCSequenceNumber --------------------------
(* SequenceNumber for TLC: numbers are stored every 2 instead of 256, the   *)
(* IV update threshold is 4 and the network reaches IV index 3.             *)
EXTENDS SequenceNumber, TLC
CONSTANTS t1, t2

MCStep == 2
MCThreshold == 4
MCIvJump == 42
MCMissing == 10
MCStartIvs == {0, 10}
MCMaxPdus == 2
MCMaxSeq == 9
MCMaxIv == 3

AnyThread == Permutations(Threads)

\* Both properties promise nothing from a disturbance on, which is never taken back:
\* no behaviour is followed beyond its first one.
Undisturbed == ~raced /\ ~cleared
=============================================================================
