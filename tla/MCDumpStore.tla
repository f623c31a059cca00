---------------------------- MODULE MCDumpStore ----------------------------
(* Instances of DumpStore: two threads, and dexes shorter than, as long as   *)
(* and longer than DEX_MIN_LEN.                                              *)
EXTENDS DumpStore, TLC

CONSTANTS t1, t2, big, other, tiny

TwoThreads == {t1, t2}
Both       == {big, other}
WithTiny   == {big, other, tiny}

\* Lengths relative to MinLen = 1.
Distinct  == big :> 3 @@ other :> 2 @@ tiny :> 1
Unequal   == big :> 3 @@ other :> 2
SameBytes == big :> 2 @@ other :> 2

Symmetric == Permutations(TwoThreads)
=============================================================================
