---------------------------- MODULE MCNativeDump ----------------------------
(* An instance of NativeDump: two packages, one of them packed by Baidu,     *)
(* loaded by the main thread and two others, on a release of each kind the   *)
(* code tells apart and on one it does not support.                          *)
EXTENDS NativeDump

CONSTANTS main, worker, other, p, q

Three       == {main, worker, other}
TwoPackages == {p, q}
OneOfBaidu  == {[x \in TwoPackages |-> IF x = p THEN "QI_HOO" ELSE "BAI_DU"]}

\* Nothing fails on any device; the first steps fail where Java is the fallback and
\* where it is not, the last ones in either hook library.
Early   == {"load", "mkdirs", "dlopen", "dlsym", "register"}
Late    == {"fork", "attach", "mprotect", "cold"}
Devices == ({22, 23, 26, 28, 29} \X {32, 64} \X {{}})
               \cup {<<23, 32, Early>>, <<28, 64, Early>>, <<26, 32, Late>>, <<26, 64, Late>>}
=============================================================================
