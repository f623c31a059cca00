----------------------------- MODULE MCRelocate -----------------------------
(* Relocate with prologues of every mix of instruction types, in fresh and   *)
(* in reused table entries.                                                  *)
EXTENDS Relocate
=============================================================================
