----------------------------- MODULE MCAnd64Hook -----------------------------
(* An instance of And64Hook: a function with a patch of one word and one with *)
(* a patch of five, which hold the NOP and all of the patch of four.          *)
EXTENDS And64Hook, TLC

CONSTANTS c1, c2, t1, f, g

TwoCallers == {c1, c2}
OneThread  == {t1}
Two        == {f, g}
Mixed      == f :> 1 @@ g :> 5
================================================================================
