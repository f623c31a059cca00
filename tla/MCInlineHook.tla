---------------------------- MODULE MCInlineHook ----------------------------
(* Instances of InlineHook for TLC: three threads, two functions to hook, in *)
(* one of them a prologue whose copy has an instruction that is expanded.    *)
EXTENDS InlineHook, TLC

CONSTANTS main, worker1, worker2, f, g, p1, p2

\* ARM: two instructions, the first a PC-relative load of three words.
ArmLayout ==
    [count |-> 2, orig |-> [k \in 0 .. 1 |-> 4 * k],
     tramp |-> [k \in 0 .. 1 |-> 12 * k], tail |-> 16, inner |-> {4}, calls |-> {},
     under |-> [opcode |-> {0}, address |-> {4}]]

\* ARM: a branch with link in the first word.
ArmLayout2 ==
    [count |-> 2, orig |-> [k \in 0 .. 1 |-> 4 * k],
     tramp |-> [k \in 0 .. 1 |-> 12 * k], tail |-> 16, inner |-> {4}, calls |-> {0},
     under |-> [opcode |-> {0}, address |-> {4}]]

\* Thumb, word aligned: a 32-bit branch with link, a 16-bit instruction and
\* two 32-bit ones, the second in the last halfword: it is not copied, and its
\* boundary is the jump back.
ThumbLayout ==
    [count |-> 4, orig |-> [k \in 0 .. 3 |-> <<0, 4, 6, 10>>[k + 1]],
     tramp |-> [k \in 0 .. 3 |-> <<0, 12, 16, 20>>[k + 1]], tail |-> 20,
     inner |-> {4}, calls |-> {0}, under |-> [opcode |-> {0}, address |-> {4, 6}]]

\* Thumb, not word aligned: six 16-bit instructions behind a NOP, the last but one
\* a call through a register.
LongLayout ==
    [count |-> 6, orig |-> [k \in 0 .. 5 |-> 2 * k],
     tramp |-> [k \in 0 .. 5 |-> 4 * k], tail |-> 24, inner |-> {}, calls |-> {4},
     under |-> [opcode |-> {0, 2, 4}, address |-> {6, 8}]]

MCThreads   == {main, worker1, worker2}
MCSpawned   == {main, worker1}
MCTargets   == {f, g}
MCPages     == {p1, p2}

ThumbAndArm == f :> ThumbLayout @@ g :> ArmLayout
TwoArm      == f :> ArmLayout @@ g :> ArmLayout2
LongAndArm  == f :> LongLayout @@ g :> ArmLayout2
=============================================================================
