-------------------------- MODULE MCRelocateValues --------------------------
(* Instances of RelocateValues: every type, with immediates at the ends of   *)
(* their fields, offsets into the prologue, registers on both sides of R7.   *)
EXTENDS RelocateValues

Plain(type, conds, regs, xs) ==
    [type : {type}, cond : conds, reg : regs, rm : {0}, s : {0}, j1 : {0}, j2 : {0},
     add : {TRUE}, x : xs]

Wide(type, conds, xs) ==
    [type : {type}, cond : conds, reg : {15}, rm : {0}, s : {0, 1}, j1 : {0, 1},
     j2 : {0, 1}, add : {TRUE}, x : xs]

\* With Rm or the sign of the offset chosen.
AddOf(type, conds, regs, rms) ==
    {[i EXCEPT !.rm = m] : i \in Plain(type, conds, regs, {0}), m \in rms}
Signed(type, conds, regs, xs) ==
    {[i EXCEPT !.add = a] : i \in Plain(type, conds, regs, xs), a \in BOOLEAN}

In16 == Plain("B1_THUMB16", {"eq"}, {15}, {1, 127, 128, 254})
        \cup Plain("B1_THUMB16", NoCond, {15}, {0, 1, 254})
        \cup Plain("B2_THUMB16", {"al"}, {15}, {2, 1023, 1024, 2046})
        \cup Plain("BX_THUMB16", {"al"}, {15}, {0})
        \cup Plain("CB_THUMB16", {"eq"}, {15}, {0, 2, 63})
        \cup Plain("ADD_THUMB16", {"al"}, {0, 7, 12, 13, 15}, {0})
        \cup Plain("MOV_THUMB16", {"al"}, {7, 8, 13, 14, 15}, {0})
        \cup Plain("ADR_THUMB16", {"al"}, {0, 7}, {0, 1, 255})
        \cup Plain("LDR_THUMB16", {"al"}, {0, 7}, {0, 2, 255})
        \cup Plain("UNDEFINE", {"al"}, {0, 15}, {0})
        \cup Plain("UNDEFINE_PC", {"al"}, {15}, {0}) \cup Plain("IT", {"al"}, {0}, {8})

In32 == Wide("BL_THUMB32", {"al"}, {0, 4, 2097151})
        \cup Wide("B2_THUMB32", {"al"}, {4, 2097151})
        \cup Wide("BLX_THUMB32", {"al"}, {8, 2097150})
        \cup Wide("B1_THUMB32", {"eq"}, {4, 131071})
        \cup Plain("B1_THUMB32", NoCond, {0, 15}, {0, 131071})
        \cup Plain("ADR1_THUMB32", {"al"}, {7, 8, 13}, {0, 1, 32, 256, 2048, 4095})
        \cup Plain("ADR2_THUMB32", {"al"}, {0, 14, 15}, {0, 1, 32, 256, 2048, 4095})
        \cup Signed("LDR_THUMB32", {"al"}, {0, 7, 8, 13, 15}, {0, 8, 4095})
        \cup AddOf("TBB_THUMB32", {"al"}, {15}, {0, 6, 7})
        \cup AddOf("TBH_THUMB32", {"al"}, {15}, {7, 8})
        \cup Plain("UNDEFINE", {"al"}, {0, 15}, {0})
        \cup Plain("UNDEFINE_PC", {"al"}, {0, 15}, {0})

Conds == {"al", "eq"}
InArm == {[i EXCEPT !.s = h] : i \in Plain("BLX_ARM", {"al"}, {15}, {5, 16777214}), h \in {0, 1}}
         \cup Plain("BL_ARM", Conds, {15}, {0, 8388607, 8388608, 16777213})
         \cup Plain("B_ARM", Conds, {15}, {5, 16777213, 16777215})
         \cup Plain("BX_ARM", Conds, {15}, {0})
         \cup AddOf("ADD_ARM", Conds, {0, 12, 13, 15}, {1, 11, 12, 13, 15})
         \cup Plain("ADR1_ARM", Conds \cup {Svc}, {0, 13, 15}, {0, 4, 255, 257, 3073})
         \cup Plain("ADR2_ARM", Conds \cup {Svc}, {0, 15}, {0, 4, 257})
         \cup {[i EXCEPT !.s = h] : i \in Plain("MOV_ARM", Conds, {13, 14, 15}, {0}), h \in {0, 1}}
         \cup Signed("LDR_ARM", Conds \cup {Svc}, {0, 13, 15}, {0, 8, 4095})
         \cup Plain("UNDEFINE", Conds, {0, 15}, {0})
         \cup Plain("UNDEFINE_PC", Conds, {0, 15}, {0})

\* A literal behind each of the functions that changes later.
Changing == {4112}

\* Thumb functions on both halves of a word, and an ARM function.
Functions3 == {4097, 4099, 4096}
=============================================================================
