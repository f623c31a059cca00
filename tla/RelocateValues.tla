--------------------------- MODULE RelocateValues ---------------------------
(***************************************************************************)
(* What the copies of PC-relative instructions do that relocate.c writes,  *)
(* next to what the instructions do: the register or the PC they set, the  *)
(* value, the state a branch ends in, the condition, and the registers     *)
(* they change besides.  Relocate has the layout of the same copies.       *)
(*                                                                         *)
(* Addresses have WordBits bits.  An instruction is its type and fields: x *)
(* is the immediate as it is encoded, without the bits s, j1, j2 that the  *)
(* long branches keep apart; s is also the bit of MOVS.  What an IT does   *)
(* is to make the instructions behind it conditional, which are themselves *)
(* compared as executed.                                                   *)
(***************************************************************************)
EXTENDS Integers

CONSTANTS
    WordBits,     \* bits of an address: 32
    Thumb16, Thumb32, Arm,    \* instructions that a prologue may contain
    Targets,      \* addresses of functions; Thumb ones are marked by bit 0
    Writable      \* addresses of literals that the program may change later

Branch16  == {"B1_THUMB16", "B2_THUMB16", "BX_THUMB16", "CB_THUMB16"}
Branch32  == {"BLX_THUMB32", "BL_THUMB32", "B1_THUMB32", "B2_THUMB32"}
BranchArm == {"BLX_ARM", "BL_ARM", "B_ARM", "BX_ARM"}
Adds      == {"ADD_THUMB16", "ADD_ARM"}
Tables    == {"TBB_THUMB32", "TBH_THUMB32"}
Loads     == {"LDR_THUMB16", "LDR_THUMB32", "LDR_ARM"}
Adrs      == {"ADR_THUMB16", "ADR1_THUMB32", "ADR2_THUMB32", "ADR1_ARM", "ADR2_ARM"}
Moves     == {"MOV_THUMB16", "MOV_ARM"}

\* What the classifier knows no type for: instructions that do not use the PC, those
\* that do (loads from a literal other than LDR, table branches over another register,
\* other arithmetic with the PC), and IT.
Undefine == {"UNDEFINE", "UNDEFINE_PC"}

\* The types that getTypeInThumb16, getTypeInThumb32 and getTypeInArm return.
TypesThumb16 == Branch16 \cup Undefine \cup {"IT"}
                  \cup {"ADD_THUMB16", "MOV_THUMB16", "ADR_THUMB16", "LDR_THUMB16"}
TypesThumb32 == Branch32 \cup Undefine \cup Tables
                  \cup {"ADR1_THUMB32", "ADR2_THUMB32", "LDR_THUMB32"}
TypesArm     == BranchArm \cup Undefine
                  \cup {"ADD_ARM", "ADR1_ARM", "ADR2_ARM", "MOV_ARM", "LDR_ARM"}

\* Conditions that are none.  The classifier does not look at the condition: with
\* these, what it takes for a conditional Thumb branch is UDF or SVC, or in 32 bits an
\* access to a system register, a hint or a barrier; and what it takes for ADR or LDR
\* in ARM state belongs to another part of the instruction set.
Udf    == "1110"
Svc    == "1111"
NoCond == {Udf, Svc}

\* Instructions with a condition of their own, and those with one of NoCond.
CondThumb == {"B1_THUMB16", "CB_THUMB16", "B1_THUMB32"}
NoBranch  == {"B1_THUMB16", "B1_THUMB32"}
NoAccess  == {"ADR1_ARM", "ADR2_ARM", "LDR_ARM"}
Misread(i) == i.cond \in NoCond
Always    == ((TypesThumb16 \cup TypesThumb32) \ (CondThumb \cup Undefine)) \cup {"BLX_ARM"}

\* The instructions of types; no field is wider than it is here.
Encodings(types) ==
    {i \in [type : types, cond : STRING, reg : 0 .. 15, rm : 0 .. 15, s : {0, 1}, j1 : {0, 1},
            j2 : {0, 1}, add : BOOLEAN, x : 0 .. 2 ^ 24 - 1] :
        /\ i.type \in Always => i.cond = "al"
        /\ Misread(i) => i.type \in NoBranch \/ (i.type \in NoAccess /\ i.cond = Svc)
        /\ i.type \in {"ADR_THUMB16", "LDR_THUMB16"} => i.reg < 8
        /\ i.type \in Adrs => i.x < 4096}

ASSUME ValueAssumption ==
    \* 32 in the program; with 30 every sum fits in an integer of TLC.
    /\ WordBits \in {30, 32}
    \* Nothing of a function lies at the end of the address space.
    /\ Targets \subseteq 1 .. 2 ^ WordBits - 32
    \* ARM functions are aligned.
    /\ \A t \in Targets : t % 4 # 2
    /\ Thumb16 \subseteq Encodings(TypesThumb16)
    /\ Thumb32 \subseteq Encodings(TypesThumb32)
    /\ Arm \subseteq Encodings(TypesArm)

VARIABLES
    target,       \* the function
    pos,          \* bytes of it copied so far
    pc,           \* the PC of the next instruction, as the loop keeps it
    last          \* what was copied last: instruction, its address, and the
                  \* effect of the copy

vars == <<target, pos, pc, last>>

-----------------------------------------------------------------------------
(* Arithmetic *)

SignExtend(x, n) == IF x >= 2 ^ (n - 1) THEN x - 2 ^ n ELSE x
Bits(x)          == x % 2 ^ WordBits
ALIGN_PC(p)      == p - (p % 4)
Bool(b)          == IF b THEN 1 ELSE 0

IsThumb == target % 2 = 1
Entry   == target - (target % 2)
Length  == IF IsThumb THEN 12 ELSE 8
Ahead   == IF IsThumb THEN 4 ELSE 8

\* Offset of BL and B.W with the bits s, j1, j2, and of a conditional B.W.
Long(i)  == SignExtend(2 ^ 24 * i.s + 2 ^ 23 * Bool(i.j1 = i.s)
                       + 2 ^ 22 * Bool(i.j2 = i.s) + 2 * i.x, 25)
Short(i) == SignExtend(2 ^ 20 * i.s + 2 ^ 19 * i.j2 + 2 ^ 18 * i.j1 + 2 * i.x, 21)

\* The immediate of ADR.W as the code assembles it from i, imm3 and imm8: shifted
\* to the top of the word, where of imm8 five bits are left, of imm3 two, of i its one.
AdrImmediate(x) ==
    LET i == x \div 2048  imm3 == (x \div 256) % 8  imm8 == x % 256
        either(b, c) == IF b = 1 THEN 1 ELSE c
    IN  2 ^ (WordBits - 5)
          * ((imm8 % 8) + 8 * either((imm8 \div 8) % 2, imm3 % 2)
             + 16 * either(i, either((imm8 \div 16) % 2, (imm3 \div 2) % 2)))

\* An ARM immediate: eight bits, rotated by twice the other four.
ArmExpand(x) ==
    LET r == 2 * (x \div 256)  b == x % 256
    IN  (b \div 2 ^ r) + (b % 2 ^ r) * 2 ^ (WordBits - r)

-----------------------------------------------------------------------------
(* Effects *)

\* reg is set to value, or to what is loaded from there; reg 15 is a branch, in
\* Thumb or ARM state, to value or, where it leads to the "copy", to that of what is there.
Effect(cond, reg, does, value) ==
    [cond |-> cond, reg |-> reg, does |-> does, value |-> Bits(value),
     leads |-> "there", kills |-> {}]

\* The literal written into the copy, or the address it is read from.
Value(i, p) ==
    CASE i.type = "B1_THUMB16"   -> p + SignExtend(2 * i.x, 9)
      [] i.type = "B2_THUMB16"   -> p + SignExtend(2 * i.x, 12)
      [] i.type = "CB_THUMB16"   -> p + 2 * i.x + 1
      [] i.type = "ADR_THUMB16"  -> 4 * (ALIGN_PC(p) + i.x)
      [] i.type = "LDR_THUMB16"  -> ALIGN_PC(p) + 4 * i.x
      [] i.type = "BLX_THUMB32"  -> p + Long(i)
      [] i.type \in {"BL_THUMB32", "B2_THUMB32"} -> p + Long(i) + 1
      [] i.type = "B1_THUMB32"   -> p + Short(i) + 1
      [] i.type = "ADR1_THUMB32" -> ALIGN_PC(p) + AdrImmediate(i.x)
      [] i.type = "ADR2_THUMB32" -> ALIGN_PC(p) - AdrImmediate(i.x)
      [] i.type = "LDR_THUMB32"  -> ALIGN_PC(p) + (IF i.add THEN i.x ELSE -i.x)
      [] i.type = "BLX_ARM"      -> p + SignExtend(4 * i.x + 2 * i.s, 26) + 1
      [] i.type \in {"BL_ARM", "B_ARM"} -> p + SignExtend(4 * i.x, 26)
      [] i.type = "ADR1_ARM"     -> p + i.x
      [] i.type = "ADR2_ARM"     -> p - i.x
      [] i.type = "LDR_ARM"      -> p + (IF i.add THEN i.x ELSE -i.x)
      [] i.type \in {"BX_THUMB16", "BX_ARM"} \cup Adds \cup Moves \cup Tables -> p

\* The register that ADD and the table branches use for the PC.
Scratch(i) ==
    LET top == IF i.type = "ADD_ARM" THEN 12 ELSE 7
        taken == IF i.type = "ADD_THUMB16" THEN {i.reg}
                 ELSE IF i.type = "ADD_ARM" THEN {i.reg, i.rm} ELSE {i.rm}
    IN  CHOOSE r \in top - 2 .. top : r \notin taken /\ \A q \in r + 1 .. top : q \in taken

\* The register that ADD adds to the PC; in ARM state it is not shifted.
Operand(i) == IF i.type = "ADD_THUMB16" THEN i.reg ELSE i.rm

\* The copy of an ADD: SP is four bytes lower when it is read, between PUSH and POP,
\* and four higher than what was written to it, after a POP from elsewhere; an ADD that
\* branches leaves the scratch register on the stack; and the PC as the second operand
\* is the copy's.
CopiedAdd(i, v) ==
    LET lower  == IF Operand(i) = 13 THEN 4 ELSE 0
        higher == IF i.reg = 13 THEN 4 ELSE 0
    IN  [Effect(i.cond, i.reg, IF Operand(i) = 15 THEN "add_copy" ELSE "add",
                v - lower + higher)
           EXCEPT !.kills = IF i.reg = 15 THEN {Scratch(i), 13}
                            ELSE IF i.reg = 13 THEN {Scratch(i)} ELSE {}]

\* Whether the literal at v, which is read when the hook is registered, will do later.
Read(v) == IF Bits(v) \in Writable THEN "old_load" ELSE "load"

\* What the copy does.  LDR PC takes the state from bit 0 of the literal; the
\* 16-bit LDR Rr, [PC] has three bits for the register; the copies of ARM
\* branches, ADR, MOV and LDR have no condition and set no flags; what is taken for a
\* branch without being one becomes UDF #0 or SVC #0; behind an IT follows a NOP, which
\* takes the first of its conditions.
Copied(i, p) ==
    LET v    == Value(i, p)
        reg  == IF i.type \in TypesArm THEN i.reg ELSE i.reg % 8
        cond == IF i.type \in TypesArm THEN "al" ELSE i.cond
    IN  IF Misread(i) /\ i.type \in NoBranch THEN Effect("al", 0, i.cond, 0)
        ELSE CASE i.type \in Branch16 \cup Branch32 \cup BranchArm ->
                    IF v % 2 = 1 THEN Effect(cond, 15, "thumb", v - 1)
                                 ELSE Effect(cond, 15, "arm", v)
               [] i.type \in Tables ->
                    [Effect("al", 15, "table", v) EXCEPT !.kills = {Scratch(i)}]
               [] i.type \in Adds  -> CopiedAdd(i, v)
               [] i.type \in Loads -> Effect(cond, reg, Read(v), v)
               [] i.type \in Moves \cup Adrs -> Effect(cond, reg, "value", v)
               [] i.type = "UNDEFINE"    -> Effect(i.cond, i.reg, "other", 0)
               [] i.type = "UNDEFINE_PC" -> Effect(i.cond, i.reg, "relative_copy", 0)
               [] i.type = "IT" -> Effect("al", 0, "if_then_nop", i.x)

-----------------------------------------------------------------------------
(* What the instructions do (the ARM architecture) *)

\* A branch into the prologue must become one into the copy.
GoTo(cond, state, to) ==
    [Effect(cond, 15, state, to) EXCEPT
        !.leads = IF Bits(to) \in Entry .. Entry + Length - 1 THEN "copy" ELSE "there"]

\* Writing the PC is a branch, too.
Write(cond, reg, to) ==
    [Effect(cond, reg, "value", to) EXCEPT
        !.leads = IF reg = 15 /\ Bits(to) \in Entry .. Entry + Length - 1 THEN "copy"
                  ELSE "there"]

Original(i, at) ==
    LET p == at + Ahead
        base == IF IsThumb THEN ALIGN_PC(p) ELSE p
        signed(x) == IF i.add THEN base + x ELSE base - x
    IN  IF Misread(i)
        THEN Effect("al", 0, IF i.type = "B1_THUMB16" THEN i.cond ELSE "another", i.x)
        ELSE CASE i.type = "B1_THUMB16" -> GoTo(i.cond, "thumb", p + SignExtend(2 * i.x, 9))
               [] i.type = "B2_THUMB16" -> GoTo("al", "thumb", p + SignExtend(2 * i.x, 12))
               [] i.type = "CB_THUMB16" -> GoTo(i.cond, "thumb", p + 2 * i.x)
               [] i.type \in {"BL_THUMB32", "B2_THUMB32"} -> GoTo("al", "thumb", p + Long(i))
               [] i.type = "B1_THUMB32" -> GoTo(i.cond, "thumb", p + Short(i))
               [] i.type = "BLX_THUMB32" -> GoTo("al", "arm", base + Long(i))
               [] i.type = "BLX_ARM" ->
                    GoTo("al", "thumb", p + SignExtend(4 * i.x + 2 * i.s, 26))
               [] i.type \in {"BL_ARM", "B_ARM"} ->
                    GoTo(i.cond, "arm", p + SignExtend(4 * i.x, 26))
               [] i.type \in {"BX_THUMB16", "BX_ARM"} -> GoTo(i.cond, "arm", p)
               [] i.type \in Adds   -> Effect(i.cond, i.reg, "add", p)
               [] i.type \in Tables -> Effect("al", 15, "table", p)
               [] i.type = "MOV_THUMB16" -> Write(i.cond, i.reg, p)
               [] i.type = "MOV_ARM" ->
                    IF i.s = 1 THEN Effect(i.cond, i.reg, "value_flags", p)
                               ELSE Write(i.cond, i.reg, p)
               [] i.type = "ADR_THUMB16" -> Write("al", i.reg, base + 4 * i.x)
               [] i.type = "ADR1_THUMB32" -> Write("al", i.reg, base - i.x)
               [] i.type = "ADR2_THUMB32" -> Write("al", i.reg, base + i.x)
               [] i.type = "ADR1_ARM" -> Write(i.cond, i.reg, base + ArmExpand(i.x))
               [] i.type = "ADR2_ARM" -> Write(i.cond, i.reg, base - ArmExpand(i.x))
               [] i.type = "LDR_THUMB16" -> Effect("al", i.reg, "load", base + 4 * i.x)
               [] i.type \in Loads \ {"LDR_THUMB16"} ->
                    Effect(i.cond, i.reg, "load", signed(i.x))
               [] i.type = "UNDEFINE"    -> Effect(i.cond, i.reg, "other", 0)
               [] i.type = "UNDEFINE_PC" -> Effect(i.cond, i.reg, "relative", p)
               [] i.type = "IT" -> Effect("al", 0, "if_then", i.x)

-----------------------------------------------------------------------------
Nothing == [at |-> 0, effect |-> Effect("al", 0, "nothing", 0)]

Init ==
    /\ target \in Targets
    /\ pos = 0
    /\ pc = Entry + Ahead
    /\ last = Nothing

\* Mutant of Copy: the PC moves by four bytes over every instruction.
CopyByFour(i, bytes) ==
    /\ pos + bytes <= Length
    /\ last' = [ins |-> i, at |-> Entry + pos, effect |-> Copied(i, pc)]
    /\ pos' = pos + bytes
    /\ pc' = pc + 4
    /\ UNCHANGED target

\* One iteration of relocateInstructionInThumb or relocateInstructionInArm.
Copy(i, bytes) ==
    /\ pos + bytes <= Length
    /\ last' = [ins |-> i, at |-> Entry + pos, effect |-> Copied(i, pc)]
    /\ pos' = pos + bytes
    /\ pc' = pc + bytes
    /\ UNCHANGED target

Next == \/ IsThumb /\ \E i \in Thumb16 : Copy(i, 2)
        \/ IsThumb /\ \E i \in Thumb32 : Copy(i, 4)
        \/ ~IsThumb /\ \E i \in Arm : Copy(i, 4)

Spec == Init /\ [][Next]_vars

-----------------------------------------------------------------------------
\* BX PC between two words is not defined by the architecture.
Unpredictable(i, at) == i.type = "BX_THUMB16" /\ (at % 4) # 0

\* Copies that do something else than the instruction i of address at:
Flawed(i, at) ==
    \* SVC and UDF lose their immediate; and what else is no branch becomes one of them,
    \* or what is no ADR or LDR becomes a load (l. 77, 112, 153-159, 187, 309)
    \/ Misread(i) /\ ~(i.type = "B1_THUMB16" /\ i.x = 0)
    \* a Thumb branch is left in ARM state (l. 186, 194)
    \/ i.type \in {"B1_THUMB16", "B2_THUMB16"} /\ ~Misread(i)
    \* the sum is shifted (l. 239), or an offset is put at the wrong end of the word
    \* and added where it is to be subtracted (l. 353-360)
    \/ i.type = "ADR_THUMB16"
    \/ i.type \in {"ADR1_THUMB32", "ADR2_THUMB32"} /\ i.x # 0
    \* an ARM immediate with a rotation is not rotated (l. 567)
    \/ i.type \in {"ADR1_ARM", "ADR2_ARM"} /\ i.x > 255
    \* a register above R7 loses its top bit (l. 234, 380)
    \/ i.type \in {"MOV_THUMB16", "ADR1_THUMB32", "ADR2_THUMB32", "LDR_THUMB32"}
          /\ i.reg > 7
    \* a literal is read once, when the hook is registered (l. 243, 377, 579-582)
    \/ i.type \in Loads /\ Bits(Value(i, at + Ahead)) \in Writable
    \* the PC is not aligned to a word (l. 317)
    \/ i.type = "BLX_THUMB32" /\ (at % 4) # 0
    \* a register of the table branch is not restored (l. 407-423)
    \/ i.type \in Tables
    \* SP is moved by the push and the pop, or the pop is branched over (l. 217-222,
    \* 551-554); the second operand is the PC (l. 61, 553)
    \/ i.type \in Adds /\ (Operand(i) \in {13, 15} \/ i.reg \in {13, 15})
    \* the condition or the flags are lost (l. 162, 506-534, 558-592)
    \/ i.type \in TypesArm \ ({"ADD_ARM"} \cup Undefine) /\ i.cond # "al"
    \/ i.type = "MOV_ARM" /\ i.s = 1
    \* a branch into the prologue (l. 182-198, 315-333, 516-533, 568-572)
    \/ Original(i, at).leads = "copy"
    \* the PC of the copy is used, or the first condition is the NOP's (l. 270-271,
    \* 430-431, 595)
    \/ i.type \in {"UNDEFINE_PC", "IT"}

\* The PC of the loop is that of the next instruction (relocate.c:447, 460,
\* 466, 492, 597), and every copy does exactly what the instruction copied does, but
\* for the cases of Flawed, each of which does something else
\* (relocate.c:168-436, 504-597).
CopyDoesTheSame ==
    (last # Nothing /\ ~Unpredictable(last.ins, last.at)) =>
        (last.effect = Original(last.ins, last.at) <=> ~Flawed(last.ins, last.at))
=============================================================================
