------------------------------ MODULE Relocate ------------------------------
(***************************************************************************)
(* relocateInstruction: the loop that copies a function's prologue into    *)
(* its trampoline page, replacing each instruction that depends on the     *)
(* program counter by a longer sequence, and records where every           *)
(* instruction was and where it went.                                      *)
(*                                                                         *)
(* What is kept is the layout: how many units (halfwords in Thumb state,   *)
(* words in ARM state) each replacement takes, where in it the             *)
(* PC-relative loads find their literal and the branches land, the         *)
(* boundary arrays, and the address the copy returns to.  The values the   *)
(* literals hold are abstracted.                                           *)
(***************************************************************************)
EXTENDS Boundaries, Sequences

CONSTANTS
    Counts        \* bound: the counts from which an entry is registered again, which
                  \* earlier owners with two instructions each may have left

ASSUME CountsAssumption == 0 \in Counts /\ Counts \subseteq {2 * k : k \in 0 .. TrampSlots \div 2}

VARIABLES
    thumb,        \* bit 0 of target_addr: the prologue is Thumb code
    skewed,       \* a Thumb target that is not word aligned
    pc,           \* "loop", "tail", "done"
    origPos,      \* orig_pos, in units
    trampPos,     \* trampoline_pos, in units
    bnd,          \* orig_boundaries and trampoline_boundaries
    count,        \* *count
    spoiled,      \* the cells behind the count that were written over
    resume,       \* lr - target_addr, in bytes, once the tail is written
    start,        \* history: *count when the entry was registered
    before,       \* history: the boundary arrays at that time
    rounds,       \* history: iterations since then
    slots         \* history: what each iteration placed, and where

entry == <<thumb, skewed, start, before>>
item  == <<bnd, count, spoiled>>
vars  == <<entry, pc, origPos, trampPos, item, resume, rounds, slots>>

-----------------------------------------------------------------------------
(* The replacement sequences.  A load [at, imm, pool] at unit at addresses *)
(* PC + imm bytes and must hit the literal at unit pool; a skip            *)
(* [at, imm, to] at unit at continues at PC + imm and must reach unit to.  *)

Load(a, i, p) == [at |-> a, imm |-> i, pool |-> p]
Skip(a, i, t) == [at |-> a, imm |-> i, to |-> t]
Slot(n, loads, skips) == [size |-> n, loads |-> loads, skips |-> skips]

Thumb16Slots ==
    [B1_THUMB16  |-> Slot(6, {Load(2, 0, 4)}, {Skip(0, 0, 2), Skip(1, 6, 6)}),
     B2_THUMB16  |-> Slot(4, {Load(0, 0, 2)}, {}),
     BX_THUMB16  |-> Slot(4, {Load(0, 0, 2)}, {}),
     ADD_THUMB16 |-> Slot(8, {Load(1, 8, 6)}, {Skip(4, 4, 8)}),
     MOV_THUMB16 |-> Slot(4, {Load(0, 0, 2)}, {Skip(1, 2, 4)}),
     ADR_THUMB16 |-> Slot(4, {Load(0, 0, 2)}, {Skip(1, 2, 4)}),
     LDR_THUMB16 |-> Slot(4, {Load(0, 0, 2)}, {Skip(1, 2, 4)}),
     CB_THUMB16  |-> Slot(6, {Load(2, 0, 4)}, {Skip(0, 0, 2), Skip(1, 6, 6)}),
     UNDEFINE    |-> Slot(2, {}, {})]

\* ADD.W LR, PC, #9 sets the return address (bit 0 is the Thumb bit); it is
\* listed with the loads because it, too, uses the word-aligned PC.
Thumb32Slots ==
    [BLX_THUMB32  |-> Slot(6, {Load(0, 8, 6), Load(2, 0, 4)}, {}),
     BL_THUMB32   |-> Slot(6, {Load(0, 8, 6), Load(2, 0, 4)}, {}),
     B1_THUMB32   |-> Slot(6, {Load(2, 0, 4)}, {Skip(0, 0, 2), Skip(1, 6, 6)}),
     B2_THUMB32   |-> Slot(4, {Load(0, 0, 2)}, {}),
     ADR1_THUMB32 |-> Slot(4, {Load(0, 0, 2)}, {Skip(1, 2, 4)}),
     ADR2_THUMB32 |-> Slot(4, {Load(0, 0, 2)}, {Skip(1, 2, 4)}),
     LDR_THUMB32  |-> Slot(4, {Load(0, 0, 2)}, {Skip(1, 2, 4)}),
     TBB_THUMB32  |-> Slot(14, {Load(1, 20, 12)}, {}),
     TBH_THUMB32  |-> Slot(14, {Load(1, 20, 12)}, {}),
     UNDEFINE     |-> Slot(2, {}, {})]

ArmSlots ==
    [BLX_ARM  |-> Slot(3, {Load(0, 4, 3), Load(1, -4, 2)}, {}),
     BL_ARM   |-> Slot(3, {Load(0, 4, 3), Load(1, -4, 2)}, {}),
     B_ARM    |-> Slot(2, {Load(0, -4, 1)}, {}),
     BX_ARM   |-> Slot(2, {Load(0, -4, 1)}, {}),
     ADD_ARM  |-> Slot(6, {Load(1, 8, 5)}, {Skip(4, 0, 6)}),
     ADR1_ARM |-> Slot(3, {Load(0, 0, 2)}, {Skip(1, 0, 3)}),
     ADR2_ARM |-> Slot(3, {Load(0, 0, 2)}, {Skip(1, 0, 3)}),
     MOV_ARM  |-> Slot(3, {Load(0, 0, 2)}, {Skip(1, 0, 3)}),
     LDR_ARM  |-> Slot(3, {Load(0, 0, 2)}, {Skip(1, 0, 3)}),
     UNDEFINE |-> Slot(1, {}, {})]

\* The jump back: LDR.W PC, [PC] and lr, or LDR PC, [PC, #-4] and lr.
ThumbTail == Slot(4, {Load(0, 0, 2)}, {})
ArmTail   == Slot(2, {Load(0, -4, 1)}, {})

-----------------------------------------------------------------------------
UnitBytes == IF thumb THEN 2 ELSE 4

\* Mutant of Length: a Thumb prologue is as long as the patch of an aligned one.
LengthOfPatch == 8
Length == IF thumb THEN 12 ELSE 8           \* item->length
Units  == Length \div UnitBytes

Init ==
    /\ thumb \in BOOLEAN
    /\ skewed \in (IF thumb THEN BOOLEAN ELSE {FALSE})
    /\ pc = "loop"
    /\ origPos = 0
    /\ trampPos = 0
    /\ count \in Counts
    /\ bnd = Left(count)
    /\ spoiled = {}
    /\ resume = 0
    /\ start = count
    /\ before = bnd
    /\ rounds = 0
    /\ slots = <<>>

\* The head of every iteration: both boundaries are stored at index *count, which is
\* then incremented.  Nothing keeps the index within the arrays: the count itself
\* may be what the first store hits, before the second one reads it, or what the
\* second one hits.  Cells further behind are those of the next entry.
RecordBoundary ==
    LET o == origPos * UnitBytes
        t == trampPos * UnitBytes
        j == IF count = CountCell THEN o ELSE count
    IN  /\ bnd' = Record(bnd, count, j, o, t)
        /\ count' = 1 + IF OrigSlots + j = CountCell THEN t ELSE j
        /\ spoiled' = spoiled \cup ({count, OrigSlots + j} \cap FieldCells)
        /\ rounds' = rounds + 1

\* Mutant of Place: a 16-bit instruction copied as it is is not padded by a NOP.
PlaceUnpadded(slot, width) ==
    /\ RecordBoundary
    /\ slots' = Append(slots, [slot |-> slot, orig |-> origPos * UnitBytes,
                               tramp |-> trampPos * UnitBytes])
    /\ origPos' = origPos + width
    /\ trampPos' = trampPos + (IF slot.size = 2 /\ width = 1 THEN 1 ELSE slot.size)
    /\ pc' = IF origPos + width >= Units THEN "tail" ELSE "loop"
    /\ UNCHANGED <<entry, resume>>

\* The rest of an iteration: the replacement is written, both positions
\* advance, and the loop ends once the whole prologue has been consumed.
Place(slot, width) ==
    /\ RecordBoundary
    /\ slots' = Append(slots, [slot |-> slot, orig |-> origPos * UnitBytes,
                               tramp |-> trampPos * UnitBytes])
    /\ origPos' = origPos + width
    /\ trampPos' = trampPos + slot.size
    /\ pc' = IF origPos + width >= Units THEN "tail" ELSE "loop"
    /\ UNCHANGED <<entry, resume>>

Thumb16Step(type) ==
    /\ pc = "loop" /\ thumb
    /\ Place(Thumb16Slots[type], 1)

\* Mutant of Thumb32Step: the last halfword is not treated apart.
Thumb32StepOver(type) ==
    /\ pc = "loop" /\ thumb
    /\ Place(Thumb32Slots[type], 2)

Thumb32Step(type) ==
    /\ pc = "loop" /\ thumb
    /\ origPos + 2 <= Units
    /\ Place(Thumb32Slots[type], 2)

\* A 32-bit instruction that starts in the last halfword is not copied: its
\* boundary has been recorded and the copy returns to it.
Thumb32Break ==
    /\ pc = "loop" /\ thumb
    /\ origPos + 2 > Units
    /\ RecordBoundary
    /\ pc' = "tail"
    /\ UNCHANGED <<entry, origPos, trampPos, resume, slots>>

ArmStep(type) ==
    /\ pc = "loop" /\ ~thumb
    /\ Place(ArmSlots[type], 1)

JumpBack ==
    /\ pc = "tail"
    /\ pc' = "done"
    /\ resume' = IF thumb THEN origPos * UnitBytes ELSE Length
    /\ slots' = Append(slots, [slot |-> IF thumb THEN ThumbTail ELSE ArmTail,
                               orig |-> origPos * UnitBytes,
                               tramp |-> trampPos * UnitBytes])
    /\ UNCHANGED <<entry, origPos, trampPos, item, rounds>>

\* The entry is deleted and handed out again by addInlineHookItem, which clears
\* nothing: registerInlineHook sets every field but the boundaries and count.
Reuse ==
    /\ pc = "done"
    /\ count \in Counts
    /\ thumb' \in BOOLEAN
    /\ skewed' \in (IF thumb' THEN BOOLEAN ELSE {FALSE})
    /\ start' = count
    /\ before' = bnd
    /\ pc' = "loop"
    /\ origPos' = 0
    /\ trampPos' = 0
    /\ resume' = 0
    /\ spoiled' = {}
    /\ rounds' = 0
    /\ slots' = <<>>
    /\ UNCHANGED <<bnd, count>>

Next ==
    \/ \E type \in DOMAIN Thumb16Slots : Thumb16Step(type)
    \/ \E type \in DOMAIN Thumb32Slots : Thumb32Step(type)
    \/ Thumb32Break
    \/ \E type \in DOMAIN ArmSlots : ArmStep(type)
    \/ JumpBack
    \/ Reuse

Spec == Init /\ [][Next]_vars

-----------------------------------------------------------------------------
\* Bytes of the prologue that doInlineHook overwrites: a NOP first when a
\* Thumb target is not word aligned.
PatchBytes == IF skewed THEN 10 ELSE 8

Done == pc = "done"

\* What this registration has copied, in order; the tail comes last.
Placed == DOMAIN slots

\* Type invariant of the relocation loop (relocate.c:438-602).
TypeOK ==
    /\ thumb \in BOOLEAN
    /\ skewed \in BOOLEAN /\ (skewed => thumb)
    /\ pc \in {"loop", "tail", "done"}
    /\ origPos \in 0 .. 6
    /\ trampPos \in Nat
    /\ bnd \in Block
    /\ count \in Nat
    /\ spoiled \subseteq FieldCells
    /\ resume \in {0, 8, 10, 12}
    /\ slots \in Seq([slot : [size : Nat, loads : SUBSET [at : Nat, imm : Int, pool : Nat],
                              skips : SUBSET [at : Nat, imm : Int, to : Nat]],
                      orig : Nat, tramp : Nat])
    /\ start \in Nat /\ before \in Block
    /\ rounds \in 0 .. 6

\* A copy never returns into the bytes the hook overwrites: a call through
\* the trampoline that came back inside the patch would enter the
\* replacement again, or execute half of the patch (relocate.c:478, 493;
\* inlineHook.c:349-358).
ResumeClearsPatch == Done => resume >= PatchBytes

\* The address of the word a load reads: the PC is two instructions ahead, and
\* a Thumb load uses it rounded down to a word.  The page is word aligned.
LoadAddress(base, load) ==
    IF thumb THEN ((base + 2 * load.at + 4) \div 4) * 4 + load.imm
             ELSE base + 4 * load.at + 8 + load.imm
SkipAddress(base, skip) ==
    IF thumb THEN base + 2 * skip.at + 4 + skip.imm
             ELSE base + 4 * skip.at + 8 + skip.imm

\* Every PC-relative load of a replacement reads that replacement's own
\* literal, wherever earlier replacements have pushed it: in Thumb state the
\* hardware rounds the PC, so one replacement of an odd number of halfwords
\* would shift every literal behind it.  And the branches by which a
\* replacement steps over its literal reach the next instruction's copy, or
\* the unit they were written for (relocate.c:187-273, 298-434, 479, 512-595).
LoadsHitTheirLiteral ==
    \A k \in Placed :
        LET slot == slots[k].slot
            unit(n) == slots[k].tramp + UnitBytes * n
        IN  /\ \A load \in slot.loads : LoadAddress(slots[k].tramp, load) = unit(load.pool)
            /\ \A skip \in slot.skips : SkipAddress(slots[k].tramp, skip) = unit(skip.to)

\* The arrays have cells for all that this registration has recorded so far.
Inside == start + rounds <= TrampSlots

\* The boundary block the hook table computes for a whole registration
\* (Overlay) is the one the loop leaves behind, also when the entry is reused
\* with the count of its previous owner; and the count adds up, and the fields
\* behind it are left alone, as long as all the instructions that the entry's owners
\* had together do not exceed the 20 cells of trampoline_boundaries
\* (relocate.c:451-453, 500-502; inlineHook.c:43-55, 276-278).
OverlayIsLoop ==
    Done /\ Inside =>
        /\ bnd = Overlay(before, start, rounds,
                         [k \in 0 .. rounds - 1 |-> slots[k + 1].orig],
                         [k \in 0 .. rounds - 1 |-> slots[k + 1].tramp])
        /\ count = start + rounds
        /\ spoiled = {}

\* In a fresh entry a thread stopped at one of the last four instructions is
\* moved to that instruction's copy, and while there are no more than four a
\* thread stopped at a copy is moved back to its instruction.  The bounds are
\* the code's own: orig_boundaries has four cells, and boundary i + 4 of a
\* longer prologue replaces trampoline boundary i, so that the earlier
\* instructions are mapped elsewhere (inlineHook.c:48-49, 98-116).
MigrationExact ==
    Done /\ start = 0 =>
        \A k \in 0 .. count - 1 :
            LET placed == slots[k + 1]
            IN  /\ k >= count - OrigSlots =>
                     EnableOffset(bnd, count, placed.orig) = {placed.tramp}
                /\ count <= OrigSlots =>
                     DisableOffset(bnd, count, placed.tramp) = {placed.orig}
=============================================================================
