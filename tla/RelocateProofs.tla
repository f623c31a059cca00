---------------------------- MODULE RelocateProofs ----------------------------
(***************************************************************************)
(* What the relocation loop guarantees for every prologue, and in a table  *)
(* entry that has been used any number of times: where the copy returns    *)
(* to, what its loads read, and what the boundary arrays contain.          *)
(***************************************************************************)
EXTENDS Relocate, TLAPS

USE CountsAssumption

-----------------------------------------------------------------------------
(* The replacement sequences *)

Loads == [at : Nat, imm : Int, pool : Nat]
Skips == [at : Nat, imm : Int, to : Nat]
Forms == [size : Nat, loads : SUBSET Loads, skips : SUBSET Skips]

\* A Thumb replacement has an even number of halfwords, so that the next one is
\* word aligned, and hits its literals from any aligned address.
ThumbFit(s) ==
    /\ s \in Forms
    /\ s.size > 0 /\ s.size % 2 = 0
    /\ \A l \in s.loads : ((2 * l.at + 4) \div 4) * 4 + l.imm = 2 * l.pool
    /\ \A k \in s.skips : 2 * k.at + 4 + k.imm = 2 * k.to

ArmFit(s) ==
    /\ s \in Forms
    /\ s.size > 0
    /\ \A l \in s.loads : 4 * l.at + 8 + l.imm = 4 * l.pool
    /\ \A k \in s.skips : 4 * k.at + 8 + k.imm = 4 * k.to

\* Every replacement of a 16-bit Thumb instruction fits (relocate.c:168-276).
LEMMA Thumb16Fit == \A type \in DOMAIN Thumb16Slots : ThumbFit(Thumb16Slots[type])
  BY DEF Thumb16Slots, Slot, Load, Skip, ThumbFit, Forms, Loads, Skips

\* So does every replacement of a 32-bit Thumb instruction (relocate.c:288-436).
LEMMA Thumb32Fit == \A type \in DOMAIN Thumb32Slots : ThumbFit(Thumb32Slots[type])
  BY DEF Thumb32Slots, Slot, Load, Skip, ThumbFit, Forms, Loads, Skips

\* And, at any word, every replacement of an ARM instruction (relocate.c:504-596).
LEMMA ArmSlotsFit == \A type \in DOMAIN ArmSlots : ArmFit(ArmSlots[type])
  BY DEF ArmSlots, Slot, Load, Skip, ArmFit, Forms, Loads, Skips

\* And the jump back (relocate.c:478-482, 600-601).
LEMMA TailsFit == ThumbFit(ThumbTail) /\ ArmFit(ArmTail)
  <1>1. ThumbFit(ThumbTail)
    BY DEF ThumbTail, Slot, Load, ThumbFit, Forms, Loads
  <1>2. ArmFit(ArmTail)
    BY DEF ArmTail, Slot, Load, ArmFit, Forms, Loads
  <1> QED
    BY <1>1, <1>2

-----------------------------------------------------------------------------
(* The invariant *)

Fit(s) == IF thumb THEN ThumbFit(s) ELSE ArmFit(s)
Row    == [slot : Forms, orig : Nat, tramp : Nat]

\* Positions and counts: no iteration consumes less than a unit, so that six at
\* most fit into a prologue (relocate.c:447-478).
PosInv ==
    /\ thumb \in BOOLEAN
    /\ skewed \in BOOLEAN /\ (skewed => thumb)
    /\ pc \in {"loop", "tail", "done"}
    /\ origPos \in 0 .. 6 /\ trampPos \in Nat /\ count \in Nat
    /\ start \in Nat /\ rounds \in 0 .. 6
    /\ bnd \in Block /\ before \in Block /\ spoiled \subseteq FieldCells
    /\ pc = "loop" => origPos < Units /\ rounds <= origPos
    /\ pc # "loop" => IF thumb THEN origPos >= 5 ELSE origPos = 2
    /\ resume = IF pc = "done" THEN (IF thumb THEN origPos * UnitBytes ELSE Length) ELSE 0

\* Everything placed lies at a word boundary of the page, and hits its literals
\* from there.
SlotInv ==
    /\ slots \in Seq(Row)
    /\ \A k \in DOMAIN slots : Fit(slots[k].slot) /\ slots[k].tramp % 4 = 0
    /\ thumb => trampPos % 2 = 0

\* Instruction k of this registration, or the place where the next one will be.
Orig(k)  == IF k < Len(slots) THEN slots[k + 1].orig ELSE origPos * UnitBytes
Tramp(k) == IF k < Len(slots) THEN slots[k + 1].tramp ELSE trampPos * UnitBytes
Last     == IF pc = "done" THEN Len(slots) - 1 ELSE Len(slots)

\* While the arrays have cells for them, the boundaries are those of what has been
\* placed; of an instruction in the last halfword, those of the jump back; and
\* nothing else of the entry is written over (relocate.c:451-456).
BoundInv ==
    /\ rounds <= Last + 1
    /\ pc = "loop" => rounds = Len(slots)
    /\ pc = "done" => Len(slots) > 0
    /\ Inside => /\ count = start + rounds /\ spoiled = {}
                 /\ bnd = Overlay(before, start, rounds, [k \in 0 .. rounds - 1 |-> Orig(k)],
                                                         [k \in 0 .. rounds - 1 |-> Tramp(k)])

\* Both copies of the prologue are in order.
OrderInv ==
    \A i, j \in 0 .. Last : i < j => Orig(i) < Orig(j) /\ Tramp(i) < Tramp(j)

CopyInv == PosInv /\ SlotInv /\ BoundInv /\ OrderInv

\* Twelve bytes in halfwords, eight in words.
LEMMA Sizes == IF thumb THEN UnitBytes = 2 /\ Length = 12 /\ Units = 6
                        ELSE UnitBytes = 4 /\ Length = 8 /\ Units = 2
  BY DEF UnitBytes, Length, Units

\* Bytes are in the order of units.
LEMMA Bytes ==
    ASSUME NEW a \in Nat, NEW b \in Nat
    PROVE  a * UnitBytes \in Nat /\ (a < b => a * UnitBytes < b * UnitBytes)
  <1>1. CASE thumb
    BY <1>1, Sizes
  <1>2. CASE ~thumb
    BY <1>2, Sizes
  <1> QED
    BY <1>1, <1>2

\* Even lengths add up to an even position.
LEMMA Even == \A a, b \in Nat : a % 2 = 0 /\ b % 2 = 0 => (a + b) % 2 = 0
  OBVIOUS

\* No pair of boundaries changes nothing.
LEMMA NoOverlay ==
    ASSUME NEW b \in Block, NEW c \in Nat, NEW o, NEW t
    PROVE  Overlay(b, c, 0, o, t) = b
  BY DEF Overlay, Block

\* What earlier owners leave is a block.
LEMMA LeftBlock ==
    ASSUME NEW c \in Nat
    PROVE  Left(c) \in Block
  <1> DEFINE plain == [k \in 0 .. c - 1 |-> 4 * (k % 2)]
  <1>1. \A k \in 0 .. c - 1 : plain[k] \in Nat
    OBVIOUS
  <1>2. Blank \in Block
    BY DEF Blank, Block
  <1> HIDE DEF plain
  <1>3. ASSUME NEW x \in Cells
        PROVE  Overlay(Blank, 0, c, plain, plain)[x] \in Nat
    <2>1. x \in Int /\ Blank[x] \in Nat
      BY <1>2 DEF Cells, OrigSlots, TrampSlots, Block
    <2> QED
      BY <1>1, <2>1 DEF Overlay
  <1> QED
    BY <1>3 DEF Left, Overlay, Block, plain

\* An entry that is new, or has had owners before.
LEMMA InitCopy == Init => CopyInv
  <1> SUFFICES ASSUME Init PROVE CopyInv
    OBVIOUS
  <1>0. count \in Nat /\ start = count /\ rounds = 0 /\ slots = <<>> /\ pc = "loop"
        /\ bnd \in Block /\ before = bnd /\ spoiled = {}
    <2>1. count \in Nat
      BY DEF Init
    <2> QED
      BY <2>1, LeftBlock DEF Init
  <1>1. PosInv
    <2>1. thumb \in BOOLEAN /\ skewed \in BOOLEAN /\ (skewed => thumb)
      BY DEF Init
    <2> QED
      BY <1>0, <2>1, Sizes DEF Init, PosInv
  <1>2. SlotInv
    BY DEF Init, SlotInv
  <1>3. BoundInv
    BY <1>0, NoOverlay DEF BoundInv, Last
  <1>4. OrderInv
    BY <1>0 DEF OrderInv, Last
  <1> QED
    BY <1>1, <1>2, <1>3, <1>4 DEF CopyInv

\* One more pair of boundaries.
LEMMA RecordOverlay ==
    ASSUME NEW b \in Block, NEW c \in Nat, NEW n \in Nat, NEW o, NEW t, NEW x, NEW y
    PROVE  Record(Overlay(b, c, n, o, t), c + n, c + n, x, y) =
               Overlay(b, c, n + 1, [k \in 0 .. n |-> IF k < n THEN o[k] ELSE x],
                                    [k \in 0 .. n |-> IF k < n THEN t[k] ELSE y])
  <1> DEFINE f == Overlay(b, c, n, o, t)
             p == [k \in 0 .. n |-> IF k < n THEN o[k] ELSE x]
             q == [k \in 0 .. n |-> IF k < n THEN t[k] ELSE y]
             G(z) == IF z = OrigSlots + (c + n) THEN y ELSE IF z = c + n THEN x ELSE f[z]
             H(z) == IF z - c \in 0 .. n THEN p[z - c]
                     ELSE IF z - c - OrigSlots \in 0 .. n THEN q[z - c - OrigSlots]
                     ELSE b[z]
  <1>1. Record(f, c + n, c + n, x, y) = [z \in Cells |-> G(z)]
    <2>1. DOMAIN f = Cells /\ f = [z \in Cells |-> f[z]]
      BY DEF Overlay
    <2> HIDE DEF f
    <2>2. c + n # OrigSlots + (c + n)
      BY DEF OrigSlots
    <2> QED
      BY <2>1, <2>2 DEF Record
  <1>2. Overlay(b, c, n + 1, p, q) = [z \in Cells |-> H(z)]
    <2>1. (n + 1) - 1 = n
      OBVIOUS
    <2> HIDE DEF p, q
    <2> QED
      BY <2>1 DEF Overlay
  <1>3. ASSUME NEW z \in Cells
        PROVE  G(z) = H(z)
    <2>1. z \in Int /\ OrigSlots = 4
      BY DEF Cells, OrigSlots, TrampSlots
    <2>2. f[z] = IF z - c \in 0 .. n - 1 THEN o[z - c]
                 ELSE IF z - c - OrigSlots \in 0 .. n - 1 THEN t[z - c - OrigSlots]
                 ELSE b[z]
      BY DEF Overlay
    <2> HIDE DEF f
    <2>3. CASE z = c + n
      BY <2>1, <2>2, <2>3
    <2>4. CASE z = c + n + 4
      BY <2>1, <2>2, <2>4
    <2>5. CASE z # c + n /\ z # c + n + 4 /\ z - c \in 0 .. n
      BY <2>1, <2>2, <2>5
    <2>6. CASE z # c + n /\ z # c + n + 4 /\ z - c \notin 0 .. n
      BY <2>1, <2>2, <2>6
    <2> QED
      BY <2>3, <2>4, <2>5, <2>6
  <1> HIDE DEF f, p, q, G, H
  <1>4. Record(f, c + n, c + n, x, y) = Overlay(b, c, n + 1, p, q)
    BY <1>1, <1>2, <1>3
  <1> QED
    BY <1>4 DEF f, p, q

\* Recording a boundary keeps the block a block.
LEMMA RecordBlock ==
    ASSUME NEW b \in Block, NEW i \in Nat, NEW j \in Nat, NEW x \in Nat, NEW y \in Nat
    PROVE  Record(b, i, j, x, y) \in Block
  BY DEF Block, Record

-----------------------------------------------------------------------------
(* One iteration *)

\* What every iteration does to the entry, wherever its stores land.
LEMMA RecordAnywhere ==
    ASSUME CopyInv, RecordBoundary
    PROVE  bnd' \in Block /\ count' \in Nat /\ spoiled' \subseteq FieldCells
           /\ rounds' = rounds + 1
  <1> DEFINE o == origPos * UnitBytes
             t == trampPos * UnitBytes
             j == IF count = CountCell THEN o ELSE count
  <1>1. bnd \in Block /\ count \in Nat /\ origPos \in Nat /\ trampPos \in Nat
        /\ spoiled \subseteq FieldCells
    BY DEF CopyInv, PosInv
  <1>2. o \in Nat /\ t \in Nat
    BY <1>1, Bytes
  <1>3. j \in Nat
    BY <1>1, <1>2
  <1>4. /\ bnd' = Record(bnd, count, j, o, t)
        /\ count' = 1 + IF OrigSlots + j = CountCell THEN t ELSE j
        /\ spoiled' = spoiled \cup ({count, OrigSlots + j} \cap FieldCells)
        /\ rounds' = rounds + 1
    BY DEF RecordBoundary
  <1> HIDE DEF o, t, j
  <1>5. bnd' \in Block
    BY <1>1, <1>2, <1>3, <1>4, RecordBlock
  <1> QED
    BY <1>1, <1>2, <1>3, <1>4, <1>5

\* And what it does while the arrays have cells.
LEMMA RecordStep ==
    ASSUME CopyInv, pc = "loop", RecordBoundary, UNCHANGED <<thumb, start, before>>,
           NEW n, n = Len(slots),
           \A k \in 0 .. n : Orig(k)' = Orig(k) /\ Tramp(k)' = Tramp(k)
    PROVE  /\ bnd' \in Block /\ count' \in Nat /\ spoiled' \subseteq FieldCells
           /\ n \in Nat /\ rounds = n /\ rounds' = n + 1
           /\ Inside' => /\ count' = start + (n + 1) /\ spoiled' = {}
                         /\ bnd' = Overlay(before, start, n + 1, [k \in 0 .. n |-> Orig(k)'],
                                                                 [k \in 0 .. n |-> Tramp(k)'])
  <1>0. /\ bnd' \in Block /\ count' \in Nat /\ spoiled' \subseteq FieldCells
        /\ n \in Nat /\ rounds = n /\ rounds' = n + 1
    BY RecordAnywhere DEF CopyInv, PosInv, BoundInv
  <1> SUFFICES ASSUME Inside'
               PROVE  /\ count' = start + (n + 1) /\ spoiled' = {}
                      /\ bnd' = Overlay(before, start, n + 1, [k \in 0 .. n |-> Orig(k)'],
                                                              [k \in 0 .. n |-> Tramp(k)'])
    BY <1>0
  <1> DEFINE o == [k \in 0 .. n - 1 |-> Orig(k)]
             t == [k \in 0 .. n - 1 |-> Tramp(k)]
  <1>1. /\ start \in Nat /\ n \in Nat /\ n = Len(slots) /\ before \in Block
        /\ start + n < TrampSlots
        /\ bnd = Overlay(before, start, n, o, t) /\ spoiled = {}
        /\ count = start + n
        /\ origPos \in Nat /\ trampPos \in Nat /\ bnd \in Block
    <2>1. start \in Nat /\ start + (n + 1) <= TrampSlots
      BY <1>0 DEF Inside, CopyInv, PosInv
    <2>2. Inside
      BY <1>0, <2>1 DEF Inside, TrampSlots
    <2>3. start + n < TrampSlots
      BY <1>0, <2>1 DEF TrampSlots
    <2> QED
      BY <1>0, <2>1, <2>2, <2>3 DEF CopyInv, PosInv, BoundInv
  <1>2. /\ bnd' = Record(bnd, start + n, start + n, origPos * UnitBytes, trampPos * UnitBytes)
        /\ count' = start + (n + 1) /\ spoiled' = {}
    <2>1. count # CountCell /\ OrigSlots + count # CountCell /\ count < TrampSlots
      BY <1>1 DEF CountCell, OrigSlots, TrampSlots
    <2>2. count \notin FieldCells /\ OrigSlots + count \notin FieldCells
      BY <1>1, <2>1 DEF FieldCells, CountCell, OrigSlots, TrampSlots
    <2> QED
      BY <1>1, <2>1, <2>2 DEF RecordBoundary
  <1>3. UnitBytes \in Nat
    BY Sizes
  <1>5. Orig(n) = origPos * UnitBytes /\ Tramp(n) = trampPos * UnitBytes
    BY <1>1 DEF Orig, Tramp
  <1> DEFINE x == origPos * UnitBytes
             y == trampPos * UnitBytes
  <1> HIDE DEF x, y
  <1>6. /\ [k \in 0 .. n |-> IF k < n THEN o[k] ELSE x] = [k \in 0 .. n |-> Orig(k)']
        /\ [k \in 0 .. n |-> IF k < n THEN t[k] ELSE y] = [k \in 0 .. n |-> Tramp(k)']
    <2>1. ASSUME NEW k \in 0 .. n
          PROVE  /\ (IF k < n THEN o[k] ELSE x) = Orig(k)'
                 /\ (IF k < n THEN t[k] ELSE y) = Tramp(k)'
      BY <1>1, <1>5 DEF x, y
    <2> QED
      BY <2>1
  <1> HIDE DEF o, t
  <1>7. Record(Overlay(before, start, n, o, t), start + n, start + n, x, y)
          = Overlay(before, start, n + 1, [k \in 0 .. n |-> IF k < n THEN o[k] ELSE x],
                                          [k \in 0 .. n |-> IF k < n THEN t[k] ELSE y])
    <2>1. start \in Nat /\ n \in Nat /\ before \in Block
      BY <1>1
    <2> QED
      BY ONLY <2>1, RecordOverlay
  <1>8. bnd' = Overlay(before, start, n + 1, [k \in 0 .. n |-> Orig(k)'],
                                             [k \in 0 .. n |-> Tramp(k)'])
    BY <1>1, <1>2, <1>6, <1>7 DEF x, y
  <1> QED
    BY <1>2, <1>8

\* What an iteration, or the jump back, places.
LEMMA AppendStep ==
    ASSUME CopyInv, NEW slot, Fit(slot), UNCHANGED thumb, NEW n, n = Len(slots),
           slots' = Append(slots, [slot |-> slot, orig |-> origPos * UnitBytes,
                                   tramp |-> trampPos * UnitBytes])
    PROVE  /\ n \in Nat /\ Len(slots') = n + 1 /\ slots' \in Seq(Row)
           /\ \A k \in DOMAIN slots' : Fit(slots[k].slot)' /\ slots'[k].tramp % 4 = 0
           /\ \A k \in 0 .. n : Orig(k)' = Orig(k) /\ Tramp(k)' = Tramp(k)
  <1> DEFINE new == [slot |-> slot, orig |-> origPos * UnitBytes, tramp |-> trampPos * UnitBytes]
  <1>1. /\ thumb \in BOOLEAN /\ origPos \in Nat /\ trampPos \in Nat
        /\ slots \in Seq(Row) /\ n \in Nat /\ slot \in Forms
    BY DEF CopyInv, PosInv, SlotInv, Fit, ThumbFit, ArmFit
  <1>2. new \in Row
    <2>1. origPos * UnitBytes \in Nat /\ trampPos * UnitBytes \in Nat
      BY <1>1, Bytes
    <2> QED
      BY <1>1, <2>1 DEF Row
  <1>3. /\ slots' \in Seq(Row) /\ Len(slots') = n + 1
        /\ \A k \in DOMAIN slots : slots'[k] = slots[k]
        /\ DOMAIN slots' = DOMAIN slots \cup {n + 1}
        /\ slots'[n + 1] = new /\ DOMAIN slots = 1 .. n
    <2> HIDE DEF new
    <2>1. slots' = Append(slots, new)
      BY DEF new
    <2> QED
      BY <1>1, <1>2, <2>1
  <1>4. ASSUME NEW k \in 0 .. n
        PROVE  Orig(k)' = Orig(k) /\ Tramp(k)' = Tramp(k)
    <2>1. CASE k < n
      <3>1. k < Len(slots') /\ slots'[k + 1] = slots[k + 1]
        BY <1>1, <1>3, <2>1
      <3> QED
        BY <1>1, <2>1, <3>1 DEF Orig, Tramp
    <2>2. CASE k = n
      <3>1. k < Len(slots') /\ slots'[k + 1] = new
        BY <1>1, <1>3, <2>2
      <3> QED
        BY <1>1, <2>2, <3>1 DEF Orig, Tramp
    <2> QED
      BY <1>1, <2>1, <2>2
  <1>5. ASSUME NEW k \in DOMAIN slots'
        PROVE  Fit(slots[k].slot)' /\ slots'[k].tramp % 4 = 0
    <2>1. Fit(slots[k].slot)' = Fit(slots'[k].slot)
      BY DEF Fit
    <2>2. CASE k \in DOMAIN slots
      <3>1. Fit(slots[k].slot) /\ slots[k].tramp % 4 = 0
        BY <2>2 DEF SlotInv, CopyInv
      <3> QED
        BY <1>3, <2>1, <2>2, <3>1
    <2>3. CASE k = n + 1
      <3>1. (trampPos * UnitBytes) % 4 = 0
        <4>1. CASE thumb
          BY <1>1, <4>1, Sizes DEF SlotInv, CopyInv
        <4>2. CASE ~thumb
          BY <1>1, <4>2, Sizes
        <4> QED
          BY <4>1, <4>2
      <3> QED
        BY <1>3, <2>1, <2>3, <3>1
    <2> QED
      BY <1>3, <2>2, <2>3
  <1> QED
    BY <1>1, <1>3, <1>4, <1>5

\* An iteration that copies an instruction keeps the invariant (relocate.c:451-478,
\* 500-596).
LEMMA PlaceStep ==
    ASSUME CopyInv, pc = "loop", NEW slot, Fit(slot), NEW width \in {1, 2},
           origPos + width <= Units, Place(slot, width)
    PROVE  CopyInv'
  <1>1. /\ thumb \in BOOLEAN /\ UNCHANGED <<thumb, skewed, start, before, resume>>
        /\ origPos' = origPos + width /\ trampPos' = trampPos + slot.size
        /\ RecordBoundary
        /\ origPos \in Nat /\ trampPos \in Nat
        /\ slots \in Seq(Row) /\ slot \in Forms /\ slot.size \in Nat /\ slot.size > 0
        /\ UnitBytes' = UnitBytes /\ Units' = Units /\ UnitBytes \in Nat /\ UnitBytes > 0
        /\ pc' = IF origPos' >= Units THEN "tail" ELSE "loop"
    BY Sizes DEF Place, CopyInv, PosInv, SlotInv, entry, Fit, ThumbFit, ArmFit,
                 Forms, UnitBytes, Units, Length
  <1>2. PICK n \in Nat : n = Len(slots)
    BY <1>1
  <1>3. slots' = Append(slots, [slot |-> slot, orig |-> origPos * UnitBytes,
                                tramp |-> trampPos * UnitBytes])
    BY DEF Place
  <1>4. /\ Len(slots') = n + 1 /\ slots' \in Seq(Row)
        /\ \A k \in DOMAIN slots' : Fit(slots[k].slot)' /\ slots'[k].tramp % 4 = 0
        /\ \A k \in 0 .. n : Orig(k)' = Orig(k) /\ Tramp(k)' = Tramp(k)
    BY <1>1, <1>2, <1>3, AppendStep
  <1>5. /\ Orig(n) = origPos * UnitBytes
        /\ Tramp(n) = trampPos * UnitBytes
        /\ Orig(n + 1)' = (origPos + width) * UnitBytes
        /\ Tramp(n + 1)' = (trampPos + slot.size) * UnitBytes
    BY <1>1, <1>2, <1>4 DEF Orig, Tramp
  <1>6. /\ bnd' \in Block /\ count' \in Nat /\ spoiled' \subseteq FieldCells
        /\ n \in Nat /\ rounds = n /\ rounds' = n + 1
        /\ Inside' => /\ count' = start + (n + 1) /\ spoiled' = {}
                      /\ bnd' = Overlay(before, start, n + 1, [k \in 0 .. n |-> Orig(k)'],
                                                              [k \in 0 .. n |-> Tramp(k)'])
    BY <1>1, <1>2, <1>4, RecordStep
  <1>7. PosInv'
    <2>1. /\ thumb \in BOOLEAN /\ skewed \in BOOLEAN /\ (skewed => thumb)
          /\ start \in Nat /\ before \in Block /\ origPos \in 0 .. 6
          /\ rounds \in 0 .. 6 /\ rounds <= origPos /\ resume = 0
          /\ Units = IF thumb THEN 6 ELSE 2
      BY Sizes DEF PosInv, CopyInv, Units, Length, UnitBytes
    <2>2. /\ origPos' \in 0 .. 6 /\ trampPos' \in Nat /\ rounds' \in 0 .. 6
          /\ rounds' <= origPos'
      <3>1. rounds' = rounds + 1
        BY <1>6
      <3>2. /\ origPos' = origPos + width /\ trampPos' = trampPos + slot.size
            /\ trampPos \in Nat /\ slot.size \in Nat /\ Units <= 6
        BY <1>1, <2>1
      <3> QED
        BY ONLY <2>1, <3>1, <3>2, width \in {1, 2}, origPos + width <= Units
    <2>3. pc' # "loop" => IF thumb THEN origPos' >= 5 ELSE origPos' = 2
      BY <1>1, <2>1, <2>2
    <2>4. pc' \in {"loop", "tail"} /\ (pc' = "loop" => origPos' < Units')
      BY <1>1, <2>1, <2>2
    <2> QED
      BY <1>1, <1>6, <2>1, <2>2, <2>3, <2>4 DEF PosInv
  <1>8. SlotInv'
    <2>1. ASSUME thumb
          PROVE  trampPos' % 2 = 0
      <3>1. trampPos % 2 = 0 /\ slot.size % 2 = 0
        BY <2>1 DEF SlotInv, CopyInv, Fit, ThumbFit
      <3> QED
        BY <1>1, <3>1, Even
    <2> QED
      BY <1>1, <1>4, <2>1 DEF SlotInv
  <1>9. BoundInv'
    <2>1. (n + 1) - 1 = n /\ start' = start /\ before' = before
      BY <1>1, <1>6
    <2>2. Last' = n + 1 /\ pc' # "done"
      BY <1>1, <1>4 DEF Last
    <2>3. Inside' => bnd' = Overlay(before', start', rounds',
                                    [k \in 0 .. rounds' - 1 |-> Orig(k)'],
                                    [k \in 0 .. rounds' - 1 |-> Tramp(k)'])
      BY <1>6, <2>1
    <2>4. Len(slots') = n + 1 /\ pc' \in {"loop", "tail"} /\ rounds' <= Last' + 1
      BY <1>1, <1>4, <1>6, <2>2
    <2> QED
      BY <1>6, <2>1, <2>2, <2>3, <2>4 DEF BoundInv
  <1>10. OrderInv'
    <2>1. Last = n /\ Last' = n + 1
      BY <1>1, <1>2, <1>4 DEF Last
    <2>2. /\ Orig(n) < Orig(n + 1)' /\ Tramp(n) < Tramp(n + 1)'
      <3>1. /\ origPos + width \in Nat /\ origPos < origPos + width
            /\ trampPos + slot.size \in Nat /\ trampPos < trampPos + slot.size
        BY <1>1
      <3>2. /\ origPos * UnitBytes < (origPos + width) * UnitBytes
            /\ trampPos * UnitBytes < (trampPos + slot.size) * UnitBytes
        BY <1>1, <3>1, Bytes
      <3> QED
        BY <1>5, <3>2
    <2>3. /\ \A i \in 0 .. n : Orig(i) \in Int /\ Tramp(i) \in Int
          /\ Orig(n + 1)' \in Int /\ Tramp(n + 1)' \in Int
      <3>1. /\ origPos * UnitBytes \in Int /\ trampPos * UnitBytes \in Int
            /\ (origPos + width) * UnitBytes \in Int
            /\ (trampPos + slot.size) * UnitBytes \in Int
        BY <1>1, Sizes
      <3>2. DOMAIN slots = 1 .. n /\ \A i \in DOMAIN slots : slots[i] \in Row
        BY <1>1, <1>2
      <3>3. \A i \in DOMAIN slots : slots[i].orig \in Int /\ slots[i].tramp \in Int
        BY <3>2 DEF Row
      <3>4. ASSUME NEW i \in 0 .. n
            PROVE  Orig(i) \in Int /\ Tramp(i) \in Int
        <4>1. CASE i < n
          BY <1>2, <3>2, <3>3, <4>1 DEF Orig, Tramp
        <4>2. CASE i = n
          BY <1>5, <3>1, <4>2
        <4> QED
          BY <1>2, <4>1, <4>2
      <3> QED
        BY <1>5, <3>1, <3>4
    <2>4. ASSUME NEW i \in 0 .. n + 1, NEW j \in 0 .. n + 1, i < j
          PROVE  Orig(i)' < Orig(j)' /\ Tramp(i)' < Tramp(j)'
      <3>1. \A a, b \in 0 .. n : a < b => Orig(a) < Orig(b) /\ Tramp(a) < Tramp(b)
        BY <2>1 DEF OrderInv, CopyInv
      <3>2. CASE j <= n
        <4>1. i \in 0 .. n /\ j \in 0 .. n
          BY <1>2, <2>4, <3>2
        <4> QED
          BY <1>4, <2>4, <3>1, <4>1
      <3>3. CASE j = n + 1
        <4>1. i \in 0 .. n /\ n \in 0 .. n /\ (i = n \/ i < n)
          BY <1>2, <2>4, <3>3
        <4>2. i = n \/ (Orig(i) < Orig(n) /\ Tramp(i) < Tramp(n))
          BY <3>1, <4>1
        <4>3. Orig(i)' = Orig(i) /\ Tramp(i)' = Tramp(i)
          BY <1>4, <4>1
        <4>4. Orig(i) < Orig(n + 1)' /\ Tramp(i) < Tramp(n + 1)'
          <5>1. /\ Orig(i) \in Int /\ Orig(n) \in Int /\ Orig(n + 1)' \in Int
                /\ Tramp(i) \in Int /\ Tramp(n) \in Int /\ Tramp(n + 1)' \in Int
            BY <2>3, <4>1
          <5> QED
            BY <2>2, <4>2, <5>1
        <4> QED
          BY <3>3, <4>3, <4>4
      <3> QED
        BY <1>2, <3>2, <3>3
    <2> QED
      BY <2>1, <2>4 DEF OrderInv
  <1> QED
    BY <1>7, <1>8, <1>9, <1>10 DEF CopyInv
\* A 32-bit instruction in the last halfword: a boundary and nothing more.
LEMMA BreakStep == CopyInv /\ Thumb32Break => CopyInv'
  <1> SUFFICES ASSUME CopyInv, Thumb32Break PROVE CopyInv'
    OBVIOUS
  <1>1. /\ thumb /\ pc = "loop" /\ pc' = "tail" /\ RecordBoundary
        /\ UNCHANGED <<thumb, skewed, start, before, origPos, trampPos, resume, slots>>
        /\ UnitBytes' = UnitBytes /\ Units' = Units /\ slots \in Seq(Row) /\ start \in Nat
    BY DEF Thumb32Break, entry, UnitBytes, Units, Length, CopyInv, SlotInv, PosInv
  <1>2. PICK n \in Nat : n = Len(slots)
    BY <1>1
  <1>3. \A k \in 0 .. n : Orig(k)' = Orig(k) /\ Tramp(k)' = Tramp(k)
    BY <1>1 DEF Orig, Tramp
  <1>4. /\ bnd' \in Block /\ count' \in Nat /\ spoiled' \subseteq FieldCells
        /\ n \in Nat /\ rounds = n /\ rounds' = n + 1
        /\ Inside' => /\ count' = start + (n + 1) /\ spoiled' = {}
                      /\ bnd' = Overlay(before, start, n + 1, [k \in 0 .. n |-> Orig(k)'],
                                                              [k \in 0 .. n |-> Tramp(k)'])
    BY <1>1, <1>2, <1>3, RecordStep
  <1>5. origPos = 5
    BY <1>1, Sizes DEF CopyInv, PosInv, Thumb32Break
  <1>6. PosInv'
    BY <1>1, <1>4, <1>5, Sizes DEF PosInv, CopyInv, Units, Length, UnitBytes
  <1>7. SlotInv'
    BY <1>1 DEF SlotInv, CopyInv, Fit
  <1>8. Last = n /\ Last' = n
    BY <1>1, <1>2 DEF Last
  <1>9. BoundInv'
    <2>1. (n + 1) - 1 = n
      BY <1>4
    <2>2. Inside' => bnd' = Overlay(before', start', rounds',
                                    [k \in 0 .. rounds' - 1 |-> Orig(k)'],
                                    [k \in 0 .. rounds' - 1 |-> Tramp(k)'])
      BY <1>1, <1>4, <2>1
    <2> QED
      BY <1>1, <1>4, <1>8, <2>2 DEF BoundInv
  <1>10. OrderInv'
    BY <1>3, <1>8 DEF OrderInv, CopyInv
  <1> QED
    BY <1>6, <1>7, <1>9, <1>10 DEF CopyInv

\* The jump back stands where the next copy would, and at what it returns to.
LEMMA JumpStep == CopyInv /\ JumpBack => CopyInv'
  <1> SUFFICES ASSUME CopyInv, JumpBack PROVE CopyInv'
    OBVIOUS
  <1> DEFINE tail == IF thumb THEN ThumbTail ELSE ArmTail
  <1>1. /\ thumb \in BOOLEAN /\ pc = "tail" /\ pc' = "done"
        /\ UNCHANGED <<thumb, skewed, start, before, origPos, trampPos, bnd, count, spoiled, rounds>>
        /\ resume' = IF thumb THEN origPos * UnitBytes ELSE Length
        /\ slots' = Append(slots, [slot |-> tail, orig |-> origPos * UnitBytes,
                                   tramp |-> trampPos * UnitBytes])
        /\ UnitBytes' = UnitBytes /\ Units' = Units /\ Length' = Length /\ slots \in Seq(Row)
    BY DEF JumpBack, entry, item, UnitBytes, Units, Length, CopyInv, SlotInv, PosInv
  <1>2. PICK n \in Nat : n = Len(slots)
    BY <1>1
  <1>3. Fit(tail)
    BY <1>1, TailsFit DEF Fit
  <1> HIDE DEF tail
  <1>4. /\ Len(slots') = n + 1 /\ slots' \in Seq(Row)
        /\ \A k \in DOMAIN slots' : Fit(slots[k].slot)' /\ slots'[k].tramp % 4 = 0
        /\ \A k \in 0 .. n : Orig(k)' = Orig(k) /\ Tramp(k)' = Tramp(k)
    BY <1>1, <1>2, <1>3, AppendStep
  <1>5. PosInv'
    BY <1>1, Sizes DEF PosInv, CopyInv
  <1>6. SlotInv'
    BY <1>1, <1>4 DEF SlotInv, CopyInv
  <1>7. Last = n /\ Last' = n
    BY <1>1, <1>2, <1>4 DEF Last
  <1>8. BoundInv'
    <2>1. PICK m \in Nat : m = rounds
      BY DEF CopyInv, PosInv
    <2>2. m <= n + 1 /\ 0 .. m - 1 \subseteq 0 .. n
      BY <1>7, <2>1 DEF CopyInv, BoundInv
    <2>3. /\ [k \in 0 .. m - 1 |-> Orig(k)'] = [k \in 0 .. m - 1 |-> Orig(k)]
          /\ [k \in 0 .. m - 1 |-> Tramp(k)'] = [k \in 0 .. m - 1 |-> Tramp(k)]
      BY <1>4, <2>2
    <2>4. Inside => /\ bnd = Overlay(before, start, m, [k \in 0 .. m - 1 |-> Orig(k)],
                                                       [k \in 0 .. m - 1 |-> Tramp(k)])
                    /\ count = start + m /\ spoiled = {}
      BY <2>1 DEF CopyInv, BoundInv
    <2>5. rounds' = m /\ Inside' = Inside
      BY <1>1, <2>1 DEF Inside
    <2>6. Inside' => /\ bnd' = Overlay(before', start', rounds',
                                       [k \in 0 .. rounds' - 1 |-> Orig(k)'],
                                       [k \in 0 .. rounds' - 1 |-> Tramp(k)'])
                     /\ count' = start' + rounds' /\ spoiled' = {}
      BY <1>1, <2>3, <2>4, <2>5
    <2> QED
      BY <1>1, <1>4, <1>7, <2>2, <2>5, <2>6 DEF BoundInv
  <1>9. OrderInv'
    BY <1>4, <1>7 DEF OrderInv, CopyInv
  <1> QED
    BY <1>5, <1>6, <1>8, <1>9 DEF CopyInv

\* A used entry goes back to the table: the old boundaries become the past.
LEMMA ReuseStep == CopyInv /\ Reuse => CopyInv'
  <1> SUFFICES ASSUME CopyInv, Reuse PROVE CopyInv'
    OBVIOUS
  <1>1. count \in Nat /\ bnd \in Block
    BY DEF CopyInv, PosInv
  <1>2. PosInv'
    <2>1. thumb' \in BOOLEAN /\ skewed' \in BOOLEAN /\ (skewed' => thumb')
      BY DEF Reuse
    <2>2. 0 < Units'
      BY <2>1 DEF Units, Length, UnitBytes
    <2> QED
      BY <1>1, <2>1, <2>2 DEF PosInv, Reuse
  <1>3. SlotInv'
    BY DEF SlotInv, Reuse
  <1>4. BoundInv'
    <2>1. rounds' = 0 /\ before' = bnd /\ bnd' = bnd /\ start' = count /\ count' = count
          /\ spoiled' = {} /\ pc' = "loop" /\ slots' = <<>>
      BY DEF Reuse
    <2> QED
      BY <1>1, <2>1, NoOverlay DEF BoundInv, Last
  <1>5. OrderInv'
    BY DEF OrderInv, Reuse, Last
  <1> QED
    BY <1>2, <1>3, <1>4, <1>5 DEF CopyInv
\* Every step keeps the invariant.
LEMMA NextStep == CopyInv /\ [Next]_vars => CopyInv'
  <1> SUFFICES ASSUME CopyInv, [Next]_vars PROVE CopyInv'
    OBVIOUS
  <1>1. ASSUME NEW type \in DOMAIN Thumb16Slots, Thumb16Step(type)
        PROVE  CopyInv'
    <2>1. pc = "loop" /\ thumb /\ Place(Thumb16Slots[type], 1)
      BY <1>1 DEF Thumb16Step
    <2>2. Fit(Thumb16Slots[type])
      BY <2>1, Thumb16Fit DEF Fit
    <2>3. origPos + 1 <= Units
      BY <2>1, Sizes DEF CopyInv, PosInv
    <2> QED
      BY <2>1, <2>2, <2>3, PlaceStep
  <1>2. ASSUME NEW type \in DOMAIN Thumb32Slots, Thumb32Step(type)
        PROVE  CopyInv'
    <2>1. /\ pc = "loop" /\ thumb /\ Place(Thumb32Slots[type], 2)
          /\ origPos + 2 <= Units
      BY <1>2 DEF Thumb32Step
    <2>2. Fit(Thumb32Slots[type])
      BY <2>1, Thumb32Fit DEF Fit
    <2> QED
      BY <2>1, <2>2, PlaceStep
  <1>3. CASE Thumb32Break
    BY <1>3, BreakStep
  <1>4. ASSUME NEW type \in DOMAIN ArmSlots, ArmStep(type)
        PROVE  CopyInv'
    <2>1. pc = "loop" /\ ~thumb /\ Place(ArmSlots[type], 1)
      BY <1>4 DEF ArmStep
    <2>2. Fit(ArmSlots[type])
      BY <2>1, ArmSlotsFit DEF Fit
    <2>3. origPos + 1 <= Units
      BY <2>1, Sizes DEF CopyInv, PosInv
    <2> QED
      BY <2>1, <2>2, <2>3, PlaceStep
  <1>5. CASE JumpBack
    BY <1>5, JumpStep
  <1>6. CASE Reuse
    BY <1>6, ReuseStep
  <1>7. CASE UNCHANGED vars
    BY <1>7 DEF vars, entry, item, CopyInv, PosInv, SlotInv, BoundInv, OrderInv, Orig, Tramp, Last,
                Fit, UnitBytes, Units, Length, Inside
  <1> QED
    BY <1>1, <1>2, <1>3, <1>4, <1>5, <1>6, <1>7 DEF Next

\* The invariant holds throughout, however often the entry is reused.
THEOREM CopyInvariant == Spec => []CopyInv
  <1>1. Init => CopyInv
    BY InitCopy
  <1>2. CopyInv /\ [Next]_vars => CopyInv'
    BY NextStep
  <1> QED
    BY <1>1, <1>2, PTL DEF Spec

-----------------------------------------------------------------------------
(* What follows from it *)

\* Every variable of the loop keeps its type, also while its stores run over the count
\* and the fields behind it: no registration takes more than six iterations, and none
\* consumes more than the prologue (relocate.c:447-478, 500-596).
THEOREM TypeCorrect == Spec => []TypeOK
  <1>1. CopyInv => TypeOK
    <2> SUFFICES ASSUME CopyInv PROVE TypeOK
      OBVIOUS
    <2>1. resume \in {0, 8, 10, 12}
      BY Sizes DEF CopyInv, PosInv
    <2>2. slots \in Seq([slot : [size : Nat, loads : SUBSET [at : Nat, imm : Int, pool : Nat],
                                 skips : SUBSET [at : Nat, imm : Int, to : Nat]],
                         orig : Nat, tramp : Nat])
      BY DEF CopyInv, SlotInv, Row, Forms, Loads, Skips
    <2> QED
      BY <2>1, <2>2 DEF CopyInv, PosInv, TypeOK
  <1> QED
    BY <1>1, CopyInvariant, PTL

\* The copy of any prologue returns behind the bytes the hook overwrites, also of a
\* Thumb function that is not word aligned (relocate.c:478, 493; inlineHook.c:349-358).
THEOREM ReturnsBehindPatch == Spec => []ResumeClearsPatch
  <1>1. CopyInv => ResumeClearsPatch
    BY Sizes DEF CopyInv, PosInv, ResumeClearsPatch, Done, PatchBytes
  <1> QED
    BY <1>1, CopyInvariant, PTL

\* From a word boundary, rounding the PC only rounds the offset.
LEMMA WordBase ==
    ASSUME NEW base \in Nat, NEW off \in Nat, base % 4 = 0
    PROVE  ((base + off) \div 4) * 4 = base + (off \div 4) * 4
  OBVIOUS

\* In any mix of replacements, every load reads its own literal and every branch
\* reaches the unit it was written for: the invariant that carries it is that in
\* Thumb state each replacement starts at a word (relocate.c:187-434, 512-595).
THEOREM LiteralsHit == Spec => []LoadsHitTheirLiteral
  <1>1. CopyInv => LoadsHitTheirLiteral
    <2> SUFFICES ASSUME CopyInv, NEW k \in Placed
                 PROVE  /\ \A load \in slots[k].slot.loads :
                             LoadAddress(slots[k].tramp, load)
                                 = slots[k].tramp + UnitBytes * load.pool
                        /\ \A skip \in slots[k].slot.skips :
                             SkipAddress(slots[k].tramp, skip)
                                 = slots[k].tramp + UnitBytes * skip.to
      BY DEF LoadsHitTheirLiteral
    <2>1. PICK base \in Nat, slot \in Forms : base = slots[k].tramp /\ slot = slots[k].slot
      <3>1. slots[k] \in Row
        BY DEF CopyInv, SlotInv, Placed
      <3> QED
        BY <3>1 DEF Row
    <2>2. Fit(slot) /\ base % 4 = 0
      BY <2>1 DEF CopyInv, SlotInv, Placed
    <2>3. ASSUME NEW load \in slot.loads
          PROVE  LoadAddress(base, load) = base + UnitBytes * load.pool
      <3>1. load.at \in Nat /\ load.imm \in Int /\ load.pool \in Nat
        BY DEF Forms, Loads
      <3>2. CASE thumb
        <4>1. ((base + (2 * load.at + 4)) \div 4) * 4 = base + ((2 * load.at + 4) \div 4) * 4
          <5>1. 2 * load.at + 4 \in Nat /\ base % 4 = 0 /\ base \in Nat
            BY <2>2, <3>1
          <5> QED
            BY <5>1, WordBase
        <4>2. ((2 * load.at + 4) \div 4) * 4 + load.imm = 2 * load.pool
          BY <2>2, <3>2 DEF Fit, ThumbFit
        <4>3. base + 2 * load.at + 4 = base + (2 * load.at + 4)
          BY <3>1
        <4>4. LoadAddress(base, load) = ((base + (2 * load.at + 4)) \div 4) * 4 + load.imm
          BY <3>2, <4>3 DEF LoadAddress
        <4> QED
          BY <3>1, <3>2, <4>1, <4>2, <4>4, Sizes
      <3>3. CASE ~thumb
        <4>1. 4 * load.at + 8 + load.imm = 4 * load.pool
          BY <2>2, <3>3 DEF Fit, ArmFit
        <4> QED
          BY <3>1, <3>3, <4>1, Sizes DEF LoadAddress
      <3> QED
        BY <3>2, <3>3
    <2>4. ASSUME NEW skip \in slot.skips
          PROVE  SkipAddress(base, skip) = base + UnitBytes * skip.to
      <3>1. skip.at \in Nat /\ skip.imm \in Int /\ skip.to \in Nat
        BY DEF Forms, Skips
      <3>2. CASE thumb
        <4>1. 2 * skip.at + 4 + skip.imm = 2 * skip.to
          BY <2>2, <3>2 DEF Fit, ThumbFit
        <4> QED
          BY <3>1, <3>2, <4>1, Sizes DEF SkipAddress
      <3>3. CASE ~thumb
        <4>1. 4 * skip.at + 8 + skip.imm = 4 * skip.to
          BY <2>2, <3>3 DEF Fit, ArmFit
        <4> QED
          BY <3>1, <3>3, <4>1, Sizes DEF SkipAddress
      <3> QED
        BY <3>2, <3>3
    <2> QED
      BY <2>1, <2>3, <2>4
  <1> QED
    BY <1>1, CopyInvariant, PTL

\* What an instruction that has been placed is to the boundaries.
LEMMA Rows ==
    ASSUME CopyInv, Done
    PROVE  /\ rounds \in Nat
           /\ \A k \in 0 .. rounds - 1 :
                 Orig(k) = slots[k + 1].orig /\ Tramp(k) = slots[k + 1].tramp
           /\ \A i, j \in 0 .. rounds - 1 :
                 i < j => Orig(i) < Orig(j) /\ Tramp(i) < Tramp(j)
           /\ \A k \in 0 .. rounds - 1 : Orig(k) \in Nat /\ Tramp(k) \in Nat
  <1>1. PICK n \in Nat : n = rounds
    BY DEF CopyInv, PosInv
  <1>2. n <= Len(slots) /\ Last = Len(slots) - 1 /\ Len(slots) \in Nat /\ slots \in Seq(Row)
    BY <1>1 DEF CopyInv, BoundInv, SlotInv, Last, Done
  <1>3. \A k \in 0 .. n - 1 :
            Orig(k) = slots[k + 1].orig /\ Tramp(k) = slots[k + 1].tramp
    BY <1>2 DEF Orig, Tramp
  <1>4. \A k \in 0 .. n - 1 : k \in 0 .. Last /\ slots[k + 1] \in Row
    BY <1>2
  <1>5. \A i, j \in 0 .. n - 1 : i < j => Orig(i) < Orig(j) /\ Tramp(i) < Tramp(j)
    BY <1>4 DEF CopyInv, OrderInv
  <1>6. \A k \in 0 .. n - 1 : Orig(k) \in Nat /\ Tramp(k) \in Nat
    BY <1>3, <1>4 DEF Row
  <1> QED
    BY <1>1, <1>3, <1>5, <1>6

\* The boundary arrays after a registration are what the hook table computes in one
\* step, and what is behind them is left alone, whatever the entry's previous owners
\* left, as long as all their instructions are no more than the cells; where the last
\* cell is taken the guarantee ends (relocate.c:451-453, 500-502; inlineHook.c:43-55).
THEOREM BoundariesAreLoop == Spec => []OverlayIsLoop
  <1>1. CopyInv => OverlayIsLoop
    <2> SUFFICES ASSUME CopyInv, Done, Inside
                 PROVE  /\ bnd = Overlay(before, start, rounds,
                                  [k \in 0 .. rounds - 1 |-> slots[k + 1].orig],
                                  [k \in 0 .. rounds - 1 |-> slots[k + 1].tramp])
                        /\ count = start + rounds /\ spoiled = {}
      BY DEF OverlayIsLoop
    <2>1. /\ [k \in 0 .. rounds - 1 |-> Orig(k)]
                 = [k \in 0 .. rounds - 1 |-> slots[k + 1].orig]
          /\ [k \in 0 .. rounds - 1 |-> Tramp(k)]
                 = [k \in 0 .. rounds - 1 |-> slots[k + 1].tramp]
      BY Rows
    <2> QED
      BY <2>1 DEF CopyInv, BoundInv
  <1> QED
    BY <1>1, CopyInvariant, PTL

\* In a fresh entry a thread is moved between an instruction and its own copy, within
\* the bounds of the arrays (inlineHook.c:98-116): no two instructions share a
\* boundary, and only the last four originals survive the copies.
THEOREM MigrationIsExact == Spec => []MigrationExact
  <1>1. CopyInv => MigrationExact
    <2> SUFFICES ASSUME CopyInv, Done, start = 0, NEW k \in 0 .. count - 1
                 PROVE  /\ k >= count - OrigSlots =>
                             EnableOffset(bnd, count, slots[k + 1].orig) = {slots[k + 1].tramp}
                        /\ count <= OrigSlots =>
                             DisableOffset(bnd, count, slots[k + 1].tramp) = {slots[k + 1].orig}
      BY DEF MigrationExact
    <2>0. Inside
      BY DEF CopyInv, PosInv, Inside, TrampSlots
    <2>1. PICK n \in 0 .. 6 : n = count /\ rounds = n
      BY <2>0 DEF CopyInv, PosInv, BoundInv
    <2>2. /\ \A i \in 0 .. n - 1 : Orig(i) \in Nat /\ Tramp(i) \in Nat
          /\ \A i, j \in 0 .. n - 1 : i < j => Orig(i) < Orig(j) /\ Tramp(i) < Tramp(j)
          /\ Orig(k) = slots[k + 1].orig /\ Tramp(k) = slots[k + 1].tramp
          /\ k \in 0 .. n - 1
      BY <2>1, Rows
    <2>3. bnd = [x \in Cells |->
                    IF x \in 0 .. n - 1 THEN Orig(x)
                    ELSE IF x - OrigSlots \in 0 .. n - 1 THEN Tramp(x - OrigSlots)
                    ELSE before[x]]
      <3>1. bnd = Overlay(before, 0, n, [i \in 0 .. n - 1 |-> Orig(i)],
                                        [i \in 0 .. n - 1 |-> Tramp(i)])
        BY <2>0, <2>1 DEF CopyInv, BoundInv
      <3>2. \A x \in Cells : x - 0 = x /\ x \in Int
        BY DEF Cells, OrigSlots, TrampSlots
      <3> QED
        BY <3>1, <3>2 DEF Overlay
    <2>4. \A x \in 0 .. n + 3 : x \in Cells
      BY DEF Cells, OrigSlots, TrampSlots
    <2>5. \A i \in 0 .. n - 1 : bnd[i] = Orig(i)
      BY <2>3, <2>4
    <2>6. \A i \in 0 .. n - 1 : i + 4 > n - 1 => bnd[OrigSlots + i] = Tramp(i)
      BY <2>3, <2>4 DEF OrigSlots
    <2>7. ASSUME k >= count - OrigSlots
          PROVE  EnableOffset(bnd, count, slots[k + 1].orig) = {slots[k + 1].tramp}
      <3>1. FirstMatch(bnd, 0, n, Orig(k)) = {k}
        BY <2>2, <2>5 DEF FirstMatch
      <3>2. bnd[OrigSlots + k] = Tramp(k)
        BY <2>1, <2>2, <2>6, <2>7 DEF OrigSlots
      <3> QED
        BY <2>1, <2>2, <3>1, <3>2 DEF EnableOffset
    <2>8. ASSUME count <= OrigSlots
          PROVE  DisableOffset(bnd, count, slots[k + 1].tramp) = {slots[k + 1].orig}
      <3>1. \A i \in 0 .. n - 1 : bnd[OrigSlots + i] = Tramp(i)
        BY <2>1, <2>6, <2>8 DEF OrigSlots
      <3>2. FirstMatch(bnd, OrigSlots, n, Tramp(k)) = {k}
        BY <2>2, <3>1 DEF FirstMatch
      <3> QED
        BY <2>1, <2>2, <2>5, <3>2 DEF DisableOffset
    <2> QED
      BY <2>7, <2>8
  <1> QED
    BY <1>1, CopyInvariant, PTL
=============================================================================
