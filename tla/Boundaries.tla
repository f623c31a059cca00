----------------------------- MODULE Boundaries -----------------------------
(***************************************************************************)
(* The two boundary arrays of a hook table entry (struct inlineHookItem),  *)
(* the instruction map freeze() uses to move a stopped thread between the  *)
(* original prologue and its relocated copy.                               *)
(*                                                                         *)
(* orig_boundaries[4] and trampoline_boundaries[20] are adjacent int       *)
(* arrays; nothing checks the index, so a prologue of five or six          *)
(* instructions, or a reused entry whose count was not reset, writes       *)
(* through the end of the first into the start of the second, and through  *)
(* the end of the second into the count and the fields behind it.  The     *)
(* arrays are therefore modelled as what they are in memory: one block of  *)
(* 24 cells, and the other ints of the entry as the cells behind it.       *)
(***************************************************************************)
EXTENDS Integers, FiniteSets

OrigSlots  == 4
TrampSlots == 20
Cells      == 0 .. OrigSlots + TrampSlots - 1

Block == [Cells -> Nat]
Blank == [x \in Cells |-> 0]

\* The cells that count, trampoline_instructions and length are in.
CountCell  == OrigSlots + TrampSlots
FieldCells == CountCell + 1 .. CountCell + 2

\* orig_boundaries[i] = o; trampoline_boundaries[j] = t; of cells in the block.
Record(bnd, i, j, o, t) == [bnd EXCEPT ![i] = o, ![OrigSlots + j] = t]

\* Mutant of Overlay: the boundaries of the copy are written after the loop.
OverlayCopyLast(bnd, c, n, orig, tramp) ==
    [x \in Cells |->
        IF x - c - OrigSlots \in 0 .. n - 1 THEN tramp[x - c - OrigSlots]
        ELSE IF x - c \in 0 .. n - 1 THEN orig[x - c] ELSE bnd[x]]

\* What relocating n instructions leaves in the block when the entry's count
\* is c beforehand: instruction k is at orig[k] in the prologue and at
\* tramp[k] in the copy.  A cell that two instructions write keeps the value
\* of the later one, which is always an original boundary.
Overlay(bnd, c, n, orig, tramp) ==
    [x \in Cells |->
        IF x - c \in 0 .. n - 1
          THEN orig[x - c]
        ELSE IF x - c - OrigSlots \in 0 .. n - 1
          THEN tramp[x - c - OrigSlots]
        ELSE bnd[x]]

\* The block of an entry whose earlier owners, functions with two ARM instructions
\* that are copied as they are, have left the count c.
Left(c) == Overlay(Blank, 0, c, [k \in 0 .. c - 1 |-> 4 * (k % 2)],
                                [k \in 0 .. c - 1 |-> 4 * (k % 2)])

\* The first index below count whose boundary, in the array that starts at
\* cell base, is off; the empty set when the loop finds none.
FirstMatch(bnd, base, count, off) ==
    {i \in 0 .. count - 1 :
        bnd[base + i] = off /\ \A k \in 0 .. i - 1 : bnd[base + k] # off}

\* Mutant of EnableOffset: doProcessThreadPC takes the next copy.
EnableNextOffset(bnd, count, off) ==
    {bnd[OrigSlots + i + 1] : i \in FirstMatch(bnd, 0, count, off)}

\* doProcessThreadPC: the offset in the copy (ACTION_ENABLE) or in the
\* prologue (ACTION_DISABLE) a thread stopped at off is moved to; empty if it
\* is left where it is.
EnableOffset(bnd, count, off) ==
    {bnd[OrigSlots + i] : i \in FirstMatch(bnd, 0, count, off)}
DisableOffset(bnd, count, off) ==
    {bnd[i] : i \in FirstMatch(bnd, OrigSlots, count, off)}
=============================================================================
