----------------------------- MODULE MCAnd64Fix -----------------------------
(* Instances of And64Fix with fields of 7, 8 and 9 bits and pages of 16      *)
(* words: references inside the prologue, over page boundaries, in reach of  *)
(* the copy, beyond half of a field, and beyond the field.                   *)
EXTENDS And64Fix

Refs(kinds, offs) == [kind : kinds, off : offs, lsb : {0}, high : {0}]

Inside == {-4, -1, 1, 3}
Pages  == [kind : {"adrp"}, off : -1 .. 1, lsb : {0}, high : {0}]
Odd    == [kind : {"adr"}, off : {1, 120}, lsb : {1}, high : {1, 2}]

Mixed == Refs(Branches, Inside \cup {-200, 200})
         \cup Refs({"cond", "adr"} \cup Loads, Inside \cup {-120, 120})
         \cup Refs({"test"}, Inside \cup {-50, 50})
         \cup Pages \cup Odd \cup Refs({"prfm"}, {0})

\* References that need the most room, and one that leaves an odd address.
Large == Refs({"ldrq", "cond", "bl", "b"}, {120})

\* References between the instructions of the prologue, over a load's padding.
Local == Refs({"b", "test"}, {-1, 1, 2, 4}) \cup Refs({"ldrx"}, {120})

\* References of which a flaw leads to the copy of one that goes to the same address,
\* or to the copy of a branch to where the flaw leads as well.
Chance == Refs({"b"}, {128, 254, 255}) \cup Refs({"test"}, {-1})

\* An aligned function, an unaligned one, and one whose prologue is on two pages.
EvenOdd  == {3200, 3205}
OnTwo    == {3213}
\* There is something 2^32 bytes above some of the data, and some data change.
Memory   == 3000 .. 5200 \cup 11390 .. 11400
Changing == {3322}

\* Next to the function, beyond half of a branch's field, and beyond the field.
Around   == {3260, 3466, 5000}
Far      == {5000}

\* Up to two references of any kind, or five of a kind that matters.
All      == [mixed |-> [instrs |-> Mixed, most |-> 2, tramps |-> Around],
             local |-> [instrs |-> Local, most |-> 5, tramps |-> Far],
             large |-> [instrs |-> Large, most |-> 5, tramps |-> Far],
             chance |-> [instrs |-> Chance, most |-> 2, tramps |-> {2942} \cup Far]]
JustAdrp == [adrp |-> [instrs |-> Pages, most |-> 1, tramps |-> Around]]
=============================================================================
