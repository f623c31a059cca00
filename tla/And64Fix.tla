------------------------------ MODULE And64Fix ------------------------------
(***************************************************************************)
(* __fix_instructions of the 64-bit hook library: the loop that copies the *)
(* instructions a patch will overwrite into a trampoline, rewriting those  *)
(* that refer to an address relative to themselves.                        *)
(*                                                                         *)
(* A reference that leaves the prologue is encoded directly when it is     *)
(* taken to be in reach of the copy and otherwise through a literal; a     *)
(* reference to an instruction of the prologue must become one to that     *)
(* instruction's copy, whose address is not yet known if it comes later:   *)
(* the word then waits in the fix map of that instruction.                 *)
(*                                                                         *)
(* Addresses count words.  The ranges of the immediate fields are          *)
(* parameters, and a field holds what its bits hold.  Conditions are       *)
(* abstracted, and of registers all but the two bits of ADR's into which   *)
(* the code also writes bits of the offset.  Bits that change what is      *)
(* outside the field make a word stray.  Data are known by their address.  *)
(***************************************************************************)
EXTENDS Integers, Sequences, FiniteSets

CONSTANTS
    BranchHalf,   \* an ADDR_PCREL26 field holds -BranchHalf .. BranchHalf - 1
    CondHalf,     \* likewise an ADDR_PCREL19 field and ADR's upper field
    TestHalf,     \* and an ADDR_PCREL14 field
    Wrap,         \* words in 2^32 bytes
    PageWords,    \* words in a page
    Families,     \* by its name, a family of prologues: the instructions they
                  \* contain next to plain ones, at most how many of those,
                  \* and the addresses of their trampolines
    Bases,        \* addresses of the function
    Mapped,       \* addresses that can be read
    Writable      \* addresses of data that the program may change later

A64_MAX_INSTRUCTIONS == 5

\* Mutant of RowWords: eight words per instruction.
TightRowWords == A64_MAX_INSTRUCTIONS * 8
RowWords == A64_MAX_INSTRUCTIONS * 10       \* a row of __insns_pool

Loads    == {"ldrw", "ldrx", "ldrsw", "ldrd", "ldrq"}
Branches == {"b", "bl"}
Tests    == {"cond", "test"}
Kinds    == Branches \cup Tests \cup Loads \cup {"adr", "adrp", "prfm", "plain"}

\* Words a load reads: faligned + 1 bytes.
Size == [ldrw |-> 1, ldrx |-> 2, ldrsw |-> 2, ldrd |-> 2, ldrq |-> 4]

\* The instructions of a prologue.
Indices == 0 .. A64_MAX_INSTRUCTIONS - 1

\* Half as many as the values of the field that holds an instruction's offset.
Half == [b |-> BranchHalf, bl |-> BranchHalf, cond |-> CondHalf,
         test |-> TestHalf, ldrw |-> CondHalf, ldrx |-> CondHalf,
         ldrsw |-> CondHalf, ldrd |-> CondHalf, ldrq |-> CondHalf,
         adr |-> CondHalf, adrp |-> CondHalf]

HasRoom(kind, rel) == rel \in -Half[kind] .. Half[kind] - 1

ASSUME WidthAssumption ==
    /\ {BranchHalf, CondHalf, TestHalf, Wrap} \subseteq Nat
    /\ TestHalf > RowWords
    /\ TestHalf <= CondHalf /\ CondHalf <= BranchHalf
    /\ Wrap > 2 * BranchHalf
    /\ PageWords \in Nat \ {0}
ASSUME PageAssumption == CondHalf * PageWords <= Wrap
ASSUME InputAssumption ==
    /\ Bases \subseteq Nat
    /\ \A F \in {Families[n] : n \in DOMAIN Families} :
          /\ F.instrs \subseteq [kind : Kinds, off : Int, lsb : 0 .. 3, high : 0 .. 3]
          /\ \A i \in F.instrs : i.kind \in DOMAIN Half => HasRoom(i.kind, i.off)
          /\ F.most \in 0 .. A64_MAX_INSTRUCTIONS
          /\ F.tramps \subseteq Nat \ {0}
          /\ \A t \in F.tramps : t % 2 = 0
\* The literals of the program's own instructions can be read.
ASSUME MappedAssumption ==
    \A F \in {Families[n] : n \in DOMAIN Families} :
        \A i \in F.instrs : i.kind \in Loads =>
            \A b \in Bases, k \in Indices, x \in 0 .. Size[i.kind] - 1 :
                b + k + i.off + x \in Mapped

VARIABLES
    family,       \* the family the prologue belongs to
    base,         \* ctx.basep
    count,        \* instructions to copy: ctx.endp is base + count
    tramp,        \* where the copy starts
    code,         \* the instructions copied so far
    copy,         \* the words written so far
    ins,          \* ins[k]: dat[k].insp, the copy of instruction k
    ends,         \* history: where the words of that copy end
    fmap,         \* fmap[k]: words that wait for the address of k's copy
    tail,         \* where the jump back was written, or 0
    fault         \* the load at which the process crashed, or Plain

input == <<family, base, count, tramp>>
vars  == <<input, code, copy, ins, ends, fmap, tail, fault>>

\* An instruction without a PC-relative offset.
Plain == [kind |-> "plain", off |-> 0, lsb |-> 0, high |-> 0]

Init ==
    /\ family \in DOMAIN Families
    /\ base \in Bases
    /\ tramp \in {t \in Families[family].tramps :
                     {t + x : x \in 0 .. RowWords - 1} \cap
                     {base + x : x \in 0 .. A64_MAX_INSTRUCTIONS} = {}}
    /\ count \in {1, 4 + (base % 2)}
    /\ code = <<>>
    /\ copy = <<>>
    /\ ins = [k \in Indices |-> 0]
    /\ ends = [k \in Indices |-> 0]
    /\ fmap = [k \in Indices |-> {}]
    /\ tail = 0
    /\ fault = Plain

-----------------------------------------------------------------------------
(* Words *)

Word(op, imm)     == [op |-> op, imm |-> imm, stray |-> FALSE]
Nops(n)           == [x \in 1 .. n |-> Word("nop", 0)]
Pointer(a)        == <<Word("data", a), Word("data", 0)>>
Contents(a, n)    == [x \in 1 .. n |-> Word("contents", a + x - 1)]
Ldr17(imm)        == Word("ldr17", imm)     \* LDR X17, #imm
Br17              == Word("br17", 0)        \* BR X17

\* Mutant of Encode: the offset is not cut to the width of the field.
EncodeUncut(kind, off) == off

\* What a field of the instruction holds after off has been stored in it.
Encode(kind, off) == ((off + Half[kind]) % (2 * Half[kind])) - Half[kind]

Abs(x) == IF x < 0 THEN -x ELSE x

-----------------------------------------------------------------------------
(* The context *)

Here == base + Len(code)                    \* *inpp
Out  == tramp + Len(copy)                   \* *outpp
Page(a) == (a \div PageWords) * PageWords

InRange(a) == a \in base .. base + count - 1      \* is_in_fixing_range
Index(a)   == a - base                            \* get_ref_ins_index

\* absolute_addr.  Only the offset of B and BL is sign-extended; that of a
\* conditional branch is taken as unsigned, and those of the others become
\* unsigned 32-bit values before they are added to a 64-bit address.
Target(i) ==
    CASE i.kind \in Branches           -> Here + i.off
      [] i.kind \in Tests              -> Here + (i.off % (2 * Half[i.kind]))
      [] i.kind \in Loads \cup {"adr"} -> Here + (i.off % Wrap)
      [] i.kind = "adrp"               -> Page(Here) + ((i.off * PageWords) % Wrap)

\* The limit the code has for a direct encoding of Target(i) at Out; for ADR
\* it compares bytes.
OutOfReach(i) ==
    LET rel == Target(i) - Out IN
    IF i.kind = "adr" THEN Abs(4 * rel + i.lsb) > 8 * CondHalf - 1
    ELSE IF i.kind \in Loads THEN Abs(rel) + 4 * (Size[i.kind] - 1) > 2 * CondHalf - 1
    ELSE Abs(rel) > 2 * Half[i.kind] - 1

\* Mutant of Emit: process_fix_map is not called.
EmitUnfixed(i, pads, words, waits) ==
    LET k == Len(code) IN
    /\ code' = Append(code, i)
    /\ ins' = [ins EXCEPT ![k] = Out + pads]
    /\ ends' = [ends EXCEPT ![k] = Out + pads + Len(words)]
    /\ copy' = copy \o Nops(pads) \o words
    /\ fmap' = [x \in Indices |-> IF x \in waits THEN fmap[x] \cup {Out} ELSE fmap[x]]
    /\ UNCHANGED <<input, tail, fault>>

\* What every case ends with: pads NOPs and then words are written,
\* instruction k's copy is where the words start, the last word waits for the
\* copies of the instructions in waits, and process_fix_map(k) completes the
\* words that waited for k.
Emit(i, pads, words, waits) ==
    LET k   == Len(code)
        at  == Out + pads
        all == copy \o Nops(pads) \o words
    IN  /\ code' = Append(code, i)
        /\ ins' = [ins EXCEPT ![k] = at]
        /\ ends' = [ends EXCEPT ![k] = at + Len(words)]
        /\ copy' = [x \in DOMAIN all |->
                      LET bp == tramp + x - 1 IN
                      IF bp \in fmap[k]
                        THEN [all[x] EXCEPT !.imm = Encode(all[x].op, at - bp)]
                        ELSE all[x]]
        /\ fmap' = [x \in Indices |-> IF x = k THEN {}
                                      ELSE IF x \in waits THEN fmap[x] \cup {at}
                                      ELSE fmap[x]]
        /\ UNCHANGED <<input, tail, fault>>

\* One of the two lowest bits of an ADR's offset is not among the bits high of its
\* register, into which the code writes both.
Spills(i) == \E bit \in {1, 2} : (i.lsb \div bit) % 2 > (i.high \div bit) % 2

\* The direct encoding of a branch or an ADR.  The two bits below ADR's upper
\* field are those of its register; they are kept, and the two lowest bits of
\* the offset are combined with them.
Direct(i) ==
    LET ref   == Index(Target(i))
        later == InRange(Target(i)) /\ ref > Len(code)
        rel   == IF ~InRange(Target(i)) THEN Target(i) - Out
                 ELSE IF ref < Len(code) THEN ins[ref] - Out ELSE 0
        word  == [op |-> i.kind, imm |-> Encode(i.kind, rel),
                  stray |-> i.kind = "adr" /\ Spills(i) /\ ~InRange(Target(i))]
    IN  Emit(i, 0, <<word>>, IF later THEN {ref} ELSE {})

-----------------------------------------------------------------------------
(* The cases of the loop, for an instruction i *)

\* __fix_branch_imm
FixBranch(i) ==
    /\ i.kind \in Branches
    /\ \/ /\ InRange(Target(i)) \/ ~OutOfReach(i)
          /\ Direct(i)
       \/ /\ ~InRange(Target(i)) /\ OutOfReach(i)
          /\ IF i.kind = "b"
               THEN Emit(i, (Out + 1) % 2, <<Ldr17(2), Br17>> \o Pointer(Target(i)), {})
               ELSE Emit(i, Out % 2, <<Ldr17(3), Word("adr30", 4), Br17>>
                                     \o Pointer(Target(i)), {})

\* Mutant of FixTest: the branch over the literal counts from its end.
FixTestShort(i) ==
    /\ i.kind \in Tests
    /\ ~InRange(Target(i)) /\ OutOfReach(i)
    /\ Emit(i, Out % 2, <<Word(i.kind, 2), Word("b", 4), Ldr17(2), Br17>>
                        \o Pointer(Target(i)), {})

\* __fix_cond_comp_test_branch
FixTest(i) ==
    /\ i.kind \in Tests
    /\ \/ /\ InRange(Target(i)) \/ ~OutOfReach(i)
          /\ Direct(i)
       \/ /\ ~InRange(Target(i)) /\ OutOfReach(i)
          /\ Emit(i, Out % 2, <<Word(i.kind, 2), Word("b", 5), Ldr17(2), Br17>>
                              \o Pointer(Target(i)), {})

\* NOPs until address a + pads is a multiple of n.
Padding(a, n) == (-a) % n

\* The data that an instruction refers to, as the code computes it, can be read.
Reads(i) == {Target(i) + x : x \in 0 .. Size[i.kind] - 1} \subseteq Mapped

\* __fix_loadlit, but for PRFM: the data are copied, or the offset is adjusted
\* after NOPs have made it a multiple of their size.  The bits of a negative
\* offset above its field go into the bits that tell the loads apart.
FixLoad(i) ==
    /\ i.kind \in Loads
    /\ LET n == Size[i.kind] IN
       \/ /\ InRange(Target(i)) \/ OutOfReach(i)
          /\ Reads(i)
          /\ Emit(i, Padding(Out + 2, n), <<Word(i.kind, 2), Word("b", 1 + n)>>
                                          \o Contents(Target(i), n), {})
       \/ /\ ~InRange(Target(i)) /\ ~OutOfReach(i)
          /\ LET pads == (Target(i) - Out) % n
                 rel  == Target(i) - Out - pads
             IN  Emit(i, pads, <<[op |-> i.kind, imm |-> Encode(i.kind, rel),
                                  stray |-> rel < 0 /\ i.kind \in {"ldrw", "ldrd", "ldrq"}]>>,
                      {})

\* __fix_loadlit copies data from an address at which there is nothing: the process
\* crashes.
FixLoadCrash(i) ==
    /\ i.kind \in Loads
    /\ InRange(Target(i)) \/ OutOfReach(i)
    /\ ~Reads(i)
    /\ fault' = i
    /\ UNCHANGED <<input, code, copy, ins, ends, fmap, tail>>

\* __fix_loadlit of a prefetch, which is left out of the copy.
FixPrefetch(i) ==
    /\ i.kind = "prfm"
    /\ Emit(i, 0, <<>>, {})

\* __fix_pcreladdr, ADR
FixAdr(i) ==
    /\ i.kind = "adr"
    /\ \/ /\ InRange(Target(i)) \/ ~OutOfReach(i)
          /\ Direct(i)
       \/ /\ ~InRange(Target(i)) /\ OutOfReach(i)
          /\ Emit(i, Out % 2, <<Word("ldrx", 2), Word("b", 3)>> \o Pointer(Target(i)), {})

\* __fix_pcreladdr, ADRP: a page inside the prologue leaves it as it is.
FixAdrp(i) ==
    /\ i.kind = "adrp"
    /\ \/ /\ InRange(Target(i))
          /\ Emit(i, 0, <<Word("adrp", i.off)>>, {})
       \/ /\ ~InRange(Target(i))
          /\ Emit(i, Out % 2, <<Word("ldrx", 2), Word("b", 3)>> \o Pointer(Target(i)), {})

\* An instruction that no case of the loop changes.
FixPlain == Emit(Plain, 0, <<Word("plain", Len(code))>>, {})

Relative == Cardinality({x \in DOMAIN code : code[x].kind # "plain"})

\* One round of the loop.
Fix == /\ Len(code) < count /\ fault = Plain
       /\ \/ FixPlain
          \/ /\ Relative < Families[family].most
             /\ \E i \in Families[family].instrs :
                   \/ FixBranch(i) \/ FixTest(i) \/ FixLoad(i)
                   \/ FixPrefetch(i) \/ FixAdr(i) \/ FixAdrp(i)

\* A round in which the process crashes.
FixCrash == /\ Len(code) < count /\ fault = Plain
            /\ Relative < Families[family].most
            /\ \E i \in Families[family].instrs : FixLoadCrash(i)

\* The jump back behind the instructions copied.
JumpBack ==
    /\ Len(code) = count /\ tail = 0
    /\ tail' = Out
    /\ LET rel == Here - Out IN
       copy' = copy \o (IF Abs(rel) > 2 * BranchHalf - 1
                          THEN Nops(Out % 2) \o <<Ldr17(2), Br17>> \o Pointer(Here)
                          ELSE <<Word("b", Encode("b", rel))>>)
    /\ UNCHANGED <<input, code, ins, ends, fmap, fault>>

Next == Fix \/ FixCrash \/ JumpBack

Spec == Init /\ [][Next]_vars

-----------------------------------------------------------------------------
(* What the words of the copy do *)

Placed == 0 .. Len(code) - 1
Done   == tail # 0

InCopy(a) == a \in tramp .. tramp + Len(copy) - 1
At(a)     == copy[a - tramp + 1]

\* The first word at or behind a that is not a NOP.
Settle(a) ==
    IF ~InCopy(a) THEN a
    ELSE CHOOSE b \in a .. tramp + Len(copy) :
            /\ b = tramp + Len(copy) \/ At(b).op # "nop"
            /\ \A x \in a .. b - 1 : At(x).op = "nop"

\* Where control goes that reaches a: LDR X17, [ADR X30,] BR X17 and the
\* literal take it to the address in the literal, and -1 if they are not
\* together as they should be.
Land(a) ==
    LET s == Settle(a) IN
    IF ~(InCopy(s) /\ At(s).op = "ldr17") THEN s
    ELSE LET br  == IF At(s + 1).op = "adr30" THEN s + 2 ELSE s + 1
             lit == s + At(s).imm
         IN  IF At(br).op = "br17" /\ At(lit).op = "data" THEN At(lit).imm ELSE -1

\* What instruction k refers to, and where its copy must refer to.
Meant(k) == LET i == code[k + 1] IN
            IF i.kind = "adrp" THEN Page(base + k) + i.off * PageWords
                               ELSE base + k + i.off
Image(t) == IF InRange(t) THEN ins[Index(t)] ELSE t

\* The copy of instruction k does what the instruction does, whatever the program has
\* stored since in the data it may change.
KeepsMeaning(k) ==
    LET i == code[k + 1]
        a == ins[k]
        w == At(a)
        t == Meant(k)
        into == Land(a + w.imm)
    IN  CASE i.kind \in Branches ->
               (IF w.op = "ldr17" THEN Land(a) ELSE into) = Land(Image(t))
          [] i.kind \in Tests -> w.op = i.kind /\ into = Land(Image(t))
          [] i.kind \in Loads ->
               /\ w.op = i.kind /\ ~w.stray
               /\ IF InCopy(a + w.imm)
                    THEN \A x \in 0 .. Size[i.kind] - 1 :
                            /\ At(a + w.imm + x) = Word("contents", t + x)
                            /\ t + x \notin Writable
                    ELSE a + w.imm = t
          [] i.kind = "adr" ->
               /\ ~w.stray
               /\ IF w.op = "adr" THEN a + w.imm = Image(t)
                                  ELSE At(a + w.imm) = Word("data", t)
          [] i.kind = "adrp" -> w.op = "ldrx" /\ At(a + w.imm) = Word("data", t)
          [] i.kind = "plain" -> w = Word("plain", k)
          [] i.kind = "prfm" -> TRUE

\* The copy is one word.
Short(k) == ends[k] = ins[k] + 1

\* The five ways in which it does not.  The offset was negative and not
\* sign-extended, which a field of the same width puts right, ...
Unsigned(k) == /\ code[k + 1].kind \notin Branches \cup {"plain", "prfm"}
               /\ code[k + 1].off < 0
               /\ code[k + 1].kind \in Tests => ~Short(k) \/ InRange(Meant(k))
\* ... the copy is a direct reference for which the field has not enough bits, ...
TooFar(k) == /\ code[k + 1].kind \in DOMAIN Half \ {"adrp"}
             /\ Short(k) /\ ~InRange(Meant(k))
             /\ ~HasRoom(code[k + 1].kind, Meant(k) - ins[k])
\* ... bits of the offset have changed what is outside the field, ...
Stray(k) == code[k + 1].kind \in Loads \cup {"adr"} /\ At(ins[k]).stray
\* ... an ADRP was left alone because its page begins in the prologue, ...
SamePage(k) == code[k + 1].kind = "adrp" /\ InRange(Meant(k))
\* ... or data that may change later were copied when the hook was set.
Snapshot(k) == /\ code[k + 1].kind \in Loads /\ ~Short(k)
               /\ \E x \in 0 .. Size[code[k + 1].kind] - 1 : Meant(k) + x \in Writable

Flawed(k) == Unsigned(k) \/ TooFar(k) \/ Stray(k) \/ SamePage(k) \/ Snapshot(k)

\* How a copy may do it all the same: its field leads into the trampoline itself,
\* where another copy or the jump back takes it on, or the instruction that it refers
\* back to is a branch out of the trampoline, to where the offset without its sign leads.
ByChance(k) ==
    \/ Short(k) /\ InCopy(ins[k] + At(ins[k]).imm)
    \/ /\ code[k + 1].kind \in Tests /\ InRange(Meant(k))
       /\ ~InCopy(Land(Image(Meant(k))))

-----------------------------------------------------------------------------
Ops == Kinds \cup {"nop", "data", "contents", "ldr17", "br17", "adr30"}

\* Type invariant of the context and of the copy: a field never holds more
\* than its bits, and a word waits only for an instruction that is still to
\* come (And64InlineHook.cpp:52-111, 428-450).
TypeOK ==
    /\ family \in DOMAIN Families
    /\ base \in Bases /\ tramp \in Families[family].tramps
    /\ count \in {1, 4, 5}
    /\ code \in Seq(Families[family].instrs \cup {Plain}) /\ Len(code) <= count
    /\ copy \in Seq([op : Ops, imm : Int, stray : BOOLEAN])
    /\ \A x \in DOMAIN copy :
          copy[x].op \in DOMAIN Half => HasRoom(copy[x].op, copy[x].imm)
    /\ ins \in [Indices -> Nat] /\ ends \in [Indices -> Nat]
    /\ \A k \in Indices : fmap[k] # {} => k \in Len(code) .. count - 1
    /\ tail \in Nat
    /\ fault \in Families[family].instrs \cup {Plain}

\* Once the trampoline is complete, every instruction's copy means what the
\* instruction means: it branches to the copy of an instruction of the prologue, however
\* far NOPs and literals have moved it and whether it was copied before or
\* after, or to the same address outside, and it loads the same data or
\* address; with exactly the exceptions that Flawed lists, unless one of those gets
\* there by chance.  And only at a load with a negative offset can the copying crash.
\* Nothing refers to the trampoline before it is written
\* (And64InlineHook.cpp:115-424).
MeaningKept ==
    /\ Done => \A k \in Placed :
          ~InCopy(Meant(k)) =>
              /\ ~Flawed(k) => KeepsMeaning(k)
              /\ (Flawed(k) /\ KeepsMeaning(k)) => ByChance(k)
    /\ fault # Plain => fault.off < 0

\* What a copy does not branch away from, it leaves behind its last word,
\* where the next instruction's copy starts: the branches over the literals and
\* the return address of a call made through a literal have the right length, and the
\* jump back leads behind the last instruction copied, unless that is too far
\* (And64InlineHook.cpp:153, 221, 307, 362, 411, 452-467).
FallsThrough ==
    Done =>
      /\ \A k \in Placed :
            LET a == ins[k] IN
            (ends[k] > a + 1 /\ code[k + 1].kind # "b") =>
               /\ At(a + 1).op \in {"b", "adr30"}
               /\ a + 1 + At(a + 1).imm = ends[k]
      /\ LET s == Settle(tail) IN
         \/ Land(IF At(s).op = "b" THEN s + At(s).imm ELSE s) = base + count
         \/ At(s).op = "b" /\ ~HasRoom("b", base + count - s)

\* The longest copy, with all its NOPs and the jump back, ends before the next
\* row of the pool begins (And64InlineHook.cpp:494-495).
CopyFitsRow == Len(copy) <= RowWords

-----------------------------------------------------------------------------
(* What a comment of the code says *)

\* "the bottom 12 bits of absolute_addr are masked out, so ref_idx must be
\* less than or equal to current_idx!" (And64InlineHook.cpp:395-396).
AdrpRefersBack ==
    \A k \in Placed : SamePage(k) => Index(Meant(k)) <= k
=============================================================================
