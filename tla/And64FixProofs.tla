--------------------------- MODULE And64FixProofs ---------------------------
(***************************************************************************)
(* Proofs about And64Fix, for instruction fields of any width, prologues   *)
(* of any mix of instructions, and functions and trampolines anywhere: the *)
(* copy is well formed, it fits its row of the pool, what it does not      *)
(* branch away from it leaves behind its last word, and it means what the  *)
(* prologue means where the code has none of its flaws, and only there,    *)
(* but for chance.                                                         *)
(***************************************************************************)
EXTENDS And64Fix, SequenceTheorems, TLAPS

USE WidthAssumption

-----------------------------------------------------------------------------
(* The invariant *)

Instrs == [kind : Kinds, off : Int, lsb : 0 .. 3, high : 0 .. 3]

\* The words whose fields hold what they can.
Words == {w \in [op : Ops, imm : Int, stray : BOOLEAN] :
             w.op \in DOMAIN Half => HasRoom(w.op, w.imm)}

\* What the loop is given, and the types of what it writes.
ContextInv ==
    /\ family \in DOMAIN Families
    /\ base \in Bases
    /\ tramp \in Families[family].tramps
    /\ base + count \notin tramp .. tramp + RowWords - 1
    /\ count \in {1, 4, 5}
    /\ code \in Seq(Families[family].instrs \cup {Plain}) /\ Len(code) <= count
    /\ copy \in Seq(Words)
    /\ ins \in [Indices -> Nat] /\ ends \in [Indices -> Nat]
    /\ fmap \in [Indices -> SUBSET Int]
    /\ tail \in Nat

\* No instruction takes more than nine words, nor the jump back more than five
\* (And64InlineHook.cpp:115-424, 452-467).
RoomInv == Len(copy) <= 9 * Len(code) + (IF Done THEN 5 ELSE 0)

\* The copies follow each other.
SpanInv ==
    /\ \A k \in Placed : tramp <= ins[k] /\ ins[k] <= ends[k] /\ ends[k] <= Out
    /\ \A j, k \in Placed : j < k => ends[j] <= ins[k]

\* The words that wait for the address of a copy are copies of one word, with
\* a field, and the instruction they wait for is still to come.
WaitInv ==
    \A k \in Indices : \A bp \in fmap[k] :
        /\ k \in Len(code) .. count - 1
        /\ \E j \in Placed : /\ bp = ins[j] /\ ends[j] = ins[j] + 1
                             /\ At(bp).op \in DOMAIN Half

\* Copies of several words, but for B's, lead behind themselves.
BehindInv ==
    \A k \in Placed :
        (ends[k] > ins[k] + 1 /\ code[k + 1].kind # "b") =>
            /\ At(ins[k] + 1).op \in {"b", "adr30"}
            /\ ins[k] + 1 + At(ins[k] + 1).imm = ends[k]

\* The jump back, in one word ...
NearTail ==
    LET rel == base + count - tail IN
    /\ tail = Out - 1 /\ tail >= tramp
    /\ Abs(rel) <= 2 * BranchHalf - 1
    /\ At(tail) = Word("b", Encode("b", rel))

\* ... or through a literal.
FarTail ==
    LET s == Out - 4 IN
    /\ tail = s \/ (tail = s - 1 /\ At(tail).op = "nop")
    /\ tail >= tramp
    /\ At(s) = Ldr17(2) /\ At(s + 1) = Br17
    /\ At(s + 2) = Word("data", base + count)

TailInv == Done => Len(code) = count /\ (NearTail \/ FarTail)

FixInv == ContextInv /\ RoomInv /\ SpanInv /\ WaitInv /\ BehindInv /\ TailInv

-----------------------------------------------------------------------------
(* Fields and words *)

\* A field holds what its bits hold.
LEMMA EncodeFits ==
    ASSUME NEW kind \in DOMAIN Half, NEW off \in Int
    PROVE  HasRoom(kind, Encode(kind, off)) /\ Encode(kind, off) \in Int
  <1>1. Half[kind] \in Nat \ {0}
    BY DEF Half, RowWords, A64_MAX_INSTRUCTIONS
  <1> DEFINE h == Half[kind]
  <1> HIDE DEF h
  <1>2. (off + h) % (2 * h) \in 0 .. 2 * h - 1
    BY <1>1 DEF h
  <1> QED
    BY <1>1, <1>2 DEF HasRoom, Encode, h

\* ... and all of what they have room for.
LEMMA EncodeExact ==
    ASSUME NEW kind \in DOMAIN Half, NEW off \in Int, HasRoom(kind, off)
    PROVE  Encode(kind, off) = off
  <1> DEFINE h == Half[kind]
  <1>1. h \in Nat \ {0} /\ off \in -h .. h - 1
    BY DEF Half, RowWords, A64_MAX_INSTRUCTIONS, HasRoom
  <1> HIDE DEF h
  <1>2. ((off + h) % (2 * h)) - h = off
    BY <1>1
  <1> QED
    BY <1>2 DEF Encode, h

LEMMA WordType ==
    ASSUME NEW op \in Ops, NEW imm \in Int, op \in DOMAIN Half => HasRoom(op, imm)
    PROVE  Word(op, imm) \in Words
  BY DEF Word, Words

\* The offsets within a copy are small.
LEMMA SmallType ==
    ASSUME NEW op \in Ops, NEW imm \in 0 .. RowWords
    PROVE  Word(op, imm) \in Words
  <1>1. op \in DOMAIN Half => Half[op] > RowWords /\ Half[op] \in Nat
    BY DEF Half, RowWords, A64_MAX_INSTRUCTIONS
  <1>2. op \in DOMAIN Half => HasRoom(op, imm)
    BY <1>1 DEF HasRoom, RowWords, A64_MAX_INSTRUCTIONS
  <1> QED
    BY <1>2, WordType DEF RowWords, A64_MAX_INSTRUCTIONS

LEMMA NopsType ==
    ASSUME NEW n \in Nat
    PROVE  /\ Nops(n) \in Seq(Words) /\ Len(Nops(n)) = n
           /\ \A x \in 1 .. n : Nops(n)[x].op = "nop"
  <1>1. Word("nop", 0) \in Words
    BY SmallType DEF Ops, RowWords, A64_MAX_INSTRUCTIONS
  <1>2. Nops(n) \in [1 .. n -> Words]
    BY <1>1 DEF Nops
  <1>3. Nops(n) \in Seq(Words)
    BY <1>2, SeqDef
  <1>4. Len(Nops(n)) = n
    BY <1>2, <1>3, LenProperties
  <1> QED
    BY <1>3, <1>4 DEF Nops, Word

\* Three sequences, one behind the other.
Joins(all, r, s, t) ==
    /\ Len(all) = Len(r) + Len(s) + Len(t)
    /\ \A x \in 1 .. Len(r) : all[x] = r[x]
    /\ \A x \in 1 .. Len(s) : all[Len(r) + x] = s[x]
    /\ \A x \in 1 .. Len(t) : all[Len(r) + Len(s) + x] = t[x]

LEMMA Joined ==
    ASSUME NEW S, NEW r \in Seq(S), NEW s \in Seq(S), NEW t \in Seq(S)
    PROVE  r \o s \o t \in Seq(S) /\ Joins(r \o s \o t, r, s, t)
  <1>1. Len(r) \in Nat /\ Len(s) \in Nat /\ Len(t) \in Nat
    BY LenProperties
  <1>2. /\ r \o s \in Seq(S) /\ Len(r \o s) = Len(r) + Len(s)
        /\ \A x \in 1 .. Len(r) + Len(s) :
              (r \o s)[x] = IF x <= Len(r) THEN r[x] ELSE s[x - Len(r)]
    BY ConcatProperties
  <1> DEFINE rs == r \o s
  <1> HIDE DEF rs
  <1>3. /\ rs \o t \in Seq(S) /\ Len(rs \o t) = Len(rs) + Len(t)
        /\ \A x \in 1 .. Len(rs) + Len(t) :
              (rs \o t)[x] = IF x <= Len(rs) THEN rs[x] ELSE t[x - Len(rs)]
    BY <1>2, ConcatProperties DEF rs
  <1>4. \A x \in 1 .. Len(r) : (rs \o t)[x] = r[x]
    BY <1>1, <1>2, <1>3 DEF rs
  <1>5. \A x \in 1 .. Len(s) : (rs \o t)[Len(r) + x] = s[x]
    <2> SUFFICES ASSUME NEW x \in 1 .. Len(s)
                 PROVE  (rs \o t)[Len(r) + x] = s[x]
      OBVIOUS
    <2>1. Len(r) + x \in 1 .. Len(rs) /\ ~(Len(r) + x <= Len(r)) /\ (Len(r) + x) - Len(r) = x
      BY <1>1, <1>2 DEF rs
    <2> QED
      BY <1>1, <1>2, <1>3, <2>1 DEF rs
  <1>6. \A x \in 1 .. Len(t) : (rs \o t)[Len(r) + Len(s) + x] = t[x]
    <2> SUFFICES ASSUME NEW x \in 1 .. Len(t)
                 PROVE  (rs \o t)[Len(rs) + x] = t[x]
      BY <1>2 DEF rs
    <2>1. /\ Len(rs) \in Nat
          /\ Len(rs) + x \in 1 .. Len(rs) + Len(t) /\ ~(Len(rs) + x <= Len(rs))
          /\ (Len(rs) + x) - Len(rs) = x
      BY <1>1, <1>2 DEF rs
    <2> QED
      BY <1>3, <2>1
  <1>7. rs \o t = r \o s \o t
    BY DEF rs
  <1>8. Len(rs \o t) = Len(r) + Len(s) + Len(t)
    BY <1>1, <1>2, <1>3 DEF rs
  <1> DEFINE all == rs \o t
  <1> HIDE DEF all
  <1>9. Joins(all, r, s, t)
    BY <1>4, <1>5, <1>6, <1>8 DEF Joins, all
  <1> QED
    BY <1>3, <1>7, <1>9, Zenon DEF all

\* NOPs between two sequences.
Pads(all, r, n, t) ==
    /\ Len(all) = Len(r) + n + Len(t)
    /\ \A x \in 1 .. Len(r) : all[x] = r[x]
    /\ \A x \in 1 .. n : all[Len(r) + x].op = "nop"
    /\ \A x \in 1 .. Len(t) : all[Len(r) + n + x] = t[x]

LEMMA Padded ==
    ASSUME NEW r \in Seq(Words), NEW n \in Nat, NEW t \in Seq(Words)
    PROVE  r \o Nops(n) \o t \in Seq(Words) /\ Pads(r \o Nops(n) \o t, r, n, t)
  <1>1. PICK s \in Seq(Words) : s = Nops(n) /\ Len(s) = n /\ \A x \in 1 .. n : s[x].op = "nop"
    BY NopsType
  <1>2. PICK all \in Seq(Words) : all = r \o s \o t /\ Joins(all, r, s, t)
    BY Joined, Zenon
  <1>3. Pads(all, r, n, t)
    BY <1>1, <1>2 DEF Joins, Pads
  <1> QED
    BY <1>1, <1>2, <1>3, Zenon

-----------------------------------------------------------------------------
(* One instruction's copy *)

\* The context while instructions are copied: the numbers are numbers.
LEMMA ContextTypes ==
    ASSUME ContextInv
    PROVE  /\ base \in Nat /\ tramp \in Nat \ {0} /\ count \in 1 .. 5
           /\ Len(code) \in 0 .. count /\ Len(copy) \in Nat
           /\ Here \in Nat /\ Out \in Nat /\ Out = tramp + Len(copy) /\ Out >= tramp
           /\ code \in Seq(Instrs) /\ \A x \in 1 .. Len(code) : code[x] \in Instrs
           /\ \A x \in 1 .. Len(copy) : copy[x] \in Words
           /\ DOMAIN copy = 1 .. Len(copy) /\ Placed = 0 .. Len(code) - 1
  <1>1. base \in Nat /\ tramp \in Nat \ {0} /\ Families[family].instrs \subseteq Instrs
    BY InputAssumption DEF ContextInv, Instrs
  <1>2. Plain \in Instrs
    BY DEF Plain, Instrs, Kinds
  <1>3. code \in Seq(Instrs)
    BY <1>1, <1>2, SeqMonotonic DEF ContextInv
  <1>4. Len(code) \in Nat /\ \A x \in 1 .. Len(code) : code[x] \in Instrs
    BY <1>3, LenProperties, ElementOfSeq
  <1>5. Len(copy) \in Nat /\ DOMAIN copy = 1 .. Len(copy)
    BY LenProperties DEF ContextInv
  <1>6. \A x \in 1 .. Len(copy) : copy[x] \in Words
    BY ElementOfSeq DEF ContextInv
  <1>7. count \in 1 .. 5 /\ Len(code) \in 0 .. count
    BY <1>4 DEF ContextInv
  <1> QED
    BY <1>1, <1>3, <1>4, <1>5, <1>6, <1>7 DEF Here, Out, Placed

\* What a case of the loop sees to: room, and a single word with a field
\* where an address is still to come, and a way behind the literals.
Shape(i, pads, words, waits) ==
    /\ Len(code) < count
    /\ i \in Families[family].instrs \cup {Plain}
    /\ pads \in Nat /\ words \in Seq(Words) /\ waits \subseteq Len(code) + 1 .. count - 1
    /\ pads + Len(words) <= 9
    /\ waits # {} => pads = 0 /\ Len(words) = 1 /\ words[1].op \in DOMAIN Half
    /\ (Len(words) > 1 /\ i.kind # "b") =>
          words[2].op \in {"b", "adr30"} /\ 1 + words[2].imm = Len(words)

\* What Emit writes: the words so far, with the fields that waited filled, and
\* the new ones behind them.
LEMMA EmitWords ==
    ASSUME ContextInv, WaitInv, SpanInv, NEW i, NEW pads, NEW words, NEW waits,
           Shape(i, pads, words, waits), Emit(i, pads, words, waits)
    PROVE  /\ copy' \in Seq(Words) /\ Len(copy') = Len(copy) + pads + Len(words)
           /\ \A a \in tramp .. Out - 1 : At(a)'.op = At(a).op
           /\ \A a \in tramp .. Out - 1 : a \notin fmap[Len(code)] => At(a)' = At(a)
           /\ \A a \in tramp .. Out - 1 : a \in fmap[Len(code)] =>
                 At(a)'.imm = Encode(At(a).op, Out + pads - a)
           /\ \A x \in 1 .. Len(words) : copy'[Len(copy) + pads + x] = words[x]
  <1> DEFINE k   == Len(code)
             at  == Out + pads
             all == copy \o Nops(pads) \o words
             new == [x \in DOMAIN all |->
                       IF tramp + x - 1 \in fmap[k]
                         THEN [all[x] EXCEPT !.imm = Encode(all[x].op, at - (tramp + x - 1))]
                         ELSE all[x]]
  <1>1. /\ copy' = new /\ tramp' = tramp
    BY DEF Emit, input
  <1> HIDE DEF new, all, at
  <1>2. /\ copy \in Seq(Words) /\ pads \in Nat /\ words \in Seq(Words)
        /\ Len(copy) \in Nat /\ Len(words) \in Nat /\ tramp \in Nat /\ Out = tramp + Len(copy)
        /\ k \in Indices
    <2>1. /\ copy \in Seq(Words) /\ pads \in Nat /\ words \in Seq(Words)
      BY DEF Shape, ContextInv
    <2>2. Len(words) \in Nat
      BY <2>1, LenProperties
    <2>3. /\ Len(copy) \in Nat /\ tramp \in Nat /\ Out = tramp + Len(copy)
          /\ k \in 0 .. count /\ k < count /\ count \in 1 .. 5
      BY ContextTypes DEF Shape
    <2> HIDE DEF k
    <2>4. k \in Indices
      BY <2>3 DEF Indices, A64_MAX_INSTRUCTIONS
    <2> QED
      BY <2>1, <2>2, <2>3, <2>4
  <1>3. /\ all \in Seq(Words) /\ Len(all) = Len(copy) + pads + Len(words)
        /\ \A x \in 1 .. Len(copy) : all[x] = copy[x]
        /\ \A x \in 1 .. Len(words) : all[Len(copy) + pads + x] = words[x]
    <2>1. all \in Seq(Words) /\ Pads(all, copy, pads, words)
      BY <1>2, Padded, Zenon DEF all
    <2> QED
      BY <2>1 DEF Pads
  <1>4. DOMAIN all = 1 .. Len(all) /\ \A x \in 1 .. Len(all) : all[x] \in Words
    BY <1>3, LenProperties, ElementOfSeq
  <1>5. \A bp \in fmap[k] : /\ bp \in tramp .. Out - 1
                            /\ copy[bp - tramp + 1].op \in DOMAIN Half
    <2> SUFFICES ASSUME NEW bp \in fmap[k]
                 PROVE  bp \in tramp .. Out - 1 /\ copy[bp - tramp + 1].op \in DOMAIN Half
      OBVIOUS
    <2>1. PICK j \in Placed : bp = ins[j] /\ ends[j] = ins[j] + 1 /\ At(bp).op \in DOMAIN Half
      BY <1>2 DEF WaitInv
    <2>2. j \in Indices
      BY ContextTypes DEF Indices, Placed, A64_MAX_INSTRUCTIONS
    <2>3. ins[j] \in Nat /\ ends[j] \in Nat
      BY <2>2 DEF ContextInv
    <2>4. PICK o : o = Out /\ o \in Nat
      BY <1>2
    <2>5. tramp <= ins[j] /\ ends[j] <= o
      BY <2>1, <2>4 DEF SpanInv
    <2>6. tramp \in Nat
      BY <1>2, Zenon
    <2>7. bp \in tramp .. o - 1
      BY ONLY <2>1, <2>3, <2>4, <2>5, <2>6
    <2>8. copy[bp - tramp + 1].op \in DOMAIN Half
      BY <2>1, Zenon DEF At
    <2> QED
      BY <2>4, <2>7, <2>8, Zenon
  <1>6. \A x \in 1 .. Len(all) : new[x] \in Words /\ new[x].op = all[x].op
    <2> SUFFICES ASSUME NEW x \in 1 .. Len(all)
                 PROVE  new[x] \in Words /\ new[x].op = all[x].op
      OBVIOUS
    <2>1. CASE tramp + x - 1 \notin fmap[k]
      BY <1>4, <2>1 DEF new
    <2>2. CASE tramp + x - 1 \in fmap[k]
      <3> DEFINE w   == all[x]
                 off == at - (tramp + x - 1)
      <3>1. w.op \in DOMAIN Half
        <4>1. /\ tramp + x - 1 \in tramp .. Out - 1
              /\ copy[(tramp + x - 1) - tramp + 1].op \in DOMAIN Half
          BY <1>5, <2>2
        <4>2. x \in 1 .. Len(copy) /\ (tramp + x - 1) - tramp + 1 = x
          BY <1>2, <1>3, <4>1
        <4> QED
          BY <1>3, <4>1, <4>2
      <3>2. off \in Int
        BY <1>2 DEF at
      <3>3. HasRoom(w.op, Encode(w.op, off)) /\ Encode(w.op, off) \in Int
        BY <3>1, <3>2, EncodeFits
      <3>4. w \in [op : Ops, imm : Int, stray : BOOLEAN]
        BY <1>4 DEF Words
      <3>5. new[x] = [w EXCEPT !.imm = Encode(w.op, off)]
        BY <1>4, <2>2 DEF new
      <3> HIDE DEF w, off
      <3> QED
        BY <3>3, <3>4, <3>5 DEF Words, w
    <2> QED
      BY <2>1, <2>2
  <1>7. DOMAIN new = 1 .. Len(all)
    BY <1>4 DEF new
  <1>8. /\ \A x \in 1 .. Len(all) : tramp + x - 1 \notin fmap[k] => new[x] = all[x]
        /\ \A x \in 1 .. Len(all) : tramp + x - 1 \in fmap[k] =>
              new[x].imm = Encode(all[x].op, at - (tramp + x - 1))
    <2>1. \A x \in 1 .. Len(all) : tramp + x - 1 \notin fmap[k] => new[x] = all[x]
      BY <1>4 DEF new
    <2>2. ASSUME NEW x \in 1 .. Len(all), tramp + x - 1 \in fmap[k]
          PROVE  new[x].imm = Encode(all[x].op, at - (tramp + x - 1))
      <3>1. new[x] = [all[x] EXCEPT !.imm = Encode(all[x].op, at - (tramp + x - 1))]
        BY <1>4, <2>2 DEF new
      <3>2. all[x] \in [op : Ops, imm : Int, stray : BOOLEAN]
        BY <1>4 DEF Words
      <3> QED
        BY <3>1, <3>2
    <2> QED
      BY <2>1, <2>2
  <1>9. new \in Seq(Words) /\ Len(new) = Len(all)
    <2>1. new = [x \in 1 .. Len(all) |-> new[x]]
      BY <1>4 DEF new
    <2>2. new \in [1 .. Len(all) -> Words] /\ Len(all) \in Nat
      BY <1>2, <1>3, <1>6, <2>1
    <2>3. new \in Seq(Words)
      BY <2>2, SeqDef
    <2>4. Len(new) \in Nat /\ DOMAIN new = 1 .. Len(new)
      BY <2>3, LenProperties
    <2> QED
      BY <1>7, <2>2, <2>3, <2>4
  <1>10. ASSUME NEW a \in tramp .. Out - 1
         PROVE  /\ At(a)'.op = At(a).op
                /\ a \notin fmap[k] => At(a)' = At(a)
                /\ a \in fmap[k] => At(a)'.imm = Encode(At(a).op, Out + pads - a)
    <2>1. /\ a - tramp + 1 \in 1 .. Len(copy) /\ a - tramp + 1 \in 1 .. Len(all)
          /\ tramp + (a - tramp + 1) - 1 = a
      BY <1>2, <1>3
    <2>2. all[a - tramp + 1] = copy[a - tramp + 1]
      BY <1>3, <2>1
    <2>3. /\ new[a - tramp + 1].op = copy[a - tramp + 1].op
          /\ a \notin fmap[k] => new[a - tramp + 1] = copy[a - tramp + 1]
          /\ a \in fmap[k] => new[a - tramp + 1].imm = Encode(copy[a - tramp + 1].op, at - a)
      BY <1>6, <1>8, <2>1, <2>2
    <2>4. At(a) = copy[a - tramp + 1] /\ At(a)' = new[a - tramp + 1]
      BY <1>1 DEF At
    <2>5. at - a = Out + pads - a
      BY <1>2 DEF at
    <2> QED
      BY <2>3, <2>4, <2>5, Zenon
  <1>11. ASSUME NEW x \in 1 .. Len(words)
         PROVE  copy'[Len(copy) + pads + x] = words[x]
    <2> DEFINE y == Len(copy) + pads + x
    <2>1. y \in 1 .. Len(all)
      BY <1>2, <1>3
    <2>2. y > Len(copy)
      BY <1>2
    <2> HIDE DEF y
    <2>3. y \in Int
      BY <2>1
    <2>4. tramp + y - 1 \notin tramp .. Out - 1
      BY <1>2, <2>2, <2>3
    <2>5. tramp + y - 1 \notin fmap[k]
      BY <1>5, <2>4, Zenon
    <2> QED
      BY <1>1, <1>3, <1>8, <2>1, <2>5 DEF y
  <1> QED
    BY <1>1, <1>3, <1>9, <1>10, <1>11

\* Any case that sees to these keeps the invariant (And64InlineHook.cpp:52-111).
LEMMA EmitKeeps ==
    ASSUME FixInv, NEW i, NEW pads, NEW words, NEW waits,
           Shape(i, pads, words, waits), Emit(i, pads, words, waits)
    PROVE  FixInv'
  <1> DEFINE k  == Len(code)
             at == Out + pads
             n  == Len(words)
  <1>1. ContextInv /\ RoomInv /\ SpanInv /\ WaitInv /\ BehindInv /\ TailInv
    BY DEF FixInv
  <1>2. /\ code' = Append(code, i)
        /\ ins' = [ins EXCEPT ![k] = at] /\ ends' = [ends EXCEPT ![k] = at + n]
        /\ fmap' = [x \in Indices |-> IF x = k THEN {}
                                      ELSE IF x \in waits THEN fmap[x] \cup {at}
                                      ELSE fmap[x]]
        /\ UNCHANGED <<family, base, count, tramp, tail>>
    BY DEF Emit, input
  <1>3. /\ tramp \in Nat /\ count \in 1 .. 5 /\ k \in Nat /\ k < count
        /\ Len(copy) \in Nat /\ Out = tramp + Len(copy) /\ pads \in Nat
    <2>1. k \in 0 .. count
      BY <1>1, ContextTypes
    <2>2. pads \in Nat /\ k < count
      BY DEF Shape
    <2> QED
      BY <1>1, <2>1, <2>2, ContextTypes
  <1>4. n \in Nat /\ n + pads <= 9
    <2>1. words \in Seq(Words) /\ pads + n <= 9
      BY DEF Shape
    <2>2. n \in Nat
      BY <2>1, LenProperties
    <2> QED
      BY <1>3, <2>1, <2>2
  <1>5. /\ copy' \in Seq(Words) /\ Len(copy') = Len(copy) + pads + n
        /\ \A a \in tramp .. Out - 1 : At(a)'.op = At(a).op
        /\ \A a \in tramp .. Out - 1 : a \notin fmap[k] => At(a)' = At(a)
        /\ \A x \in 1 .. n : copy'[Len(copy) + pads + x] = words[x]
    BY <1>1, EmitWords
  <1>6. /\ code' \in Seq(Families[family].instrs \cup {Plain}) /\ Len(code') = k + 1
        /\ \A x \in 1 .. k : code'[x] = code[x]
        /\ code'[k + 1] = i
    <2>1. code \in Seq(Families[family].instrs \cup {Plain})
          /\ i \in Families[family].instrs \cup {Plain}
      BY <1>1 DEF ContextInv, Shape
    <2> QED
      BY <1>2, <2>1
  <1> HIDE DEF n, k, at
  <1>7. Placed = 0 .. k - 1 /\ Placed' = 0 .. k
    BY <1>3, <1>6 DEF Placed, k
  <1>8. k \in Indices /\ at \in Nat /\ Placed \subseteq Indices /\ Indices = 0 .. 4
    BY <1>3, <1>7 DEF Indices, A64_MAX_INSTRUCTIONS, at
  <1>9. /\ \A j \in Placed : ins'[j] = ins[j] /\ ends'[j] = ends[j] /\ j # k
        /\ ins'[k] = at /\ ends'[k] = at + n
    <2>1. ins \in [Indices -> Nat] /\ ends \in [Indices -> Nat]
      BY <1>1 DEF ContextInv
    <2>2. \A j \in Placed : j \in Indices /\ j # k
      BY <1>3, <1>7, <1>8
    <2>3. \A j \in Placed : ins'[j] = ins[j] /\ ends'[j] = ends[j]
      BY <1>2, <2>1, <2>2, Zenon
    <2>4. ins'[k] = at /\ ends'[k] = at + n
      BY <1>2, <1>8, <2>1, Zenon
    <2> QED
      BY <2>2, <2>3, <2>4
  <1>10. tail = 0
    BY <1>1, <1>3 DEF TailInv, Done, k
  <1>11. Out' = Out + pads + n /\ Out' \in Nat
    <2>1. Out' = tramp + Len(copy')
      BY <1>2 DEF Out
    <2> QED
      BY <1>3, <1>4, <1>5, <2>1
  <1>12. \A j \in Placed : /\ ins[j] \in Nat /\ ends[j] \in Nat
                           /\ tramp <= ins[j] /\ ins[j] <= ends[j] /\ ends[j] <= Out
    BY <1>1, <1>8 DEF ContextInv, SpanInv
  <1>13. ContextInv'
    <2>1. ins' \in [Indices -> Nat] /\ ends' \in [Indices -> Nat]
      <3>1. ins \in [Indices -> Nat] /\ ends \in [Indices -> Nat]
        BY <1>1 DEF ContextInv
      <3>2. at + n \in Nat
        BY <1>4, <1>8
      <3> QED
        BY <1>2, <1>8, <3>1, <3>2, Zenon
    <2>2. fmap' \in [Indices -> SUBSET Int]
      <3>1. fmap \in [Indices -> SUBSET Int]
        BY <1>1 DEF ContextInv
      <3>2. \A x \in Indices :
               (IF x = k THEN {} ELSE IF x \in waits THEN fmap[x] \cup {at} ELSE fmap[x])
                  \in SUBSET Int
        BY <1>8, <3>1
      <3> QED
        BY <1>2, <3>2, Zenon
    <2>3. Len(code') <= count
      BY <1>3, <1>6 DEF k
    <2> QED
      BY <1>1, <1>2, <1>5, <1>6, <2>1, <2>2, <2>3 DEF ContextInv
  <1>14. RoomInv'
    BY <1>1, <1>2, <1>3, <1>4, <1>5, <1>6, <1>10 DEF RoomInv, Done, k
  <1>15. SpanInv'
    <2>1. \A j \in Placed' : j \in Placed \/ j = k
      BY <1>3, <1>7
    <2>2. \A j \in Placed : j < k
      BY <1>3, <1>7
    <2>3. \A j \in Placed' : tramp' <= ins'[j] /\ ins'[j] <= ends'[j] /\ ends'[j] <= Out'
      <3>1. \A j \in Placed : tramp' <= ins'[j] /\ ins'[j] <= ends'[j] /\ ends'[j] <= Out'
        BY <1>2, <1>3, <1>4, <1>9, <1>11, <1>12
      <3>2. tramp' <= ins'[k] /\ ins'[k] <= ends'[k] /\ ends'[k] <= Out'
        BY <1>2, <1>3, <1>4, <1>9, <1>11 DEF at
      <3> QED
        BY <2>1, <3>1, <3>2
    <2>4. \A j, l \in Placed' : j < l => ends'[j] <= ins'[l]
      <3> SUFFICES ASSUME NEW j \in Placed', NEW l \in Placed', j < l
                   PROVE  ends'[j] <= ins'[l]
        OBVIOUS
      <3>1. j \in Placed
        BY <1>3, <1>7
      <3>2. CASE l \in Placed
        BY <1>1, <1>9, <3>1, <3>2 DEF SpanInv
      <3>3. CASE l = k
        BY <1>3, <1>9, <1>12, <3>1, <3>3 DEF at
      <3> QED
        BY <2>1, <3>2, <3>3
    <2> QED
      BY <2>3, <2>4 DEF SpanInv
  <1>16. WaitInv'
    <2> SUFFICES ASSUME NEW x \in Indices, NEW bp \in fmap'[x]
                 PROVE  /\ x \in Len(code') .. count' - 1
                        /\ \E j \in Placed' : /\ bp = ins'[j] /\ ends'[j] = ins'[j] + 1
                                              /\ At(bp)'.op \in DOMAIN Half
      BY DEF WaitInv
    <2>1. x # k /\ (bp \in fmap[x] \/ (x \in waits /\ bp = at))
      BY <1>2
    <2>2. CASE bp \in fmap[x]
      <3>1. x \in k .. count - 1
        BY <1>1, <2>2 DEF WaitInv, k
      <3>2. x \in Len(code') .. count' - 1
        BY <1>2, <1>3, <1>6, <2>1, <3>1
      <3>3. PICK j \in Placed : bp = ins[j] /\ ends[j] = ins[j] + 1 /\ At(bp).op \in DOMAIN Half
        BY <1>1, <2>2 DEF WaitInv
      <3>4. bp \in tramp .. Out - 1
        BY <1>3, <1>12, <3>3
      <3>5. j \in Placed'
        BY <1>3, <1>7
      <3>6. At(bp)'.op \in DOMAIN Half
        <4>1. At(bp)'.op = At(bp).op
          BY <1>5, <3>4, Zenon
        <4> QED
          BY <3>3, <4>1, Zenon
      <3> QED
        BY <1>9, <3>2, <3>3, <3>5, <3>6
    <2>3. CASE x \in waits /\ bp = at
      <3>1. /\ x \in k + 1 .. count - 1
            /\ pads = 0 /\ n = 1 /\ words[1].op \in DOMAIN Half
        BY <2>3 DEF Shape, k, n
      <3>2. at = Out /\ ins'[k] = Out /\ ends'[k] = Out + 1
        BY <1>3, <1>9, <3>1 DEF at
      <3>3. copy'[Len(copy) + 1] = words[1]
        BY <1>3, <1>5, <3>1
      <3>4. bp - tramp' + 1 = Len(copy) + 1
        BY <1>2, <1>3, <2>3, <3>2
      <3>5. At(bp)' = words[1]
        BY <3>3, <3>4 DEF At
      <3>6. x \in Len(code') .. count' - 1 /\ k \in Placed'
        BY <1>2, <1>3, <1>6, <1>7, <3>1
      <3> QED
        BY <2>3, <3>1, <3>2, <3>5, <3>6
    <2> QED
      BY <2>1, <2>2, <2>3
  <1>17. BehindInv'
    <2> SUFFICES ASSUME NEW l \in Placed', ends'[l] > ins'[l] + 1, code'[l + 1].kind # "b"
                 PROVE  /\ At(ins[l] + 1)'.op \in {"b", "adr30"}
                        /\ ins'[l] + 1 + At(ins[l] + 1)'.imm = ends'[l]
      BY DEF BehindInv
    <2>0. At(ins[l] + 1)' = copy'[(ins'[l] + 1) - tramp' + 1]
      BY DEF At
    <2>1. CASE l \in Placed
      <3> DEFINE a == ins[l] + 1
      <3>0. /\ ins'[l] = ins[l] /\ ends'[l] = ends[l]
            /\ ins[l] \in Nat /\ ends[l] \in Nat
            /\ tramp <= ins[l] /\ ends[l] <= Out
        BY <1>9, <1>12, <2>1
      <3>1. /\ ends[l] > a /\ code[l + 1].kind # "b" /\ ins'[l] + 1 = a
            /\ a \in tramp .. Out - 1
        <4>1. l + 1 \in 1 .. k
          BY <1>3, <1>7, <2>1
        <4>2. code'[l + 1] = code[l + 1]
          BY <1>6, <4>1
        <4>3. PICK lo, hi : lo = tramp /\ hi = Out /\ lo \in Nat /\ hi \in Nat
          BY <1>3
        <4>4. /\ ins[l] \in Nat /\ ends[l] \in Nat /\ lo <= ins[l] /\ ends[l] <= hi
              /\ ends[l] > ins[l] + 1
          BY <3>0, <4>3, Zenon
        <4>5. ends[l] > a /\ a \in lo .. hi - 1
          BY ONLY <4>3, <4>4
        <4> QED
          BY <3>0, <4>2, <4>3, <4>5, Zenon
      <3>2. /\ At(a).op \in {"b", "adr30"} /\ a + At(a).imm = ends[l]
        BY <1>1, <2>1, <3>1 DEF BehindInv
      <3>3. a \notin fmap[k]
        <4> SUFFICES ASSUME a \in fmap[k]
                     PROVE  FALSE
          OBVIOUS
        <4>1. PICK j \in Placed : a = ins[j] /\ ends[j] = ins[j] + 1
          BY <1>1, <1>8, Zenon DEF WaitInv
        <4>2. (j < l => ends[j] <= ins[l]) /\ (l < j => ends[l] <= ins[j])
          BY <1>1, <2>1, Zenon DEF SpanInv
        <4>3. j \in Int /\ l \in Int
          BY <1>3, <1>7, <2>1
        <4>4. ins[j] \in Nat /\ ins[l] \in Nat /\ ends[l] \in Nat
          BY <1>12, <2>1, Zenon
        <4>5. ends[l] > a /\ a = ins[l] + 1
          BY <3>1, Zenon
        <4>6. j # l
          BY ONLY <4>1, <4>4, <4>5
        <4> QED
          BY ONLY <4>1, <4>2, <4>3, <4>4, <4>5, <4>6
      <3>4. (ins'[l] + 1) - tramp' + 1 = a - tramp + 1
        <4>1. tramp' = tramp
          BY <1>2
        <4> QED
          BY <1>3, <3>0, <3>1, <4>1
      <3>5. At(a) = copy'[a - tramp + 1]
        <4>1. PICK b : b = a
          OBVIOUS
        <4>2. b \in tramp .. Out - 1 /\ b \notin fmap[k]
          BY <3>1, <3>3, <4>1, Zenon
        <4>3. At(b)' = At(b)
          BY <1>5, <4>2, Zenon
        <4>4. copy'[b - tramp + 1] = At(b)
          BY <1>2, <4>3, Zenon DEF At
        <4> QED
          BY <4>1, <4>4, Zenon
      <3> HIDE DEF a
      <3> QED
        BY <2>0, <3>0, <3>1, <3>2, <3>4, <3>5, Zenon
    <2>2. CASE l = k
      <3>1. i.kind # "b" /\ n > 1
        <4>1. code'[l + 1] = i /\ ins'[l] = at /\ ends'[l] = at + n
          BY <1>6, <1>9, <2>2, Zenon
        <4>2. at + n > at + 1
          BY <4>1, Zenon
        <4>3. n > 1
          BY ONLY <1>4, <1>8, <4>2
        <4> QED
          BY <4>1, <4>3, Zenon
      <3>2. words[2].op \in {"b", "adr30"} /\ 1 + words[2].imm = n
        BY <3>1 DEF Shape, n
      <3>3. copy'[Len(copy) + pads + 2] = words[2]
        BY <1>4, <1>5, <3>1
      <3>4. ins'[l] = at /\ ends'[l] = at + n
        BY <1>9, <2>2
      <3>5. (ins'[l] + 1) - tramp' + 1 = Len(copy) + pads + 2
        <4>1. ins'[l] = tramp + Len(copy) + pads /\ tramp' = tramp
          BY <1>2, <1>3, <3>4, Zenon DEF at
        <4>2. PICK p, c : p = tramp /\ c = Len(copy) /\ p \in Nat /\ c \in Nat
          BY <1>3, Zenon
        <4>3. ((p + c + pads) + 1) - p + 1 = c + pads + 2
          BY ONLY <1>3, <4>2
        <4> QED
          BY <4>1, <4>2, <4>3, Zenon
      <3>6. words[2].imm \in Int
        <4>1. words \in Seq(Words) /\ 2 \in 1 .. Len(words)
          BY <1>4, <3>1 DEF Shape, n
        <4> QED
          BY <4>1, ElementOfSeq DEF Words
      <3> QED
        <4>1. at + 1 + words[2].imm = at + n
          BY <1>4, <1>8, <3>2, <3>6
        <4>2. copy'[(ins'[l] + 1) - tramp' + 1] = words[2]
          BY <3>3, <3>5, Zenon
        <4> QED
          BY <2>0, <3>2, <3>4, <4>1, <4>2, Zenon
    <2> QED
      BY <1>3, <1>7, <2>1, <2>2
  <1>18. TailInv'
    BY <1>2, <1>10 DEF TailInv, Done
  <1> QED
    BY <1>13, <1>14, <1>15, <1>16, <1>17, <1>18 DEF FixInv

-----------------------------------------------------------------------------
(* The cases of the loop *)

LEMMA TwoWords ==
    ASSUME NEW s \in Seq(Words), NEW t \in Seq(Words)
    PROVE  /\ s \o t \in Seq(Words) /\ Len(s \o t) = Len(s) + Len(t)
           /\ \A x \in 1 .. Len(s) : (s \o t)[x] = s[x]
           /\ \A x \in 1 .. Len(t) : (s \o t)[Len(s) + x] = t[x]
  <1>1. Len(s) \in Nat /\ Len(t) \in Nat
    BY LenProperties
  <1>2. /\ s \o t \in Seq(Words) /\ Len(s \o t) = Len(s) + Len(t)
        /\ \A x \in 1 .. Len(s) + Len(t) :
              (s \o t)[x] = IF x <= Len(s) THEN s[x] ELSE t[x - Len(s)]
    BY ConcatProperties
  <1>3. \A x \in 1 .. Len(t) : (s \o t)[Len(s) + x] = t[x]
    <2> TAKE x \in 1 .. Len(t)
    <2>1. /\ Len(s) + x \in 1 .. Len(s) + Len(t)
          /\ ~(Len(s) + x <= Len(s)) /\ (Len(s) + x) - Len(s) = x
      BY <1>1
    <2> QED
      BY <1>2, <2>1
  <1> QED
    BY <1>1, <1>2, <1>3

LEMMA PointerType ==
    ASSUME NEW a \in Int
    PROVE  /\ Pointer(a) \in Seq(Words) /\ Len(Pointer(a)) = 2
           /\ Pointer(a)[1] = Word("data", a)
  <1>1. "data" \in Ops /\ "data" \notin DOMAIN Half
    BY DEF Ops, Half
  <1>2. Word("data", a) \in Words /\ Word("data", 0) \in Words
    BY <1>1, WordType
  <1> QED
    BY <1>2 DEF Pointer

LEMMA ContentsType ==
    ASSUME NEW a \in Int, NEW n \in Nat
    PROVE  Contents(a, n) \in Seq(Words) /\ Len(Contents(a, n)) = n
  <1>0. "contents" \in Ops /\ "contents" \notin DOMAIN Half
    BY DEF Ops, Half
  <1>1. \A x \in 1 .. n : Word("contents", a + x - 1) \in Words
    <2> TAKE x \in 1 .. n
    <2>1. a + x - 1 \in Int
      OBVIOUS
    <2> QED
      BY <1>0, <2>1, WordType, Zenon
  <1>2. Contents(a, n) \in [1 .. n -> Words]
    BY <1>1 DEF Contents
  <1>3. Contents(a, n) \in Seq(Words)
    BY <1>2, SeqDef
  <1> QED
    BY <1>2, <1>3, LenProperties

\* The words in front of the literals.
LEMMA JumpWords ==
    /\ \A n \in 0 .. 3 : Ldr17(n) \in Words
    /\ Br17 \in Words
    /\ Word("adr30", 4) \in Words
    /\ \A n \in 0 .. 5 : Word("b", n) \in Words /\ Word("b", n).op = "b" /\ Word("b", n).imm = n
    /\ Word("adr30", 4).op = "adr30" /\ Word("adr30", 4).imm = 4
  <1>1. "ldr17" \in Ops /\ "br17" \in Ops /\ "adr30" \in Ops /\ "b" \in Ops
    BY DEF Ops, Kinds, Branches
  <1>2. RowWords = 50
    BY DEF RowWords, A64_MAX_INSTRUCTIONS
  <1>3. \A op \in Ops : \A n \in 0 .. 5 : Word(op, n) \in Words
    BY <1>2, SmallType
  <1> QED
    <2>1. /\ \A n \in 0 .. 3 : Word("ldr17", n) \in Words
          /\ Word("br17", 0) \in Words /\ Word("adr30", 4) \in Words
          /\ \A n \in 0 .. 5 : Word("b", n) \in Words
      BY <1>1, <1>3
    <2>2. \A op, n : Word(op, n).op = op /\ Word(op, n).imm = n
      BY DEF Word
    <2> QED
      BY <2>1, <2>2, Zenon DEF Ldr17, Br17

\* Target of instruction i when it is instruction k of the prologue.
TargetAt(i, k) ==
    CASE i.kind \in Branches           -> base + k + i.off
      [] i.kind \in Tests              -> base + k + (i.off % (2 * Half[i.kind]))
      [] i.kind \in Loads \cup {"adr"} -> base + k + (i.off % Wrap)
      [] i.kind = "adrp"               -> Page(base + k) + ((i.off * PageWords) % Wrap)

\* The address an instruction refers to.
LEMMA TargetAtType ==
    ASSUME ContextInv, NEW i \in Instrs, i.kind \in DOMAIN Half, NEW k \in Nat
    PROVE  TargetAt(i, k) \in Int
  <1> DEFINE here == base + k
  <1>1. here \in Nat /\ i.off \in Int
    <2>1. base \in Nat
      BY ContextTypes
    <2> QED
      BY <2>1 DEF Instrs
  <1> HIDE DEF here
  <1>2. Half[i.kind] \in Nat \ {0} /\ Wrap \in Nat \ {0}
    BY DEF Half, RowWords, A64_MAX_INSTRUCTIONS
  <1>3. i.off % (2 * Half[i.kind]) \in Int
    <2> DEFINE h == 2 * Half[i.kind]
    <2>1. h \in Nat \ {0}
      BY <1>2
    <2> HIDE DEF h
    <2>2. i.off % h \in Int
      BY <1>1, <2>1
    <2> QED
      BY <2>2 DEF h
  <1>4. i.off % Wrap \in Int /\ (i.off * PageWords) % Wrap \in Int
    BY <1>1, <1>2
  <1>5. Page(here) \in Int
    BY <1>1 DEF Page
  <1>6. i.kind \in Branches \/ i.kind \in Tests \/ i.kind \in Loads \cup {"adr"} \/ i.kind = "adrp"
    BY DEF Half, Branches, Tests, Loads
  <1> HIDE DEF Page
  <1>7. CASE i.kind \in Branches
    <2>1. i.kind \notin Tests /\ i.kind \notin Loads \cup {"adr"} /\ i.kind # "adrp"
      BY <1>7 DEF Tests, Branches, Loads
    <2>2. TargetAt(i, k) = here + i.off
      BY <1>7, <2>1, Zenon DEF TargetAt, here
    <2> QED
      BY <1>1, <2>2
  <1>8. CASE i.kind \in Tests
    <2>1. i.kind \notin Branches /\ i.kind \notin Loads \cup {"adr"} /\ i.kind # "adrp"
      BY <1>8 DEF Tests, Branches, Loads
    <2>2. TargetAt(i, k) = here + (i.off % (2 * Half[i.kind]))
      BY <1>8, <2>1, Zenon DEF TargetAt, here
    <2> QED
      BY <1>1, <1>3, <2>2
  <1>9. CASE i.kind \in Loads \cup {"adr"}
    <2>1. i.kind \notin Branches /\ i.kind \notin Tests /\ i.kind # "adrp"
      BY <1>9 DEF Tests, Branches, Loads
    <2>2. TargetAt(i, k) = here + (i.off % Wrap)
      BY <1>9, <2>1, Zenon DEF TargetAt, here
    <2> QED
      BY <1>1, <1>4, <2>2
  <1>10. CASE i.kind = "adrp"
    <2>1. i.kind \notin Branches /\ i.kind \notin Tests /\ i.kind \notin Loads \cup {"adr"}
      BY <1>10 DEF Tests, Branches, Loads
    <2>2. TargetAt(i, k) = Page(here) + ((i.off * PageWords) % Wrap)
      BY <1>10, <2>1, Zenon DEF TargetAt, here
    <2> QED
      BY <1>4, <1>5, <2>2
  <1> QED
    BY <1>6, <1>7, <1>8, <1>9, <1>10

LEMMA TargetType ==
    ASSUME ContextInv, NEW i \in Instrs, i.kind \in DOMAIN Half
    PROVE  Target(i) \in Int
  <1>1. Target(i) = TargetAt(i, Len(code))
    BY Zenon DEF Target, TargetAt, Here
  <1>2. Len(code) \in Nat
    <2>1. count \in 1 .. 5 /\ Len(code) \in 0 .. count
      BY ContextTypes
    <2> DEFINE n == Len(code)
    <2> HIDE DEF n
    <2>2. count \in 1 .. 5 /\ n \in 0 .. count
      BY <2>1 DEF n
    <2>3. n \in Nat
      BY <2>2
    <2> QED
      BY <2>3 DEF n
  <1> QED
    BY <1>1, <1>2, TargetAtType

\* There is an instruction left to copy.
Going == Len(code) < count

\* A reference through a literal, to address t.
Long(i, t) ==
    CASE i.kind = "b"  -> <<Ldr17(2), Br17>> \o Pointer(t)
      [] i.kind = "bl" -> <<Ldr17(3), Word("adr30", 4), Br17>> \o Pointer(t)
      [] i.kind \in Tests -> <<Word(i.kind, 2), Word("b", 5), Ldr17(2), Br17>> \o Pointer(t)
      [] i.kind \in Loads -> <<Word(i.kind, 2), Word("b", 1 + Size[i.kind])>>
                             \o Contents(t, Size[i.kind])
      [] i.kind \in {"adr", "adrp"} -> <<Word("ldrx", 2), Word("b", 3)>> \o Pointer(t)

\* In the row of the trampoline.
InRow(t) == t \in tramp .. tramp + RowWords - 1

\* The reach the code takes a direct reference to have, which is not that of its field.
Reached(kind, d) == Abs(d) < 3 * Half[kind]

\* One word whose field holds the distance, or waits for it.
Immediate(i, pads, words, waits) ==
    LET t   == Target(i)
        ref == Index(t)
        at  == Out + pads
    IN  /\ Len(words) = 1 /\ words[1].op = i.kind
        /\ ~InRange(t) => Reached(i.kind, t - at) /\ words[1].imm = Encode(i.kind, t - at)
        /\ (InRange(t) /\ ref > Len(code)) => ref \in waits
        /\ (InRange(t) /\ ref = Len(code)) => words[1].imm = Encode(i.kind, 0)
        /\ (InRange(t) /\ ref < Len(code)) => words[1].imm = Encode(i.kind, ins[ref] - at)

\* The words of a reference through a literal, with which a test does without its field.
Indirect(i, words) == /\ words = Long(i, Target(i))
                      /\ i.kind \in Tests => ~InRow(Target(i))

\* What the words of a copy say.
Says(i, pads, words, waits) ==
    /\ waits # {} => InRange(Target(i)) /\ waits = {Index(Target(i))}
    /\ i.kind \in Branches \cup Tests \cup {"adr"} =>
          \/ Immediate(i, pads, words, waits)
          \/ ~InRange(Target(i)) /\ Indirect(i, words)
    /\ i.kind \in Loads =>
          \/ ~InRange(Target(i)) /\ Immediate(i, pads, words, waits)
          \/ Indirect(i, words)
    /\ i.kind = "adrp" =>
          \/ InRange(Target(i)) /\ Len(words) = 1 /\ words[1].op = "adrp"
          \/ ~InRange(Target(i)) /\ Indirect(i, words)
    /\ i.kind = "plain" => words = <<Word("plain", Len(code))>>

\* A case of the loop hands words over that are well formed and say this.
Handed(i) == \E pads, words, waits : /\ Shape(i, pads, words, waits)
                                     /\ Says(i, pads, words, waits)
                                     /\ Emit(i, pads, words, waits)

\* Five instructions and the jump back fit ten words each.
LEMMA RoomLeft ==
    ASSUME FixInv
    PROVE  Len(copy) \in Nat /\ Len(copy) <= RowWords
  <1>1. RoomInv /\ count \in 1 .. 5 /\ Len(code) \in 0 .. count /\ Len(copy) \in Nat
    BY ContextTypes DEF FixInv
  <1>2. Len(copy) <= 50
    BY <1>1 DEF RoomInv
  <1> QED
    BY <1>1, <1>2 DEF RowWords, A64_MAX_INSTRUCTIONS

\* What the code finds in reach, behind NOPs too, and what it does not, for a test.
LEMMA ReachKept ==
    ASSUME FixInv, NEW i, i.kind \in DOMAIN Half \ {"adrp"}, i.lsb \in 0 .. 3,
           Target(i) \in Int, NEW pads \in 0 .. 3
    PROVE  /\ ~OutOfReach(i) => Reached(i.kind, Target(i) - (Out + pads))
           /\ (OutOfReach(i) /\ i.kind \in Tests) => ~InRow(Target(i))
  <1>1. PICK t \in Int, o \in Nat, h \in Nat :
           t = Target(i) /\ o = Out /\ h = Half[i.kind] /\ h > 50
    <2>1. Half[i.kind] \in Nat /\ Half[i.kind] > 50
      BY DEF Half, RowWords, A64_MAX_INSTRUCTIONS
    <2>2. Out \in Nat
      BY ContextTypes DEF FixInv
    <2> QED
      BY <2>1, <2>2
  <1>2. tramp \in Nat /\ o \in tramp .. tramp + RowWords /\ RowWords = 50
    <2>1. tramp \in Nat /\ Len(copy) \in Nat /\ o = tramp + Len(copy)
      BY <1>1, ContextTypes DEF FixInv
    <2>2. Len(copy) <= RowWords /\ RowWords = 50
      BY RoomLeft DEF RowWords, A64_MAX_INSTRUCTIONS
    <2> QED
      BY <2>1, <2>2
  <1>3. CASE i.kind = "adr"
    <2>1. OutOfReach(i) <=> Abs(4 * (t - o) + i.lsb) > 8 * CondHalf - 1
      BY <1>1, <1>3, Zenon DEF OutOfReach
    <2>2. h = CondHalf /\ i.kind \notin Tests
      BY <1>1, <1>3 DEF Half, Tests
    <2> QED
      BY <1>1, <2>1, <2>2 DEF Abs, Reached
  <1>4. CASE i.kind \in Loads
    <2>1. OutOfReach(i) <=> Abs(t - o) + 4 * (Size[i.kind] - 1) > 2 * CondHalf - 1
      <3>1. i.kind # "adr"
        BY <1>4 DEF Loads
      <3> QED
        BY <1>1, <1>4, <3>1, Zenon DEF OutOfReach
    <2>2. h = CondHalf /\ i.kind \notin Tests /\ Size[i.kind] \in {1, 2, 4}
      BY <1>1, <1>4 DEF Half, Tests, Loads, Size
    <2> QED
      BY <1>1, <2>1, <2>2 DEF Abs, Reached
  <1>5. CASE i.kind \in Branches \cup Tests
    <2>1. OutOfReach(i) <=> Abs(t - o) > 2 * h - 1
      <3>1. i.kind # "adr" /\ i.kind \notin Loads
        BY <1>5 DEF Loads, Branches, Tests
      <3> QED
        BY <1>1, <3>1, Zenon DEF OutOfReach
    <2>2. ~OutOfReach(i) => Reached(i.kind, t - (o + pads))
      BY <1>1, <2>1 DEF Abs, Reached
    <2>3. OutOfReach(i) => ~InRow(t)
      BY <1>1, <1>2, <2>1 DEF Abs, InRow
    <2> QED
      BY <1>1, <2>2, <2>3
  <1> QED
    BY <1>3, <1>4, <1>5 DEF Half, Branches, Tests, Loads

\* A copy for which nothing has to wait.
LEMMA PlainHands ==
    ASSUME FixInv, Going, NEW i \in Families[family].instrs \cup {Plain},
           NEW pads \in Nat, NEW words \in Seq(Words), pads + Len(words) <= 9,
           (Len(words) > 1 /\ i.kind # "b") =>
              words[2].op \in {"b", "adr30"} /\ 1 + words[2].imm = Len(words),
           Says(i, pads, words, {}), Emit(i, pads, words, {})
    PROVE  Handed(i)
  <1>1. Shape(i, pads, words, {})
    BY DEF Shape, Going
  <1> QED
    BY <1>1, Zenon DEF Handed

\* The direct encoding (And64InlineHook.cpp:158-173, 224-241, 364-381).
LEMMA DirectHands ==
    ASSUME FixInv, Going, NEW i \in Families[family].instrs,
           i.kind \in Branches \cup Tests \cup {"adr"},
           InRange(Target(i)) \/ ~OutOfReach(i), Direct(i)
    PROVE  Handed(i)
  <1> DEFINE t     == Target(i)
             ref   == Index(t)
             later == InRange(t) /\ ref > Len(code)
             rel   == IF ~InRange(t) THEN t - Out
                      ELSE IF ref < Len(code) THEN ins[ref] - Out ELSE 0
             word  == [op |-> i.kind, imm |-> Encode(i.kind, rel),
                       stray |-> i.kind = "adr" /\ Spills(i) /\ ~InRange(t)]
             waits == IF later THEN {ref} ELSE {}
  <1>1. Emit(i, 0, <<word>>, waits)
    BY DEF Direct
  <1>2. ContextInv
    BY DEF FixInv
  <1>3. i \in Instrs /\ i.kind \in DOMAIN Half
    BY <1>2, InputAssumption DEF ContextInv, Instrs, Half, Branches, Tests
  <1>4. t \in Int
    BY <1>2, <1>3, TargetType
  <1>20. ~InRange(t) => Reached(i.kind, t - (Out + 0))
    <2>1. i.kind \in DOMAIN Half \ {"adrp"} /\ i.lsb \in 0 .. 3
      BY <1>3 DEF Instrs, Branches, Tests
    <2> QED
      BY <1>4, <2>1, ReachKept
  <1>5. /\ base \in Nat /\ count \in 1 .. 5 /\ Len(code) \in 0 .. count /\ Out \in Nat
    BY <1>2, ContextTypes
  <1>6. ins \in [Indices -> Nat]
    BY <1>2 DEF ContextInv
  <1> HIDE DEF t
  <1>7. ref \in Int /\ (InRange(t) => ref \in 0 .. count - 1)
    BY <1>4, <1>5 DEF Index, InRange
  <1> HIDE DEF ref
  <1>8. rel \in Int
    <2>1. CASE InRange(t) /\ ref < Len(code)
      <3>1. ref \in Indices
        BY <1>5, <1>7, <2>1 DEF Indices, A64_MAX_INSTRUCTIONS
      <3> QED
        BY <1>5, <1>6, <2>1, <3>1
    <2> QED
      BY <1>4, <1>5, <2>1
  <1>9. /\ ~InRange(t) => rel = t - (Out + 0)
        /\ (InRange(t) /\ ref = Len(code)) => rel = 0
        /\ (InRange(t) /\ ref < Len(code)) => rel = ins[ref] - (Out + 0)
    BY <1>5, <1>7
  <1>10. waits # {} => InRange(t) /\ waits = {ref}
    OBVIOUS
  <1>11. (InRange(t) /\ ref > Len(code)) => ref \in waits
    OBVIOUS
  <1> HIDE DEF rel
  <1>12. word \in Words
    <2>1. HasRoom(i.kind, Encode(i.kind, rel)) /\ Encode(i.kind, rel) \in Int
      BY <1>3, <1>8, EncodeFits
    <2>2. i.kind \in Ops
      BY <1>3 DEF Instrs, Ops
    <2> QED
      BY <2>1, <2>2 DEF Words
  <1>13. word.op = i.kind /\ word.imm = Encode(i.kind, rel)
    OBVIOUS
  <1>14. waits \subseteq Len(code) + 1 .. count - 1
    BY <1>5, <1>7
  <1> HIDE DEF word, waits
  <1> DEFINE words == <<word>>
  <1>15. words \in Seq(Words) /\ Len(words) = 1 /\ words[1] = word
    BY <1>12
  <1>16. Emit(i, 0, words, waits)
    BY <1>1
  <1> HIDE DEF words
  <1>17. Shape(i, 0, words, waits)
    BY <1>3, <1>13, <1>14, <1>15 DEF Shape, Going
  <1>18. Immediate(i, 0, words, waits)
    <2>1. words[1].imm = Encode(i.kind, rel) /\ words[1].op = i.kind /\ Len(words) = 1
      BY <1>13, <1>15, Zenon
    <2> QED
      BY <1>9, <1>11, <1>20, <2>1, Zenon DEF Immediate, t, ref
  <1>19. Says(i, 0, words, waits)
    <2>1. i.kind \notin Loads /\ i.kind # "adrp" /\ i.kind # "plain"
      BY DEF Branches, Tests, Loads
    <2> QED
      BY <1>10, <1>18, <2>1, Zenon DEF Says, t, ref
  <1> QED
    BY <1>16, <1>17, <1>19, Zenon DEF Handed

\* A literal with the address, behind n words of code.
Literal(i, pads, front, n) ==
    /\ i.kind \notin Loads \cup {"plain"} /\ Target(i) \in Int /\ ~InRange(Target(i))
    /\ pads \in 0 .. 1 /\ front \in Seq(Words) /\ n \in 2 .. 4 /\ Len(front) = n
    /\ i.kind # "b" => front[2].op \in {"b", "adr30"} /\ front[2].imm = n + 1
    /\ Long(i, Target(i)) = front \o Pointer(Target(i))
    /\ i.kind \in Tests => ~InRow(Target(i))
    /\ Emit(i, pads, front \o Pointer(Target(i)), {})

LEMMA LiteralHands ==
    ASSUME FixInv, Going, NEW i \in Families[family].instrs,
           NEW pads, NEW front, NEW n, Literal(i, pads, front, n)
    PROVE  Handed(i)
  <1> USE DEF Literal
  <1> DEFINE a     == Target(i)
             words == front \o Pointer(a)
  <1>1. Pointer(a) \in Seq(Words) /\ Len(Pointer(a)) = 2
    BY PointerType
  <1> HIDE DEF a
  <1>2. words \in Seq(Words) /\ Len(words) = n + 2 /\ words[2] = front[2]
    <2>1. words \in Seq(Words) /\ Len(words) = Len(front) + Len(Pointer(a))
          /\ \A x \in 1 .. Len(front) : words[x] = front[x]
      BY <1>1, TwoWords
    <2> HIDE DEF words
    <2> QED
      BY <1>1, <2>1
  <1>3. Emit(i, pads, words, {}) /\ Indirect(i, words)
    BY DEF a, Indirect
  <1> HIDE DEF words
  <1>4. /\ pads \in Nat /\ pads + Len(words) <= 9
        /\ i.kind # "b" => words[2].op \in {"b", "adr30"} /\ 1 + words[2].imm = Len(words)
    BY <1>2
  <1>5. Says(i, pads, words, {})
    BY <1>3, Zenon DEF Says
  <1> QED
    BY <1>2, <1>3, <1>4, <1>5, PlainHands

-----------------------------------------------------------------------------
(* What one round of the loop hands over *)

\* __fix_branch_imm (And64InlineHook.cpp:115-180).
LEMMA BranchHands ==
    ASSUME FixInv, Going, NEW i \in Families[family].instrs, FixBranch(i)
    PROVE  Handed(i)
  <1>1. i.kind \in Branches /\ i.kind \in DOMAIN Half
    BY DEF FixBranch, Branches, Half
  <1>2. ContextInv /\ i \in Instrs
    BY InputAssumption DEF FixInv, ContextInv, Instrs
  <1>3. Target(i) \in Int
    BY <1>1, <1>2, TargetType
  <1>4. (Out + 1) % 2 \in 0 .. 1 /\ Out % 2 \in 0 .. 1
    <2>1. Out \in Nat
      BY <1>2, ContextTypes
    <2> QED
      BY <2>1
  <1>5. CASE (InRange(Target(i)) \/ ~OutOfReach(i)) /\ Direct(i)
    BY <1>1, <1>5, DirectHands
  <1>6. CASE /\ ~InRange(Target(i)) /\ i.kind = "b"
             /\ Emit(i, (Out + 1) % 2, <<Ldr17(2), Br17>> \o Pointer(Target(i)), {})
    <2> DEFINE front == <<Ldr17(2), Br17>>
    <2>1. front \in Seq(Words) /\ Len(front) = 2
      BY JumpWords
    <2>2. i.kind = "b" /\ Emit(i, (Out + 1) % 2, front \o Pointer(Target(i)), {})
      BY <1>6
    <2>3. Long(i, Target(i)) = front \o Pointer(Target(i))
      BY <2>2, Zenon DEF Long, Tests, Loads
    <2>4. i.kind \notin Loads \cup {"plain"} /\ i.kind \notin Tests
      BY <2>2 DEF Loads, Tests
    <2> HIDE DEF front
    <2>7. Literal(i, (Out + 1) % 2, front, 2)
      BY <1>3, <1>4, <1>6, <2>1, <2>2, <2>3, <2>4 DEF Literal
    <2> QED
      BY <2>7, LiteralHands, Zenon
  <1>7. CASE /\ ~InRange(Target(i)) /\ i.kind # "b"
             /\ Emit(i, Out % 2, <<Ldr17(3), Word("adr30", 4), Br17>>
                                 \o Pointer(Target(i)), {})
    <2> DEFINE front == <<Ldr17(3), Word("adr30", 4), Br17>>
    <2>1. front \in Seq(Words) /\ Len(front) = 3 /\ front[2] = Word("adr30", 4)
      BY JumpWords
    <2>2. front[2].op \in {"b", "adr30"} /\ front[2].imm = 3 + 1
      BY <2>1, JumpWords
    <2>3. Emit(i, Out % 2, front \o Pointer(Target(i)), {})
      BY <1>7
    <2>4. i.kind = "bl"
      BY <1>1, <1>7 DEF Branches
    <2>5. Long(i, Target(i)) = front \o Pointer(Target(i))
      BY <2>4, Zenon DEF Long, Tests, Loads
    <2>6. i.kind \notin Loads \cup {"plain"} /\ i.kind \notin Tests
      BY <2>4 DEF Loads, Tests
    <2> HIDE DEF front
    <2>7. Literal(i, Out % 2, front, 3)
      BY <1>3, <1>4, <1>7, <2>1, <2>2, <2>3, <2>5, <2>6 DEF Literal
    <2> QED
      BY <2>7, LiteralHands, Zenon
  <1> QED
    BY <1>5, <1>6, <1>7 DEF FixBranch

\* __fix_cond_comp_test_branch (And64InlineHook.cpp:184-244).
LEMMA TestHands ==
    ASSUME FixInv, Going, NEW i \in Families[family].instrs, FixTest(i)
    PROVE  Handed(i)
  <1>1. i.kind \in Tests /\ i.kind \in DOMAIN Half
    BY DEF FixTest, Tests, Half
  <1>2. ContextInv /\ i \in Instrs
    BY InputAssumption DEF FixInv, ContextInv, Instrs
  <1>3. Target(i) \in Int
    BY <1>1, <1>2, TargetType
  <1>4. Out % 2 \in 0 .. 1
    <2>1. Out \in Nat
      BY <1>2, ContextTypes
    <2> QED
      BY <2>1
  <1>5. CASE (InRange(Target(i)) \/ ~OutOfReach(i)) /\ Direct(i)
    BY <1>1, <1>5, DirectHands
  <1>6. CASE /\ ~InRange(Target(i)) /\ OutOfReach(i)
             /\ Emit(i, Out % 2, <<Word(i.kind, 2), Word("b", 5), Ldr17(2), Br17>>
                                 \o Pointer(Target(i)), {})
    <2> DEFINE front == <<Word(i.kind, 2), Word("b", 5), Ldr17(2), Br17>>
    <2>1. Word(i.kind, 2) \in Words
      <3>1. i.kind \in Ops /\ 2 \in 0 .. RowWords
        BY <1>1 DEF Ops, Kinds, RowWords, A64_MAX_INSTRUCTIONS
      <3> QED
        BY <3>1, SmallType
    <2>2. front \in Seq(Words) /\ Len(front) = 4 /\ front[2] = Word("b", 5)
      BY <2>1, JumpWords
    <2>3. front[2].op \in {"b", "adr30"} /\ front[2].imm = 4 + 1
      BY <2>2, JumpWords
    <2>4. Emit(i, Out % 2, front \o Pointer(Target(i)), {})
      BY <1>6
    <2>5. i.kind \notin Loads \cup {"plain", "b", "bl"} /\ i.kind \notin {"adr", "adrp"}
      BY <1>1 DEF Tests, Loads
    <2>6. Long(i, Target(i)) = front \o Pointer(Target(i))
      BY <1>1, <2>5, Zenon DEF Long
    <2> HIDE DEF front
    <2>8. ~InRow(Target(i))
      <3>1. i.kind \in DOMAIN Half \ {"adrp"} /\ i.lsb \in 0 .. 3 /\ 0 \in 0 .. 3
        BY <1>1, <1>2 DEF Instrs, Tests
      <3> QED
        BY <1>1, <1>3, <1>6, <3>1, ReachKept
    <2>7. Literal(i, Out % 2, front, 4)
      BY <1>3, <1>4, <1>6, <2>2, <2>3, <2>4, <2>5, <2>6, <2>8 DEF Literal
    <2> QED
      BY <2>7, LiteralHands, Zenon
  <1> QED
    BY <1>5, <1>6 DEF FixTest

\* __fix_loadlit of a load (And64InlineHook.cpp:259-325).
LEMMA LoadHands ==
    ASSUME FixInv, Going, NEW i \in Families[family].instrs, FixLoad(i)
    PROVE  Handed(i)
  <1> DEFINE t == Target(i)
             n == Size[i.kind]
  <1>1. i.kind \in Loads /\ i.kind \in DOMAIN Half /\ n \in {1, 2, 4}
        /\ i.kind \in Ops
    <2>1. i.kind \in Loads
      BY DEF FixLoad
    <2> QED
      BY <2>1 DEF Loads, Half, Size, Ops, Kinds
  <1>2. ContextInv /\ i \in Instrs
    BY InputAssumption DEF FixInv, ContextInv, Instrs
  <1>3. t \in Int
    BY <1>1, <1>2, TargetType
  <1>4. Out \in Nat
    BY <1>2, ContextTypes
  <1> DEFINE far  == Emit(i, Padding(Out + 2, n), <<Word(i.kind, 2), Word("b", 1 + n)>>
                                                  \o Contents(t, n), {})
             pads == (t - Out) % n
             rel  == t - Out - pads
             near == Emit(i, pads, <<[op |-> i.kind, imm |-> Encode(i.kind, rel),
                                      stray |-> rel < 0 /\ i.kind \in {"ldrw", "ldrd", "ldrq"}]>>,
                          {})
  <1>5. (~InRange(t) /\ ~OutOfReach(i) /\ near) \/ far
    BY DEF FixLoad
  <1> HIDE DEF t, n
  <1>6. CASE far
    <2> DEFINE front == <<Word(i.kind, 2), Word("b", 1 + n)>>
               p     == Padding(Out + 2, n)
               words == front \o Contents(t, n)
    <2>1. Emit(i, p, words, {})
      BY <1>6
    <2>2. Word(i.kind, 2) \in Words
      <3>1. 2 \in 0 .. RowWords
        BY DEF RowWords, A64_MAX_INSTRUCTIONS
      <3> QED
        BY <1>1, <3>1, SmallType
    <2>3. /\ Word("b", 1 + n) \in Words /\ Word("b", 1 + n).op = "b"
          /\ Word("b", 1 + n).imm = 1 + n
      BY <1>1, JumpWords
    <2>9. Indirect(i, words)
      <3>1. i.kind \notin {"b", "bl"} /\ i.kind \notin Tests /\ i.kind \notin {"adr", "adrp"}
        BY <1>1 DEF Loads, Tests
      <3> QED
        BY <1>1, <3>1, Zenon DEF Indirect, Long, t, n
    <2>10. i.kind \notin Branches \cup Tests \cup {"adr"} /\ i.kind # "adrp" /\ i.kind # "plain"
      BY <1>1 DEF Loads, Tests, Branches
    <2>4. front \in Seq(Words) /\ Len(front) = 2 /\ front[2] = Word("b", 1 + n)
      BY <2>2, <2>3
    <2>5. Contents(t, n) \in Seq(Words) /\ Len(Contents(t, n)) = n
      BY <1>1, <1>3, ContentsType
    <2>6. p \in Nat /\ p < n
      BY <1>1, <1>4 DEF Padding
    <2> HIDE DEF front, p
    <2>7. words \in Seq(Words) /\ Len(words) = 2 + n /\ words[2] = front[2]
      <3>1. words \in Seq(Words) /\ Len(words) = Len(front) + Len(Contents(t, n))
            /\ \A x \in 1 .. Len(front) : words[x] = front[x]
        BY <2>4, <2>5, TwoWords
      <3> HIDE DEF words
      <3> QED
        BY <2>4, <2>5, <3>1
    <2> HIDE DEF words
    <2>8. p + Len(words) <= 9 /\ words[2].op = "b" /\ 1 + words[2].imm = Len(words)
      BY <1>1, <2>3, <2>4, <2>6, <2>7
    <2>11. Says(i, p, words, {})
      BY <2>9, <2>10, Zenon DEF Says
    <2> QED
      BY <2>1, <2>6, <2>7, <2>8, <2>11, PlainHands
  <1>7. CASE ~InRange(t) /\ ~OutOfReach(i) /\ near
    <2> DEFINE word == [op |-> i.kind, imm |-> Encode(i.kind, rel),
                        stray |-> rel < 0 /\ i.kind \in {"ldrw", "ldrd", "ldrq"}]
    <2>1. pads \in 0 .. 3
      BY <1>1, <1>3, <1>4
    <2>2. Emit(i, pads, <<word>>, {})
      BY <1>7
    <2> HIDE DEF pads
    <2>3. rel \in Int
      BY <1>3, <1>4, <2>1
    <2>4. HasRoom(i.kind, Encode(i.kind, rel)) /\ Encode(i.kind, rel) \in Int
      BY <1>1, <2>3, EncodeFits
    <2>8. rel = t - (Out + pads)
      BY <1>3, <1>4, <2>1
    <2> HIDE DEF rel
    <2>5. word \in Words
      BY <1>1, <2>4 DEF Words
    <2> HIDE DEF word
    <2> DEFINE words == <<word>>
    <2>6. words \in Seq(Words) /\ Len(words) = 1 /\ words[1] = word
      BY <2>5
    <2>9. Emit(i, pads, words, {})
      BY <2>2
    <2> HIDE DEF words
    <2>7. pads \in Nat /\ pads + Len(words) <= 9 /\ ~(Len(words) > 1)
      BY <2>1, <2>6
    <2>10. Says(i, pads, words, {})
      <3>1. i.kind \notin Branches \cup Tests \cup {"adr"} /\ i.kind # "adrp" /\ i.kind # "plain"
        BY <1>1 DEF Loads, Tests, Branches
      <3>2. word.op = i.kind /\ word.imm = Encode(i.kind, t - (Out + pads))
        BY <2>8 DEF word
      <3>3. Reached(i.kind, t - (Out + pads))
        <4>1. i.kind \in DOMAIN Half \ {"adrp"} /\ i.lsb \in 0 .. 3
          BY <1>1, <1>2 DEF Instrs, Loads
        <4> QED
          BY <1>3, <1>7, <2>1, <4>1, ReachKept DEF t
      <3>4. Immediate(i, pads, words, {})
        BY <1>7, <2>6, <3>2, <3>3, Zenon DEF Immediate, t
      <3> QED
        BY <1>7, <3>1, <3>4, Zenon DEF Says, t
    <2> QED
      BY <2>6, <2>7, <2>9, <2>10, PlainHands
  <1> QED
    BY <1>5, <1>6, <1>7

\* __fix_pcreladdr, ADR and ADRP (And64InlineHook.cpp:329-424).
LEMMA AddressHands ==
    ASSUME FixInv, Going, NEW i \in Families[family].instrs, FixAdr(i) \/ FixAdrp(i)
    PROVE  Handed(i)
  <1>1. i.kind \in DOMAIN Half /\ i.kind # "b"
    BY DEF FixAdr, FixAdrp, Half
  <1>2. ContextInv /\ i \in Instrs
    BY InputAssumption DEF FixInv, ContextInv, Instrs
  <1>3. Target(i) \in Int
    BY <1>1, <1>2, TargetType
  <1>4. Out % 2 \in 0 .. 1
    <2>1. Out \in Nat
      BY <1>2, ContextTypes
    <2> QED
      BY <2>1
  <1>5. CASE i.kind = "adr" /\ (InRange(Target(i)) \/ ~OutOfReach(i)) /\ Direct(i)
    BY <1>5, DirectHands
  <1>6. CASE /\ i.kind \in {"adr", "adrp"} /\ ~InRange(Target(i))
             /\ Emit(i, Out % 2, <<Word("ldrx", 2), Word("b", 3)>> \o Pointer(Target(i)), {})
    <2> DEFINE front == <<Word("ldrx", 2), Word("b", 3)>>
    <2>1. Word("ldrx", 2) \in Words
      <3>1. "ldrx" \in Ops /\ 2 \in 0 .. RowWords
        BY DEF Ops, Kinds, Loads, RowWords, A64_MAX_INSTRUCTIONS
      <3> QED
        BY <3>1, SmallType
    <2>2. front \in Seq(Words) /\ Len(front) = 2 /\ front[2] = Word("b", 3)
      BY <2>1, JumpWords
    <2>3. front[2].op \in {"b", "adr30"} /\ front[2].imm = 2 + 1
      BY <2>2, JumpWords
    <2>4. Emit(i, Out % 2, front \o Pointer(Target(i)), {})
      BY <1>6
    <2>5. i.kind \notin Loads \cup {"plain", "b", "bl"} /\ i.kind \notin Tests
      BY <1>6 DEF Tests, Loads
    <2>6. Long(i, Target(i)) = front \o Pointer(Target(i))
      BY <1>6, <2>5, Zenon DEF Long
    <2> HIDE DEF front
    <2>7. Literal(i, Out % 2, front, 2)
      BY <1>3, <1>4, <1>6, <2>2, <2>3, <2>4, <2>5, <2>6 DEF Literal
    <2> QED
      BY <2>7, LiteralHands, Zenon
  <1>7. CASE i.kind = "adrp" /\ InRange(Target(i)) /\ Emit(i, 0, <<Word("adrp", i.off)>>, {})
    <2>1. HasRoom("adrp", i.off) /\ i.off \in Int
      BY <1>1, <1>2, <1>7, InputAssumption DEF ContextInv, Instrs
    <2>2. Word("adrp", i.off) \in Words
      BY <2>1, WordType DEF Ops, Kinds
    <2> DEFINE words == <<Word("adrp", i.off)>>
    <2>3. words \in Seq(Words) /\ Len(words) = 1 /\ words[1].op = "adrp"
      BY <2>2 DEF Word
    <2>4. Emit(i, 0, words, {})
      BY <1>7
    <2> HIDE DEF words
    <2>5. 0 \in Nat /\ 0 + Len(words) <= 9 /\ ~(Len(words) > 1)
      BY <2>3
    <2>6. Says(i, 0, words, {})
      <3>1. /\ i.kind \notin Branches \cup Tests \cup {"adr"} /\ i.kind \notin Loads
            /\ i.kind # "plain"
        BY <1>7 DEF Branches, Tests, Loads
      <3> QED
        BY <1>7, <2>3, <3>1, Zenon DEF Says
    <2> QED
      BY <2>3, <2>4, <2>5, <2>6, PlainHands
  <1> QED
    BY <1>5, <1>6, <1>7 DEF FixAdr, FixAdrp

\* A prefetch, and an instruction without an offset
\* (And64InlineHook.cpp:251-257, 447-449).
LEMMA OthersHand ==
    ASSUME FixInv, Going,
           FixPlain \/ \E i \in Families[family].instrs : FixPrefetch(i)
    PROVE  \E i : Handed(i)
  <1>1. CASE FixPlain
    <2> DEFINE word  == Word("plain", Len(code))
               words == <<word>>
    <2>1. Len(code) \in Nat
      BY ContextTypes DEF FixInv
    <2>2. "plain" \in Ops /\ "plain" \notin DOMAIN Half
      BY DEF Ops, Kinds, Half
    <2>3. word \in Words
      BY <2>1, <2>2, WordType
    <2>4. Emit(Plain, 0, words, {})
      BY <1>1 DEF FixPlain
    <2>5. Says(Plain, 0, words, {})
      <3>1. /\ Plain.kind = "plain" /\ "plain" \notin Branches \cup Tests \cup {"adr"}
            /\ "plain" \notin Loads /\ "plain" # "adrp"
        BY DEF Plain, Branches, Tests, Loads
      <3> QED
        BY <3>1, Zenon DEF Says
    <2> HIDE DEF word
    <2>6. words \in Seq(Words) /\ Len(words) = 1
      BY <2>3
    <2> HIDE DEF words
    <2>7. 0 \in Nat /\ 0 + Len(words) <= 9 /\ ~(Len(words) > 1)
      BY <2>6
    <2>8. Plain \in Families[family].instrs \cup {Plain}
      OBVIOUS
    <2> QED
      BY <2>4, <2>5, <2>6, <2>7, <2>8, PlainHands
  <1>2. CASE \E i \in Families[family].instrs : FixPrefetch(i)
    <2>1. PICK i \in Families[family].instrs : FixPrefetch(i)
      BY <1>2
    <2>2. i.kind = "prfm" /\ Emit(i, 0, <<>>, {})
      BY <2>1 DEF FixPrefetch
    <2>3. <<>> \in Seq(Words) /\ Len(<<>>) = 0
      OBVIOUS
    <2>4. 0 \in Nat /\ 0 + Len(<<>>) <= 9 /\ ~(Len(<<>>) > 1)
      BY <2>3
    <2>5. i \in Families[family].instrs \cup {Plain}
      OBVIOUS
    <2>6. Says(i, 0, <<>>, {})
      <3>1. /\ i.kind \notin Branches \cup Tests \cup {"adr"} /\ i.kind \notin Loads
            /\ i.kind # "adrp" /\ i.kind # "plain"
        BY <2>2 DEF Branches, Tests, Loads
      <3> QED
        BY <3>1, Zenon DEF Says
    <2> QED
      BY <2>2, <2>3, <2>4, <2>5, <2>6, PlainHands
  <1> QED
    BY <1>1, <1>2

LEMMA FixHands ==
    ASSUME FixInv, Fix
    PROVE  \E i : Handed(i)
  <1>1. Going
    BY DEF Fix, Going
  <1>2. CASE FixPlain \/ \E i \in Families[family].instrs : FixPrefetch(i)
    BY <1>1, <1>2, OthersHand
  <1>3. CASE \E i \in Families[family].instrs :
                FixBranch(i) \/ FixTest(i) \/ FixLoad(i) \/ FixAdr(i) \/ FixAdrp(i)
    BY <1>1, <1>3, BranchHands, TestHands, LoadHands, AddressHands
  <1> QED
    BY <1>2, <1>3 DEF Fix

LEMMA FixKeeps ==
    ASSUME FixInv, Fix
    PROVE  FixInv'
  <1>1. PICK i : Handed(i)
    BY FixHands
  <1>2. PICK pads, words, waits : Shape(i, pads, words, waits) /\ Emit(i, pads, words, waits)
    BY <1>1, Zenon DEF Handed
  <1> QED
    BY <1>2, EmitKeeps

-----------------------------------------------------------------------------
(* The jump back *)

\* The words of the jump back through a literal.
FarJump(p, a) == Nops(p) \o <<Ldr17(2), Br17>> \o Pointer(a)

LEMMA FarWords ==
    ASSUME NEW p \in 0 .. 1, NEW a \in Int
    PROVE  /\ FarJump(p, a) \in Seq(Words) /\ Len(FarJump(p, a)) = p + 4
           /\ p = 1 => FarJump(p, a)[1].op = "nop"
           /\ FarJump(p, a)[p + 1] = Ldr17(2) /\ FarJump(p, a)[p + 2] = Br17
           /\ FarJump(p, a)[p + 3] = Word("data", a)
  <1> DEFINE front == <<Ldr17(2), Br17>>
  <1>1. front \in Seq(Words) /\ Len(front) = 2 /\ front[1] = Ldr17(2) /\ front[2] = Br17
    BY JumpWords
  <1>2. /\ Nops(p) \in Seq(Words) /\ Len(Nops(p)) = p
        /\ \A x \in 1 .. p : Nops(p)[x].op = "nop"
    <2>1. p \in Nat
      OBVIOUS
    <2> QED
      BY <2>1, NopsType, Zenon
  <1>3. /\ Pointer(a) \in Seq(Words) /\ Len(Pointer(a)) = 2
        /\ Pointer(a)[1] = Word("data", a)
    BY PointerType
  <1> DEFINE lit == Nops(p) \o front \o Pointer(a)
  <1> HIDE DEF front
  <1>4. lit \in Seq(Words) /\ Joins(lit, Nops(p), front, Pointer(a))
    BY <1>1, <1>2, <1>3, Joined, Zenon
  <1> HIDE DEF lit
  <1>5. /\ Len(lit) = p + 2 + 2
        /\ \A x \in 1 .. p : lit[x] = Nops(p)[x]
        /\ \A x \in 1 .. 2 : lit[p + x] = front[x]
        /\ \A x \in 1 .. 2 : lit[p + 2 + x] = Pointer(a)[x]
    BY <1>1, <1>2, <1>3, <1>4 DEF Joins
  <1>6. lit[p + 1] = Ldr17(2) /\ lit[p + 2] = Br17
    BY <1>1, <1>5
  <1>7. lit[p + 2 + 1] = Word("data", a) /\ p + 2 + 1 = p + 3
    BY <1>3, <1>5
  <1>8. p = 1 => lit[1].op = "nop"
    BY <1>2, <1>5
  <1>9. Len(lit) = p + 4
    BY <1>5
  <1> QED
    BY <1>4, <1>6, <1>7, <1>8, <1>9 DEF FarJump, lit, front

\* What the jump back is: one word, or four behind at most one NOP.
LEMMA JumpBackWords ==
    ASSUME FixInv, JumpBack
    PROVE  /\ copy' \in Seq(Words) /\ Len(copy') \in Nat
           /\ Len(copy) <= Len(copy') /\ Len(copy') <= Len(copy) + 5
           /\ \A x \in 1 .. Len(copy) : copy'[x] = copy[x]
           /\ NearTail' \/ FarTail'
  <1> DEFINE rel  == Here - Out
             p    == Out % 2
             lit  == FarJump(p, Here)
             word == Word("b", Encode("b", rel))
  <1>1. /\ tail' = Out /\ base' = base /\ tramp' = tramp /\ count' = count
        /\ Here = base + count
        /\ copy' = copy \o (IF Abs(rel) > 2 * BranchHalf - 1 THEN lit ELSE <<word>>)
    BY DEF JumpBack, Here, input, FarJump
  <1>2. /\ base \in Nat /\ count \in Nat /\ tramp \in Nat /\ Here \in Nat
        /\ Out \in Nat /\ Len(copy) \in Nat /\ Out = tramp + Len(copy)
        /\ copy \in Seq(Words)
    <2>1. ContextInv /\ copy \in Seq(Words)
      BY DEF FixInv, ContextInv
    <2>2. count \in 1 .. 5
      BY <2>1, ContextTypes
    <2> QED
      BY <2>1, <2>2, ContextTypes
  <1>3. rel \in Int
    BY <1>2
  <1>4. p \in 0 .. 1
    BY <1>2
  <1> HIDE DEF p
  <1>5. CASE Abs(rel) > 2 * BranchHalf - 1
    <2>1. copy' = copy \o lit
      BY <1>1, <1>5
    <2>2. /\ lit \in Seq(Words) /\ Len(lit) = p + 4
          /\ p = 1 => lit[1].op = "nop"
          /\ lit[p + 1] = Ldr17(2) /\ lit[p + 2] = Br17 /\ lit[p + 3] = Word("data", Here)
      <3>1. p \in 0 .. 1 /\ Here \in Int
        BY <1>2, <1>4
      <3> QED
        BY <3>1, FarWords, Zenon
    <2>3. p \in 0 .. 1
      BY <1>4
    <2> HIDE DEF lit
    <2>4. /\ copy' \in Seq(Words) /\ Len(copy') = Len(copy) + Len(lit)
          /\ \A x \in 1 .. Len(copy) : copy'[x] = copy[x]
          /\ \A x \in 1 .. Len(lit) : copy'[Len(copy) + x] = lit[x]
      BY <1>2, <2>1, <2>2, TwoWords
    <2>5. Len(copy') = Len(copy) + p + 4
      BY <1>2, <2>2, <2>3, <2>4
    <2>6. /\ p = 1 => copy'[Len(copy) + 1].op = "nop"
          /\ copy'[Len(copy) + (p + 1)] = Ldr17(2)
          /\ copy'[Len(copy) + (p + 2)] = Br17
          /\ copy'[Len(copy) + (p + 3)] = Word("data", Here)
      <3>1. p + 1 \in 1 .. Len(lit) /\ p + 2 \in 1 .. Len(lit) /\ p + 3 \in 1 .. Len(lit)
            /\ 1 \in 1 .. Len(lit)
        BY <2>2, <2>3
      <3> QED
        BY <2>2, <2>4, <3>1
    <2>7. Out' = tramp + Len(copy')
      BY <1>1 DEF Out
    <2>8. Out' - 4 = Out + p
      BY <1>2, <2>3, <2>5, <2>7
    <2>9. FarTail'
      <3> DEFINE s == Out + p
      <3>1. tail' = s \/ (tail' = s - 1 /\ copy'[tail' - tramp' + 1].op = "nop")
        <4>1. CASE p = 0
          BY <1>1, <1>2, <4>1
        <4>2. CASE p = 1
          <5>1. tail' = s - 1 /\ tail' - tramp' + 1 = Len(copy) + 1
            BY <1>1, <1>2, <4>2
          <5> QED
            BY <2>6, <4>2, <5>1
        <4> QED
          BY <2>3, <4>1, <4>2
      <3>2. tail' >= tramp'
        BY <1>1, <1>2
      <3>3. /\ s - tramp' + 1 = Len(copy) + (p + 1)
            /\ (s + 1) - tramp' + 1 = Len(copy) + (p + 2)
            /\ (s + 2) - tramp' + 1 = Len(copy) + (p + 3)
        BY <1>1, <1>2, <2>3
      <3>4. /\ copy'[s - tramp' + 1] = Ldr17(2)
            /\ copy'[(s + 1) - tramp' + 1] = Br17
            /\ copy'[(s + 2) - tramp' + 1] = Word("data", base' + count')
        BY <1>1, <2>6, <3>3
      <3> HIDE DEF s
      <3>5. Out' - 4 = s
        BY <2>8 DEF s
      <3> QED
        BY <3>1, <3>2, <3>4, <3>5, Zenon DEF FarTail, At
    <2> QED
      BY <1>2, <2>3, <2>4, <2>5, <2>9
  <1>6. CASE ~(Abs(rel) > 2 * BranchHalf - 1)
    <2>1. copy' = copy \o <<word>>
      BY <1>1, <1>6
    <2>2. word \in Words
      <3>1. HasRoom("b", Encode("b", rel)) /\ Encode("b", rel) \in Int
        BY <1>3, EncodeFits DEF Half
      <3> QED
        BY <3>1, WordType DEF Ops, Kinds, Branches
    <2> HIDE DEF word
    <2>3. <<word>> \in Seq(Words) /\ Len(<<word>>) = 1 /\ <<word>>[1] = word
      BY <2>2
    <2>4. /\ copy' \in Seq(Words) /\ Len(copy') = Len(copy) + 1
          /\ \A x \in 1 .. Len(copy) : copy'[x] = copy[x]
          /\ copy'[Len(copy) + 1] = word
      <3> DEFINE ws == <<word>>
      <3>0. ws \in Seq(Words) /\ Len(ws) = 1 /\ ws[1] = word /\ copy' = copy \o ws
        BY <2>1, <2>3
      <3> HIDE DEF ws
      <3>1. /\ copy' \in Seq(Words) /\ Len(copy') = Len(copy) + Len(ws)
            /\ \A x \in 1 .. Len(copy) : copy'[x] = copy[x]
            /\ \A x \in 1 .. Len(ws) : copy'[Len(copy) + x] = ws[x]
        BY <1>2, <3>0, TwoWords
      <3> QED
        BY <3>0, <3>1
    <2>5. NearTail'
      <3>1. Out' = tramp + Len(copy')
        BY <1>1 DEF Out
      <3>2. tail' = Out' - 1 /\ tail' >= tramp'
        BY <1>1, <1>2, <2>4, <3>1
      <3>3. base' + count' - tail' = rel
        BY <1>1, <1>2
      <3>4. Abs(rel) <= 2 * BranchHalf - 1
        BY <1>3, <1>6 DEF Abs
      <3>5. tail' - tramp' + 1 = Len(copy) + 1
        BY <1>1, <1>2
      <3>6. copy'[tail' - tramp' + 1] = Word("b", Encode("b", rel))
        BY <2>4, <3>5 DEF word
      <3> HIDE DEF rel
      <3> QED
        BY <3>2, <3>3, <3>4, <3>6, Zenon DEF NearTail, At
    <2> QED
      BY <1>2, <2>4, <2>5
  <1> QED
    BY <1>5, <1>6

LEMMA JumpBackKeeps ==
    ASSUME FixInv, JumpBack
    PROVE  FixInv'
  <1>1. /\ Len(code) = count /\ tail = 0 /\ tail' = Out
        /\ UNCHANGED <<family, base, count, tramp, code, ins, ends, fmap>>
    BY DEF JumpBack, input
  <1>2. ContextInv /\ RoomInv /\ SpanInv /\ WaitInv /\ BehindInv
    BY DEF FixInv
  <1>3. /\ copy' \in Seq(Words) /\ Len(copy') \in Nat
        /\ Len(copy) <= Len(copy') /\ Len(copy') <= Len(copy) + 5
        /\ \A x \in 1 .. Len(copy) : copy'[x] = copy[x]
        /\ NearTail' \/ FarTail'
    BY JumpBackWords
  <1>4. /\ tramp \in Nat \ {0} /\ count \in 1 .. 5 /\ Len(copy) \in Nat
        /\ Out = tramp + Len(copy) /\ Out \in Nat
        /\ Placed = 0 .. count - 1
    BY <1>1, <1>2, ContextTypes
  <1>5. tail' # 0 /\ Placed' = Placed
    BY <1>1, <1>4 DEF Placed
  <1>6. ContextInv'
    BY <1>1, <1>2, <1>3, <1>4 DEF ContextInv
  <1>7. RoomInv'
    BY <1>1, <1>2, <1>3, <1>4, <1>5 DEF RoomInv, Done
  <1>8. \A k \in Placed : /\ ins[k] \in Nat /\ ends[k] \in Nat
                          /\ tramp <= ins[k] /\ ins[k] <= ends[k] /\ ends[k] <= Out
    <2>1. Placed \subseteq Indices
      BY <1>4 DEF Indices, A64_MAX_INSTRUCTIONS
    <2>2. ins \in [Indices -> Nat] /\ ends \in [Indices -> Nat]
      BY <1>2 DEF ContextInv
    <2>3. \A k \in Placed : tramp <= ins[k] /\ ins[k] <= ends[k] /\ ends[k] <= Out
      BY <1>2 DEF SpanInv
    <2> QED
      BY <2>1, <2>2, <2>3
  <1>9. SpanInv'
    <2>1. Out' = tramp + Len(copy')
      BY <1>1 DEF Out
    <2>2. Out' >= Out /\ Out' \in Nat
      BY <1>3, <1>4, <2>1
    <2>3. \A k \in Placed : tramp <= ins[k] /\ ins[k] <= ends[k] /\ ends[k] <= Out'
      BY <1>4, <1>8, <2>2
    <2> QED
      BY <1>1, <1>2, <1>5, <2>3 DEF SpanInv
  <1>10. WaitInv'
    <2>1. \A k \in Indices : fmap[k] = {}
      BY <1>1, <1>2, <1>4 DEF WaitInv
    <2> QED
      BY <1>1, <2>1 DEF WaitInv
  <1>11. BehindInv'
    <2> SUFFICES ASSUME NEW k \in Placed, ends[k] > ins[k] + 1, code[k + 1].kind # "b"
                 PROVE  /\ At(ins[k] + 1)'.op \in {"b", "adr30"}
                        /\ ins'[k] + 1 + At(ins[k] + 1)'.imm = ends'[k]
      BY <1>1, <1>5 DEF BehindInv
    <2>1. /\ At(ins[k] + 1).op \in {"b", "adr30"}
          /\ ins[k] + 1 + At(ins[k] + 1).imm = ends[k]
      BY <1>2 DEF BehindInv
    <2>2. ins[k] + 1 \in tramp .. Out - 1
      <3> DEFINE first == ins[k]
                 last  == ends[k]
      <3>1. /\ first \in Nat /\ last \in Nat
            /\ tramp <= first /\ last <= Out /\ last > first + 1
        BY <1>8
      <3>2. tramp \in Nat /\ Out \in Nat
        BY <1>4
      <3> HIDE DEF first, last
      <3>3. first + 1 \in tramp .. Out - 1
        BY <3>1, <3>2
      <3> QED
        BY <3>3 DEF first
    <2>3. At(ins[k] + 1)' = At(ins[k] + 1)
      <3>1. \A a \in tramp .. Out - 1 : copy'[a - tramp + 1] = copy[a - tramp + 1]
        BY <1>3, <1>4
      <3> QED
        BY <1>1, <2>2, <3>1 DEF At
    <2> QED
      BY <1>1, <2>1, <2>3
  <1>12. TailInv'
    BY <1>1, <1>3 DEF TailInv
  <1> QED
    BY <1>6, <1>7, <1>9, <1>10, <1>11, <1>12 DEF FixInv

LEMMA InitFix == Init => FixInv
  <1> SUFFICES ASSUME Init PROVE FixInv
    OBVIOUS
  <1>1. base \in Nat /\ tramp \in Nat \ {0} /\ tail = 0
    BY InputAssumption DEF Init
  <1>2. count \in {1, 4, 5} /\ count \in 0 .. A64_MAX_INSTRUCTIONS
    BY <1>1 DEF Init, A64_MAX_INSTRUCTIONS
  <1>3. Len(code) = 0 /\ Len(copy) = 0 /\ code = <<>> /\ copy = <<>>
    BY DEF Init
  <1>4. Placed = {}
    BY <1>3 DEF Placed
  <1>5. base + count \notin tramp .. tramp + RowWords - 1
    <2> SUFFICES ASSUME base + count \in tramp .. tramp + RowWords - 1
                 PROVE  FALSE
      OBVIOUS
    <2>1. RowWords \in Nat
      BY DEF RowWords, A64_MAX_INSTRUCTIONS
    <2>2. PICK x \in 0 .. RowWords - 1 : base + count = tramp + x
      <3>1. /\ base + count - tramp \in 0 .. RowWords - 1
            /\ base + count = tramp + (base + count - tramp)
        BY <1>1, <1>2, <2>1 DEF A64_MAX_INSTRUCTIONS
      <3> QED
        BY <3>1
    <2> QED
      BY <1>2, <2>2 DEF Init
  <1>6. ContextInv
    <2>1. code \in Seq(Families[family].instrs \cup {Plain}) /\ copy \in Seq(Words)
      BY <1>3
    <2>2. Len(code) <= count
      BY <1>2, <1>3
    <2>3. fmap \in [Indices -> SUBSET Int] /\ ins \in [Indices -> Nat] /\ ends \in [Indices -> Nat]
      BY DEF Init
    <2> QED
      BY <1>1, <1>2, <1>5, <2>1, <2>2, <2>3 DEF ContextInv, Init
  <1>7. RoomInv /\ TailInv
    BY <1>1, <1>3 DEF RoomInv, TailInv, Done
  <1>8. SpanInv /\ BehindInv
    BY <1>4 DEF SpanInv, BehindInv
  <1>9. WaitInv
    BY DEF WaitInv, Init
  <1> QED
    BY <1>6, <1>7, <1>8, <1>9 DEF FixInv

LEMMA NextFix == FixInv /\ [Next]_vars => FixInv'
  <1> SUFFICES ASSUME FixInv, [Next]_vars PROVE FixInv'
    OBVIOUS
  <1>1. CASE Fix
    BY <1>1, FixKeeps
  <1>2. CASE JumpBack
    BY <1>2, JumpBackKeeps
  <1>3. CASE FixCrash \/ UNCHANGED vars
    <2>1. UNCHANGED <<family, base, count, tramp, code, copy, ins, ends, fmap, tail>>
      BY <1>3 DEF vars, input, FixCrash, FixLoadCrash
    <2> QED
      BY <2>1 DEF FixInv, ContextInv, RoomInv, SpanInv, WaitInv, BehindInv,
                  TailInv, NearTail, FarTail, Placed, Done, Out, At
  <1> QED
    BY <1>1, <1>2, <1>3 DEF Next

LEMMA FixAlways == Spec => []FixInv
  <1> QED
    BY InitFix, NextFix, PTL DEF Spec

\* The process crashes only at a load with a negative offset: any other is copied from
\* its own literal, which can be read (And64InlineHook.cpp:292-308).
FaultInv ==
    /\ fault \in Families[family].instrs \cup {Plain}
    /\ fault # Plain => fault.off < 0

LEMMA FaultAlways == Spec => []FaultInv
  <1>1. Init => FaultInv
    BY DEF Init, FaultInv
  <1>2. FixInv /\ FaultInv /\ [Next]_vars => FaultInv'
    <2> SUFFICES ASSUME FixInv, FaultInv, [Next]_vars PROVE FaultInv'
      OBVIOUS
    <2>1. CASE FixCrash
      <3>1. PICK i \in Families[family].instrs : FixLoadCrash(i)
        BY <2>1 DEF FixCrash
      <3>2. fault' = i /\ family' = family /\ i.kind \in Loads /\ ~Reads(i)
        BY <3>1 DEF FixLoadCrash, input
      <3>3. /\ base \in Bases /\ base \in Nat /\ Len(code) \in Indices
            /\ i \in Instrs /\ family \in DOMAIN Families
        <4>1. ContextInv
          BY DEF FixInv
        <4>2. base \in Bases /\ family \in DOMAIN Families /\ i \in Instrs
          BY <4>1, InputAssumption DEF ContextInv, Instrs
        <4>3. base \in Nat /\ Len(code) \in 0 .. count /\ count \in 1 .. 5 /\ Len(code) < count
          BY <2>1, <4>1, ContextTypes DEF FixCrash
        <4>4. Len(code) \in Indices
          <5>1. PICK n : n = Len(code)
            OBVIOUS
          <5>2. n \in 0 .. count /\ count \in 1 .. 5 /\ n < count
            BY <4>3, <5>1
          <5>3. n \in 0 .. 5 - 1
            BY ONLY <5>2
          <5> QED
            BY <5>1, <5>3 DEF Indices, A64_MAX_INSTRUCTIONS
        <4> QED
          BY <4>2, <4>3, <4>4
      <3>4. ASSUME i.off >= 0
            PROVE  FALSE
        <4>1. i.off \in Nat /\ i.off < Wrap /\ Wrap \in Nat
          <5>1. i.off \in Int /\ HasRoom(i.kind, i.off) /\ Half[i.kind] = CondHalf
            BY <3>2, <3>3, InputAssumption DEF Instrs, Loads, Half
          <5>2. i.off \in -CondHalf .. CondHalf - 1
            BY <5>1 DEF HasRoom
          <5> QED
            BY <3>4, <5>1, <5>2
        <4>2. Target(i) = base + Len(code) + i.off
          <5>1. i.off % Wrap = i.off
            BY ONLY <4>1
          <5>2. Target(i) = Here + (i.off % Wrap)
            <6>1. /\ i.kind \notin Branches /\ i.kind \notin Tests /\ i.kind # "adrp"
                  /\ i.kind \in Loads \cup {"adr"}
              BY <3>2 DEF Loads, Branches, Tests
            <6> QED
              BY <6>1, Zenon DEF Target
          <5> QED
            BY <5>1, <5>2 DEF Here
        <4>3. \A x \in 0 .. Size[i.kind] - 1 : base + Len(code) + i.off + x \in Mapped
          BY <3>2, <3>3, MappedAssumption
        <4> QED
          BY <3>2, <4>2, <4>3 DEF Reads
      <3> QED
        BY <3>2, <3>3, <3>4 DEF FaultInv, Instrs
    <2>2. CASE Fix
      <3>1. UNCHANGED <<family, fault>>
        <4>1. PICK i : Handed(i)
          BY <2>2, FixHands
        <4> QED
          BY <4>1, Zenon DEF Handed, Emit, input
      <3> QED
        BY <3>1 DEF FaultInv
    <2>3. CASE JumpBack \/ UNCHANGED vars
      BY <2>3 DEF JumpBack, vars, input, FaultInv
    <2> QED
      BY <2>1, <2>2, <2>3 DEF Next
  <1> QED
    BY <1>1, <1>2, FixAlways, PTL DEF Spec

-----------------------------------------------------------------------------
(* The theorems *)

\* Type correctness of the copying loop: a field holds what its bits hold and
\* a word waits only for an instruction to come
\* (And64InlineHook.cpp:52-111, 428-450).
THEOREM TypeCorrect == Spec => []TypeOK
  <1>1. FixInv /\ FaultInv => TypeOK
    <2> SUFFICES ASSUME FixInv, FaultInv PROVE TypeOK
      OBVIOUS
    <2>1. ContextInv /\ WaitInv
      BY DEF FixInv
    <2>2. copy \in Seq([op : Ops, imm : Int, stray : BOOLEAN])
      <3>1. copy \in Seq(Words) /\ Words \subseteq [op : Ops, imm : Int, stray : BOOLEAN]
        BY <2>1 DEF ContextInv, Words
      <3> QED
        BY <3>1, SeqMonotonic
    <2>3. \A x \in DOMAIN copy : copy[x].op \in DOMAIN Half => HasRoom(copy[x].op, copy[x].imm)
      <3>1. DOMAIN copy = 1 .. Len(copy) /\ \A x \in 1 .. Len(copy) : copy[x] \in Words
        BY <2>1, ContextTypes
      <3> QED
        BY <3>1 DEF Words
    <2>4. \A k \in Indices : fmap[k] # {} => k \in Len(code) .. count - 1
      BY <2>1 DEF WaitInv
    <2> QED
      BY <2>1, <2>2, <2>3, <2>4 DEF TypeOK, ContextInv, FaultInv
  <1> QED
    BY <1>1, FixAlways, FaultAlways, PTL

\* No prologue of at most five instructions, whatever they are and wherever
\* the trampoline lies, takes more than its row of the pool
\* (And64InlineHook.cpp:494-495).
THEOREM Fits == Spec => []CopyFitsRow
  <1>1. FixInv => CopyFitsRow
    BY RoomLeft DEF CopyFitsRow
  <1> QED
    BY <1>1, FixAlways, PTL

\* Control that reaches NOPs goes on behind them.
LEMMA Settles ==
    ASSUME FixInv, NEW a \in tramp .. Out - 1, NEW b \in a .. Out - 1,
           At(b).op # "nop", \A x \in a .. b - 1 : At(x).op = "nop"
    PROVE  InCopy(a) /\ Settle(a) = b
  <1>1. tramp \in Nat /\ Out \in Nat /\ Out = tramp + Len(copy)
    BY ContextTypes DEF FixInv
  <1>2. InCopy(a)
    BY <1>1 DEF InCopy
  <1> DEFINE Good(c) == /\ c = tramp + Len(copy) \/ At(c).op # "nop"
                        /\ \A x \in a .. c - 1 : At(x).op = "nop"
  <1>3. Settle(a) = CHOOSE c \in a .. tramp + Len(copy) : Good(c)
    BY <1>2, Zenon DEF Settle
  <1>4. Good(b)
    OBVIOUS
  <1>5. b \in a .. tramp + Len(copy)
    BY <1>1
  <1>6. \A c \in a .. tramp + Len(copy) : Good(c) => c = b
    <2> SUFFICES ASSUME NEW c \in a .. Out, Good(c)
                 PROVE  c = b
      BY <1>1
    <2>1. ~(b < c)
      <3>1. b < c => b \in a .. c - 1
        OBVIOUS
      <3> QED
        BY <3>1
    <2>2. ~(c < b)
      <3>1. c < b => c \in a .. b - 1 /\ c # Out
        BY <1>1
      <3> QED
        BY <1>1, <3>1
    <2> QED
      BY <1>1, <2>1, <2>2
  <1> HIDE DEF Good
  <1>7. (CHOOSE c \in a .. tramp + Len(copy) : Good(c)) = b
    BY <1>4, <1>5, <1>6, Zenon
  <1> QED
    BY <1>2, <1>3, <1>7

\* The instruction behind the prologue is not in the copy: control that
\* reaches it stays there.
LEMMA LandsBehind ==
    ASSUME FixInv
    PROVE  Land(base + count) = base + count
  <1>1. /\ base + count \notin tramp .. tramp + RowWords - 1
        /\ tramp \in Nat /\ base \in Nat /\ count \in Nat
    <2>1. tramp \in Nat /\ base \in Nat /\ count \in 1 .. 5
      BY ContextTypes DEF FixInv
    <2> QED
      BY <2>1 DEF FixInv, ContextInv
  <1>2. Len(copy) \in Nat /\ Len(copy) <= RowWords /\ RowWords \in Nat
    BY RoomLeft DEF RowWords, A64_MAX_INSTRUCTIONS
  <1>3. ~InCopy(base + count)
    BY <1>1, <1>2 DEF InCopy
  <1>4. Settle(base + count) = base + count
    BY <1>3, Zenon DEF Settle
  <1> QED
    BY <1>3, <1>4, Zenon DEF Land

\* Once the trampoline is complete, no copy runs into its literals, and the
\* jump back leads behind the prologue or is the branch that reaches half as
\* far as the code takes it to (And64InlineHook.cpp:153, 221, 307, 362, 411,
\* 452-467).
THEOREM LeavesBehind == Spec => []FallsThrough
  <1>1. FixInv => FallsThrough
    <2> SUFFICES ASSUME FixInv, Done PROVE FallsThrough
      BY DEF FallsThrough
    <2> DEFINE Back == LET s == Settle(tail)
                       IN  \/ Land(IF At(s).op = "b" THEN s + At(s).imm ELSE s) = base + count
                           \/ At(s).op = "b" /\ ~HasRoom("b", base + count - s)
    <2>1. \A k \in Placed :
             LET a == ins[k] IN
             (ends[k] > a + 1 /\ code[k + 1].kind # "b") =>
                At(a + 1).op \in {"b", "adr30"} /\ a + 1 + At(a + 1).imm = ends[k]
      BY DEF FixInv, BehindInv
    <2>2. /\ tramp \in Nat /\ Out \in Nat /\ Out = tramp + Len(copy) /\ Len(copy) \in Nat
          /\ base \in Nat /\ count \in Nat /\ tail \in Nat
      <3>1. tramp \in Nat /\ Out \in Nat /\ Out = tramp + Len(copy) /\ Len(copy) \in Nat
            /\ base \in Nat /\ count \in 1 .. 5
        BY ContextTypes DEF FixInv
      <3> QED
        BY <3>1 DEF FixInv, ContextInv
    <2>3. ASSUME NearTail PROVE Back
      <3> DEFINE rel == base + count - tail
      <3>1. tail = Out - 1 /\ tail >= tramp /\ At(tail) = Word("b", Encode("b", rel))
        BY <2>3 DEF NearTail
      <3>2. rel \in Int
        BY <2>2
      <3> HIDE DEF rel
      <3>3. At(tail).op = "b" /\ At(tail).imm = Encode("b", rel)
        BY <3>1 DEF Word
      <3>4. Settle(tail) = tail
        <4>1. tail \in tramp .. Out - 1
          BY <2>2, <3>1
        <4> QED
          BY <2>2, <3>1, <3>3, <4>1, Settles
      <3>5. CASE HasRoom("b", rel)
        <4>1. Encode("b", rel) = rel
          BY <3>2, <3>5, EncodeExact DEF Half
        <4>2. tail + At(tail).imm = base + count
          BY <2>2, <3>3, <4>1 DEF rel
        <4> QED
          BY <3>3, <3>4, <4>2, LandsBehind, Zenon
      <3> QED
        BY <3>3, <3>4, <3>5, Zenon DEF rel
    <2>4. ASSUME FarTail PROVE Back
      <3> DEFINE s == Out - 4
      <3>1. /\ tail = s \/ (tail = s - 1 /\ At(tail).op = "nop")
            /\ tail >= tramp
            /\ At(s) = Ldr17(2) /\ At(s + 1) = Br17
            /\ At(s + 2) = Word("data", base + count)
        BY <2>4 DEF FarTail
      <3>2. /\ At(s).op = "ldr17" /\ At(s).imm = 2 /\ At(s + 1).op = "br17"
            /\ At(s + 2).op = "data" /\ At(s + 2).imm = base + count
        BY <3>1 DEF Ldr17, Br17, Word
      <3>3. s \in tramp .. Out - 1 /\ s \in tail .. Out - 1 /\ tail \in tramp .. Out - 1
        <4>1. tail \in {s, s - 1} /\ tail >= tramp
          BY <3>1
        <4>2. s = Out - 4
          OBVIOUS
        <4> HIDE DEF s
        <4> QED
          BY <2>2, <4>1, <4>2
      <3>4. \A x \in tail .. s - 1 : At(x).op = "nop"
        <4> SUFFICES ASSUME NEW x \in tail .. s - 1 PROVE At(x).op = "nop"
          OBVIOUS
        <4>1. x = tail /\ tail = s - 1
          BY <2>2, <3>1
        <4> QED
          BY <3>1, <4>1, <2>2
      <3> HIDE DEF s
      <3>5. Settle(tail) = s
        BY <3>2, <3>3, <3>4, Settles
      <3>6. InCopy(s) /\ Settle(s) = s
        <4>1. s \in s .. Out - 1 /\ \A x \in s .. s - 1 : At(x).op = "nop"
          BY <2>2, <3>3
        <4> QED
          BY <3>2, <3>3, <4>1, Settles
      <3>7. Land(s) = base + count
        BY <3>2, <3>6, Zenon DEF Land
      <3> QED
        BY <3>2, <3>5, <3>7, Zenon
    <2>5. NearTail \/ FarTail
      BY DEF FixInv, TailInv
    <2>6. Back
      BY <2>3, <2>4, <2>5
    <2> QED
      BY <2>1, <2>6 DEF FallsThrough
  <1> QED
    BY <1>1, FixAlways, PTL

-----------------------------------------------------------------------------
(* What the copies mean *)

Refers(k) == TargetAt(code[k + 1], k)

\* The copy of instruction k is one word; a reference to an instruction that is still
\* to come waits, and any other has been put in.
ShortForm(k) ==
    LET i == code[k + 1]
        a == ins[k]
        t == Refers(k)
    IN  /\ ends[k] = a + 1 /\ At(a).op = i.kind
        /\ ~InRange(t) => Reached(i.kind, t - a) /\ At(a).imm = Encode(i.kind, t - a)
        /\ (InRange(t) /\ Index(t) >= Len(code)) => a \in fmap[Index(t)]
        /\ (InRange(t) /\ Index(t) < Len(code)) =>
              At(a).imm = Encode(i.kind, ins[Index(t)] - a)

\* The copy of instruction k goes through a literal.
LongForm(k) ==
    LET w == Long(code[k + 1], Refers(k))
    IN  /\ ends[k] = ins[k] + Len(w)
        /\ \A x \in 1 .. Len(w) : At(ins[k] + (x - 1)) = w[x]
        /\ code[k + 1].kind \in Tests => ~InRow(Refers(k))

\* The copy of instruction k is one word of its own kind.
Kept(k) == ends[k] = ins[k] + 1 /\ At(ins[k]).op = code[k + 1].kind

\* Each copy has one of these forms (And64InlineHook.cpp:115-424).
Form(k) ==
    LET kind == code[k + 1].kind IN
    /\ kind \in Branches \cup Tests \cup {"adr"} =>
          ShortForm(k) \/ (~InRange(Refers(k)) /\ LongForm(k))
    /\ kind \in Loads => (~InRange(Refers(k)) /\ ShortForm(k)) \/ LongForm(k)
    /\ kind = "adrp" => (InRange(Refers(k)) /\ Kept(k)) \/ (~InRange(Refers(k)) /\ LongForm(k))
    /\ kind = "plain" => ends[k] = ins[k] + 1 /\ At(ins[k]) = Word("plain", k)

\* What waits for the copy of an instruction refers to that instruction
\* (And64InlineHook.cpp:88-111).
Waiting(x, bp) == \E j \in Placed : /\ bp = ins[j] /\ ends[j] = ins[j] + 1
                                    /\ InRange(Refers(j)) /\ Index(Refers(j)) = x

FormInv   == \A k \in Placed : Form(k)
OriginInv == \A x \in Indices : \A bp \in fmap[x] : Waiting(x, bp)

\* The words of a copy that goes through a literal.
LongWords(kind, t, w) ==
    /\ kind = "b" => /\ Len(w) = 4 /\ w[1] = Ldr17(2) /\ w[2] = Br17
                     /\ w[3] = Word("data", t)
    /\ kind = "bl" => /\ Len(w) = 5 /\ w[1] = Ldr17(3) /\ w[2] = Word("adr30", 4)
                      /\ w[3] = Br17 /\ w[4] = Word("data", t)
    /\ kind \in Tests => /\ Len(w) = 6 /\ w[1] = Word(kind, 2) /\ w[3] = Ldr17(2)
                         /\ w[4] = Br17 /\ w[5] = Word("data", t)
    /\ kind \in {"adr", "adrp"} => /\ Len(w) = 4 /\ w[1] = Word("ldrx", 2)
                                   /\ w[3] = Word("data", t)
    /\ kind \in Loads => /\ Len(w) = 2 + Size[kind] /\ w[1] = Word(kind, 2)
                         /\ \A x \in 1 .. Size[kind] : w[2 + x] = Word("contents", t + x - 1)

\* A sequence with a literal behind it.
Fronts(w, front, n, t) ==
    /\ Len(w) = n + 2 /\ w[n + 1] = Word("data", t)
    /\ \A x \in 1 .. n : w[x] = front[x]

LEMMA PointerBehind ==
    ASSUME NEW front \in Seq(Words), NEW n \in 2 .. 4, Len(front) = n, NEW t \in Int
    PROVE  Fronts(front \o Pointer(t), front, n, t)
  <1>1. /\ Pointer(t) \in Seq(Words) /\ Len(Pointer(t)) = 2
        /\ Pointer(t)[1] = Word("data", t)
    BY PointerType
  <1> DEFINE w == front \o Pointer(t)
  <1>2. /\ Len(w) = Len(front) + Len(Pointer(t))
        /\ \A x \in 1 .. Len(front) : w[x] = front[x]
        /\ \A x \in 1 .. Len(Pointer(t)) : w[Len(front) + x] = Pointer(t)[x]
    BY <1>1, TwoWords
  <1> HIDE DEF w
  <1>3. Len(w) = n + 2 /\ w[n + 1] = Word("data", t) /\ \A x \in 1 .. n : w[x] = front[x]
    BY <1>1, <1>2
  <1> QED
    BY <1>3 DEF w, Fronts

LEMMA LongHas ==
    ASSUME NEW i, i.kind \in DOMAIN Half, NEW t \in Int
    PROVE  LongWords(i.kind, t, Long(i, t)) /\ Len(Long(i, t)) \in 3 .. 6
  <1>1. Word(i.kind, 2) \in Words /\ Word("ldrx", 2) \in Words
    <2>1. i.kind \in Ops /\ "ldrx" \in Ops /\ 2 \in 0 .. RowWords
      BY DEF Half, Ops, Kinds, Branches, Tests, Loads, RowWords, A64_MAX_INSTRUCTIONS
    <2> QED
      BY <2>1, SmallType
  <1> DEFINE w == Long(i, t)
  <1>3. CASE i.kind = "b"
    <2> DEFINE front == <<Ldr17(2), Br17>>
    <2>1. i.kind \notin {"bl", "adr", "adrp"} /\ i.kind \notin Tests \cup Loads
      BY <1>3 DEF Tests, Loads
    <2>2. front \in Seq(Words) /\ Len(front) = 2 /\ front[1] = Ldr17(2) /\ front[2] = Br17
      BY <1>1, JumpWords
    <2>3. w = front \o Pointer(t)
      BY <1>3, <2>1, Zenon DEF Long
    <2> HIDE DEF w, front
    <2>4. Fronts(w, front, 2, t)
      BY <2>2, <2>3, PointerBehind
    <2>5. Len(w) = 4 /\ w[3] = Word("data", t) /\ \A x \in 1 .. 2 : w[x] = front[x]
      BY <2>4 DEF Fronts
    <2>6. LongWords(i.kind, t, w) /\ Len(w) \in 3 .. 6
      BY <1>3, <2>1, <2>2, <2>5 DEF LongWords
    <2> QED
      BY <2>6 DEF w
  <1>4. CASE i.kind = "bl"
    <2> DEFINE front == <<Ldr17(3), Word("adr30", 4), Br17>>
    <2>1. i.kind \notin {"b", "adr", "adrp"} /\ i.kind \notin Tests \cup Loads
      BY <1>4 DEF Tests, Loads
    <2>2. front \in Seq(Words) /\ Len(front) = 3
          /\ front[1] = Ldr17(3) /\ front[2] = Word("adr30", 4) /\ front[3] = Br17
      BY <1>1, JumpWords
    <2>3. w = front \o Pointer(t)
      BY <1>4, <2>1, Zenon DEF Long
    <2> HIDE DEF w, front
    <2>4. Fronts(w, front, 3, t)
      BY <2>2, <2>3, PointerBehind
    <2>5. Len(w) = 5 /\ w[4] = Word("data", t) /\ \A x \in 1 .. 3 : w[x] = front[x]
      BY <2>4 DEF Fronts
    <2>6. LongWords(i.kind, t, w) /\ Len(w) \in 3 .. 6
      BY <1>4, <2>1, <2>2, <2>5 DEF LongWords
    <2> QED
      BY <2>6 DEF w
  <1>5. CASE i.kind \in Tests
    <2> DEFINE front == <<Word(i.kind, 2), Word("b", 5), Ldr17(2), Br17>>
    <2>1. i.kind \notin {"b", "bl", "adr", "adrp"} /\ i.kind \notin Loads
      BY <1>5 DEF Tests, Loads
    <2>2. front \in Seq(Words) /\ Len(front) = 4
          /\ front[1] = Word(i.kind, 2) /\ front[3] = Ldr17(2) /\ front[4] = Br17
      BY <1>1, JumpWords
    <2>3. w = front \o Pointer(t)
      BY <1>5, <2>1, Zenon DEF Long
    <2> HIDE DEF w, front
    <2>4. Fronts(w, front, 4, t)
      BY <2>2, <2>3, PointerBehind
    <2>5. Len(w) = 6 /\ w[5] = Word("data", t) /\ \A x \in 1 .. 4 : w[x] = front[x]
      BY <2>4 DEF Fronts
    <2>6. LongWords(i.kind, t, w) /\ Len(w) \in 3 .. 6
      BY <1>5, <2>1, <2>2, <2>5 DEF LongWords
    <2> QED
      BY <2>6 DEF w
  <1>6. CASE i.kind \in {"adr", "adrp"}
    <2> DEFINE front == <<Word("ldrx", 2), Word("b", 3)>>
    <2>1. i.kind \notin {"b", "bl"} /\ i.kind \notin Tests \cup Loads
      BY <1>6 DEF Tests, Loads
    <2>2. front \in Seq(Words) /\ Len(front) = 2 /\ front[1] = Word("ldrx", 2)
      BY <1>1, JumpWords
    <2>3. w = front \o Pointer(t)
      BY <1>6, <2>1, Zenon DEF Long
    <2> HIDE DEF w, front
    <2>4. Fronts(w, front, 2, t)
      BY <2>2, <2>3, PointerBehind
    <2>5. Len(w) = 4 /\ w[3] = Word("data", t) /\ \A x \in 1 .. 2 : w[x] = front[x]
      BY <2>4 DEF Fronts
    <2>6. LongWords(i.kind, t, w) /\ Len(w) \in 3 .. 6
      BY <1>6, <2>1, <2>2, <2>5 DEF LongWords
    <2> QED
      BY <2>6 DEF w
  <1>7. CASE i.kind \in Loads
    <2> DEFINE front == <<Word(i.kind, 2), Word("b", 1 + Size[i.kind])>>
               n     == Size[i.kind]
               data  == Contents(t, n)
    <2>1. i.kind \notin {"b", "bl", "adr", "adrp"} /\ i.kind \notin Tests
      BY <1>7 DEF Tests, Loads
    <2>2. n \in {1, 2, 4}
      BY <1>7 DEF Loads, Size
    <2>3. Word("b", 1 + n) \in Words
      BY <2>2, JumpWords
    <2>4. front \in Seq(Words) /\ Len(front) = 2 /\ front[1] = Word(i.kind, 2)
      BY <1>1, <2>3
    <2>5. w = front \o data
      BY <1>7, <2>1, Zenon DEF Long
    <2>6. data \in Seq(Words) /\ Len(data) = n
      BY <2>2, ContentsType
    <2>7. \A x \in 1 .. n : data[x] = Word("contents", t + x - 1)
      BY DEF Contents
    <2> HIDE DEF w, front, data, n
    <2>8. /\ Len(w) = Len(front) + Len(data)
          /\ \A x \in 1 .. Len(front) : w[x] = front[x]
          /\ \A x \in 1 .. Len(data) : w[Len(front) + x] = data[x]
      BY <2>4, <2>5, <2>6, TwoWords
    <2>9. /\ Len(w) = 2 + n /\ w[1] = Word(i.kind, 2)
          /\ \A x \in 1 .. n : w[2 + x] = Word("contents", t + x - 1)
      <3>1. /\ Len(w) = 2 + n /\ \A x \in 1 .. 2 : w[x] = front[x]
            /\ \A x \in 1 .. n : w[2 + x] = data[x]
        BY <2>4, <2>6, <2>8
      <3>2. w[1] = Word(i.kind, 2)
        BY <2>4, <3>1
      <3> QED
        BY <2>7, <3>1, <3>2
    <2>10. LongWords(i.kind, t, w) /\ Len(w) \in 3 .. 6
      <3>1. LongWords(i.kind, t, w)
        BY <1>7, <2>1, <2>9, Zenon DEF LongWords, n
      <3> QED
        BY <2>2, <2>9, <3>1
    <2> QED
      BY <2>10 DEF w
  <1> QED
    BY <1>3, <1>4, <1>5, <1>6, <1>7 DEF Half, Tests, Loads

MeansInv == FixInv /\ FormInv /\ OriginInv

\* What changes when instruction i is copied to address at as instruction k,
\* as words of which the last waits for the copies of the instructions in waits.
Grown(k, i, at, words, waits) ==
    /\ k = Len(code) /\ k \in 0 .. 4 /\ k < count /\ count \in 1 .. 5
    /\ Len(code') = k + 1 /\ Placed = 0 .. k - 1 /\ Placed' = 0 .. k
    /\ base' = base /\ count' = count /\ tramp' = tramp
    /\ base \in Nat /\ tramp \in Nat /\ Out \in Nat /\ at \in Nat /\ at >= Out
    /\ Len(words) \in Nat /\ (\A x \in 1 .. Len(words) : words[x] \in Words)
    /\ \A j \in Placed : /\ code'[j + 1] = code[j + 1]
                         /\ ins'[j] = ins[j] /\ ends'[j] = ends[j]
                         /\ ins[j] \in tramp .. Out /\ ends[j] \in ins[j] .. Out
    /\ code'[k + 1] = i /\ ins'[k] = at /\ ends'[k] = at + Len(words)
    /\ \A x \in Indices : fmap'[x] = IF x = k THEN {}
                                     ELSE IF x \in waits THEN fmap[x] \cup {at}
                                     ELSE fmap[x]
    /\ \A a \in tramp .. Out - 1 : At(a)'.op = At(a).op
    /\ \A a \in tramp .. Out - 1 : a \notin fmap[k] => At(a)' = At(a)
    /\ \A a \in tramp .. Out - 1 : a \in fmap[k] => At(a)'.imm = Encode(At(a).op, at - a)
    /\ \A x \in 1 .. Len(words) : copy'[(at - tramp) + x] = words[x]

LEMMA EmitGrows ==
    ASSUME FixInv, NEW i, NEW pads, NEW words, NEW waits,
           Shape(i, pads, words, waits), Emit(i, pads, words, waits)
    PROVE  Grown(Len(code), i, Out + pads, words, waits)
  <1> DEFINE k  == Len(code)
             at == Out + pads
             n  == Len(words)
  <1>1. ContextInv /\ SpanInv /\ WaitInv
    BY DEF FixInv
  <1>2. /\ code' = Append(code, i)
        /\ ins' = [ins EXCEPT ![k] = at] /\ ends' = [ends EXCEPT ![k] = at + n]
        /\ fmap' = [x \in Indices |-> IF x = k THEN {}
                                      ELSE IF x \in waits THEN fmap[x] \cup {at}
                                      ELSE fmap[x]]
        /\ UNCHANGED <<family, base, count, tramp, tail>>
    BY DEF Emit, input
  <1>3. /\ tramp \in Nat /\ base \in Nat /\ count \in 1 .. 5 /\ k \in 0 .. count /\ k < count
        /\ Len(copy) \in Nat /\ Out = tramp + Len(copy) /\ pads \in Nat /\ Out \in Nat
        /\ Placed = 0 .. k - 1
    <2>1. pads \in Nat /\ k < count
      BY DEF Shape
    <2> QED
      BY <1>1, <2>1, ContextTypes
  <1>4. n \in Nat /\ \A x \in 1 .. n : words[x] \in Words
    <2>1. words \in Seq(Words)
      BY DEF Shape
    <2> QED
      BY <2>1, LenProperties, ElementOfSeq
  <1>5. \A x \in 1 .. n : copy'[Len(copy) + pads + x] = words[x]
    BY <1>1, EmitWords
  <1>14. /\ \A a \in tramp .. Out - 1 : At(a)'.op = At(a).op
         /\ \A a \in tramp .. Out - 1 : a \notin fmap[k] => At(a)' = At(a)
         /\ \A a \in tramp .. Out - 1 : a \in fmap[k] => At(a)'.imm = Encode(At(a).op, at - a)
    <2>1. /\ \A a \in tramp .. Out - 1 : At(a)'.op = At(a).op
          /\ \A a \in tramp .. Out - 1 : a \notin fmap[k] => At(a)' = At(a)
          /\ \A a \in tramp .. Out - 1 : a \in fmap[k] =>
                At(a)'.imm = Encode(At(a).op, Out + pads - a)
      BY <1>1, EmitWords
    <2>2. ASSUME NEW a \in tramp .. Out - 1, a \in fmap[k]
          PROVE  At(a)'.imm = Encode(At(a).op, at - a)
      <3>1. at - a = Out + pads - a
        BY <1>3
      <3> QED
        BY <2>1, <2>2, <3>1, Zenon
    <2> QED
      BY <2>1, <2>2
  <1>6. /\ Len(code') = k + 1 /\ code'[k + 1] = i
        /\ \A x \in 1 .. k : code'[x] = code[x]
    <2>1. code \in Seq(Families[family].instrs \cup {Plain})
          /\ i \in Families[family].instrs \cup {Plain}
      BY <1>1 DEF ContextInv, Shape
    <2> QED
      BY <1>2, <2>1
  <1> HIDE DEF n, k, at
  <1>7. /\ k \in 0 .. 4 /\ at \in Nat /\ at >= Out /\ Indices = 0 .. 4
        /\ Placed \subseteq Indices /\ k \in Indices
    BY <1>3 DEF Indices, A64_MAX_INSTRUCTIONS, at
  <1>8. Placed' = 0 .. k
    BY <1>3, <1>6 DEF Placed
  <1>9. /\ ins \in [Indices -> Nat] /\ ends \in [Indices -> Nat]
    BY <1>1 DEF ContextInv
  <1>10. \A j \in Placed : /\ code'[j + 1] = code[j + 1]
                           /\ ins'[j] = ins[j] /\ ends'[j] = ends[j]
                           /\ ins[j] \in tramp .. Out /\ ends[j] \in ins[j] .. Out
    <2> SUFFICES ASSUME NEW j \in Placed
                 PROVE  /\ code'[j + 1] = code[j + 1]
                        /\ ins'[j] = ins[j] /\ ends'[j] = ends[j]
                        /\ ins[j] \in tramp .. Out /\ ends[j] \in ins[j] .. Out
      OBVIOUS
    <2>1. j \in Indices /\ j # k /\ j + 1 \in 1 .. k
      BY <1>3, <1>7
    <2>2. ins'[j] = ins[j] /\ ends'[j] = ends[j]
      BY <1>2, <1>9, <2>1, Zenon
    <2>3. tramp <= ins[j] /\ ins[j] <= ends[j] /\ ends[j] <= Out
      BY <1>1 DEF SpanInv
    <2>4. ins[j] \in Nat /\ ends[j] \in Nat
      BY <1>9, <2>1
    <2>5. ins[j] \in tramp .. Out /\ ends[j] \in ins[j] .. Out
      BY <1>3, <2>3, <2>4
    <2>6. code'[j + 1] = code[j + 1]
      BY <1>6, <2>1
    <2> QED
      BY <2>2, <2>5, <2>6
  <1>11. ins'[k] = at /\ ends'[k] = at + n
    BY <1>2, <1>7, <1>9, Zenon
  <1>12. \A x \in Indices : fmap'[x] = IF x = k THEN {}
                                       ELSE IF x \in waits THEN fmap[x] \cup {at}
                                       ELSE fmap[x]
    BY <1>2, Zenon
  <1>13. \A x \in 1 .. n : copy'[(at - tramp) + x] = words[x]
    <2>1. at - tramp = Len(copy) + pads
      BY <1>3 DEF at
    <2> QED
      BY <1>5, <2>1, Zenon
  <1>15. k = Len(code) /\ n = Len(words) /\ at = Out + pads
    BY DEF k, n, at
  <1>16. Grown(k, i, at, words, waits)
    <2>1. /\ base' = base /\ count' = count /\ tramp' = tramp
      BY <1>2
    <2> QED
      BY <2>1, <1>3, <1>4, <1>6, <1>7, <1>8, <1>10, <1>11, <1>12, <1>13,
         <1>14, <1>15, Zenon DEF Grown
  <1> QED
    BY <1>15, <1>16

\* A word that waits is the whole copy of the instruction it belongs to, and
\* waits for the instruction that one refers to.
LEMMA WaitsFor ==
    ASSUME MeansInv, NEW m \in Placed, NEW x \in Indices, NEW a \in fmap[x],
           a \in ins[m] .. ends[m] - 1
    PROVE  /\ a = ins[m] /\ ends[m] = ins[m] + 1
           /\ InRange(Refers(m)) /\ Index(Refers(m)) = x
           /\ At(a).op \in DOMAIN Half
  <1>1. ContextInv /\ SpanInv /\ WaitInv
    BY DEF MeansInv, FixInv
  <1>2. PICK j \in Placed : /\ a = ins[j] /\ ends[j] = ins[j] + 1
                            /\ InRange(Refers(j)) /\ Index(Refers(j)) = x
    BY DEF MeansInv, OriginInv, Waiting
  <1>3. At(a).op \in DOMAIN Half
    BY <1>1 DEF WaitInv
  <1>4. j < m => ends[j] <= ins[m]
    BY <1>1 DEF SpanInv
  <1>5. m < j => ends[m] <= ins[j]
    BY <1>1 DEF SpanInv
  <1>6. j \in Nat /\ m \in Nat /\ ins[m] \in Nat /\ ends[m] \in Nat /\ ins[j] \in Nat
    <2>1. Placed = 0 .. Len(code) - 1 /\ count \in 1 .. 5 /\ Len(code) \in 0 .. count
      BY <1>1, ContextTypes
    <2>2. j \in Indices /\ m \in Indices
      BY <2>1 DEF Indices, A64_MAX_INSTRUCTIONS
    <2> QED
      BY <1>1, <2>2 DEF ContextInv, Indices
  <1>7. j = m
    BY <1>2, <1>4, <1>5, <1>6
  <1> QED
    BY <1>2, <1>3, <1>7

LEMMA RefersType ==
    ASSUME MeansInv, NEW m \in Placed, code[m + 1].kind \in DOMAIN Half
    PROVE  Refers(m) \in Int
  <1>1. ContextInv
    BY DEF MeansInv, FixInv
  <1> DEFINE n == Len(code)
  <1>2. /\ \A x \in 1 .. n : code[x] \in Instrs
        /\ n \in 0 .. count /\ count \in 1 .. 5 /\ Placed = 0 .. n - 1
    BY <1>1, ContextTypes
  <1> HIDE DEF n
  <1>3. m \in Nat /\ m + 1 \in 1 .. n
    BY <1>2
  <1> QED
    BY <1>1, <1>2, <1>3, TargetAtType DEF Refers

\* An instruction that has been copied goes on referring to the same address.
LEMMA SameRefers ==
    ASSUME NEW k, NEW i, NEW at, NEW words, NEW waits, Grown(k, i, at, words, waits),
           NEW m \in Placed
    PROVE  Refers(m)' = Refers(m)
  <1>1. code'[m + 1] = code[m + 1] /\ base' = base
    BY Zenon DEF Grown
  <1> QED
    BY <1>1, Zenon DEF Refers, TargetAt, Page

LEMMA NewRefers ==
    ASSUME NEW k, NEW i, NEW at, NEW words, NEW waits, Grown(k, i, at, words, waits)
    PROVE  Refers(k)' = Target(i)
  <1>1. code'[k + 1] = i /\ base' = base /\ Len(code) = k
    BY Zenon DEF Grown
  <1> QED
    BY <1>1, Zenon DEF Refers, TargetAt, Target, Page, Here

\* What holds of the copies so far still does.
LEMMA OldForms ==
    ASSUME MeansInv, NEW k, NEW i, NEW at, NEW words, NEW waits,
           Grown(k, i, at, words, waits), NEW m \in Placed
    PROVE  Form(m)'
  <1>0. PICK t, a, e, old : t = Refers(m) /\ a = ins[m] /\ e = ends[m] /\ old = code[m + 1]
    OBVIOUS
  <1>1. /\ base' = base /\ count' = count /\ tramp' = tramp
        /\ code'[m + 1] = old /\ ins'[m] = a /\ ends'[m] = e
    BY <1>0, Zenon DEF Grown
  <1>2. /\ k = Len(code) /\ Len(code') = k + 1 /\ k \in Indices /\ m \in 0 .. k - 1
        /\ base \in Nat /\ tramp \in Nat /\ Out \in Nat /\ count \in 1 .. 5
        /\ a \in tramp .. Out /\ e \in a .. Out /\ Placed = 0 .. k - 1
    <2>1. /\ k = Len(code) /\ Len(code') = k + 1 /\ k \in 0 .. 4 /\ Placed = 0 .. k - 1
          /\ base \in Nat /\ tramp \in Nat /\ Out \in Nat /\ count \in 1 .. 5
          /\ a \in tramp .. Out /\ e \in a .. Out
      BY <1>0, Zenon DEF Grown
    <2>2. k \in 0 .. 4
      BY <2>1, Zenon
    <2>3. k \in Indices
      BY <2>2 DEF Indices, A64_MAX_INSTRUCTIONS
    <2> QED
      BY <2>1, <2>3, Zenon
  <1>13. /\ \A b \in tramp .. Out - 1 : At(b)'.op = At(b).op
         /\ \A b \in tramp .. Out - 1 : b \notin fmap[k] => At(b)' = At(b)
         /\ \A b \in tramp .. Out - 1 : b \in fmap[k] => At(b)'.imm = Encode(At(b).op, at - b)
         /\ ins'[k] = at /\ \A j \in Placed : ins'[j] = ins[j]
    BY Zenon DEF Grown
  <1>3. Refers(m)' = t
    BY <1>0, SameRefers
  <1>4. \A b \in a .. e - 1 : b \notin fmap[k] => At(b)' = At(b)
    <2> TAKE b \in a .. e - 1
    <2>1. b \in tramp .. Out - 1
      BY <1>2
    <2> QED
      BY <1>13, <2>1, Zenon
  <1>5. \A b \in a .. e - 1 : \A x \in Indices : b \in fmap[x] =>
           /\ b = a /\ e = a + 1 /\ InRange(t) /\ Index(t) = x
           /\ At(a).op \in DOMAIN Half
    BY <1>0, WaitsFor
  <1>11. Form(m)
    BY DEF MeansInv, FormInv
  <1>6. (InRange(t) <=> InRange(t)') /\ Index(t)' = Index(t)
    BY <1>1 DEF InRange, Index
  <1>7. ASSUME ShortForm(m) PROVE ShortForm(m)'
    <2>1. /\ e = a + 1 /\ At(a).op = old.kind
          /\ ~InRange(t) => Reached(old.kind, t - a) /\ At(a).imm = Encode(old.kind, t - a)
          /\ (InRange(t) /\ Index(t) >= Len(code)) => a \in fmap[Index(t)]
          /\ (InRange(t) /\ Index(t) < Len(code)) =>
                At(a).imm = Encode(old.kind, ins[Index(t)] - a)
      BY <1>0, <1>7, Zenon DEF ShortForm
    <2>2. a \in a .. e - 1
      BY <1>2, <2>1
    <2>3. InRange(t) => Index(t) \in 0 .. count - 1 /\ Index(t) \in Indices
      BY <1>2 DEF InRange, Index, Indices, A64_MAX_INSTRUCTIONS
    <2>9. a \in tramp .. Out - 1
      BY <1>2, <2>1
    <2>4. At(a)'.op = old.kind
      BY <1>13, <2>1, <2>9, Zenon
    <2>5. ~InRange(t) => At(a)'.imm = Encode(old.kind, t - a)
      BY <1>2, <1>4, <1>5, <2>1, <2>2
    <2>6. (InRange(t) /\ Index(t) >= k + 1) => a \in fmap'[Index(t)]
      <3> SUFFICES ASSUME InRange(t), Index(t) >= k + 1 PROVE a \in fmap'[Index(t)]
        OBVIOUS
      <3>1. Index(t) \in Indices /\ Index(t) # k /\ Index(t) >= Len(code)
        BY <1>2, <2>3
      <3> QED
        BY <2>1, <3>1, Zenon DEF Grown
    <2>7. (InRange(t) /\ Index(t) < k + 1) => At(a)'.imm = Encode(old.kind, ins'[Index(t)] - a)
      <3> SUFFICES ASSUME InRange(t), Index(t) < k + 1
                   PROVE  At(a)'.imm = Encode(old.kind, ins'[Index(t)] - a)
        OBVIOUS
      <3>1. CASE Index(t) = k
        <4>1. a \in fmap[k]
          BY <1>2, <2>1, <3>1
        <4>2. At(a)'.imm = Encode(At(a).op, at - a)
          BY <1>13, <2>9, <4>1, Zenon
        <4>3. ins'[Index(t)] = at
          BY <1>13, <3>1, Zenon
        <4> QED
          BY <2>1, <4>2, <4>3, Zenon
      <3>2. CASE Index(t) < k
        <4>1. a \notin fmap[k]
          <5>1. k \in Int /\ Index(t) # k /\ k \in Indices
            BY <1>2, <2>3, <3>2
          <5> QED
            BY <1>5, <2>2, <5>1, Zenon
        <4>2. Index(t) \in Placed
          BY <1>2, <2>3, <3>2
        <4>3. ins'[Index(t)] = ins[Index(t)] /\ At(a)' = At(a)
          BY <1>4, <1>13, <2>2, <4>1, <4>2, Zenon
        <4> QED
          BY <1>2, <2>1, <3>2, <4>3
      <3>3. Index(t) = k \/ Index(t) < k
        <4>1. k \in 0 .. 4 /\ Index(t) \in 0 .. count - 1 /\ count \in 1 .. 5
          BY <1>2, <2>3, Zenon DEF Grown
        <4>2. PICK y : y = Index(t)
          OBVIOUS
        <4> QED
          BY ONLY Index(t) < k + 1, <4>1, <4>2
      <3> QED
        BY <3>1, <3>2, <3>3
    <2>8. ShortForm(m)'
      BY <1>1, <1>2, <1>3, <1>6, <2>1, <2>4, <2>5, <2>6, <2>7, Zenon DEF ShortForm
    <2> QED
      BY <2>8
  <1>8. ASSUME LongForm(m), old.kind \in DOMAIN Half
        PROVE  LongForm(m)'
    <2> DEFINE w == Long(old, t)
    <2>1. /\ e = a + Len(w) /\ \A x \in 1 .. Len(w) : At(a + (x - 1)) = w[x]
          /\ old.kind \in Tests => ~InRow(t)
      BY <1>0, <1>8, Zenon DEF LongForm
    <2>2. t \in Int
      BY <1>0, <1>8, RefersType
    <2>3. Len(w) \in 3 .. 6
      BY <1>8, <2>2, LongHas
    <2> HIDE DEF w
    <2>4. \A x \in 1 .. Len(w) : At(a + (x - 1))' = w[x]
      <3> TAKE x \in 1 .. Len(w)
      <3> DEFINE b == a + (x - 1)
      <3>1. b \in a .. e - 1 /\ e # a + 1
        <4>1. PICK n \in 3 .. 6 : n = Len(w)
          BY <2>3
        <4>2. x \in 1 .. n /\ e = a + n
          BY <2>1, <4>1
        <4>3. a \in Nat
          BY <1>2
        <4> QED
          BY ONLY <4>1, <4>2, <4>3
      <3>2. At(b) = w[x]
        BY <2>1
      <3> HIDE DEF b
      <3>3. b \notin fmap[k]
        BY <1>2, <1>5, <3>1
      <3>4. At(b)' = At(b)
        BY <1>4, <3>1, <3>3
      <3> QED
        BY <3>2, <3>4 DEF b
    <2>5. InRow(t)' <=> InRow(t)
      BY <1>1 DEF InRow
    <2> QED
      BY <1>1, <1>3, <2>1, <2>4, <2>5, Zenon DEF LongForm, w
  <1>12. ASSUME Kept(m) PROVE Kept(m)'
    <2>1. e = a + 1 /\ At(a).op = old.kind
      BY <1>0, <1>12, Zenon DEF Kept
    <2>2. a \in tramp .. Out - 1
      BY <1>2, <2>1
    <2>3. At(a)'.op = old.kind
      BY <1>13, <2>1, <2>2, Zenon
    <2> QED
      BY <1>1, <2>1, <2>3, Zenon DEF Kept
  <1>9. CASE old.kind = "plain"
    <2>1. e = a + 1 /\ At(a) = Word("plain", m)
      BY <1>0, <1>11, <1>9, Zenon DEF Form
    <2>2. At(a).op \notin DOMAIN Half /\ a \in a .. e - 1
      BY <1>2, <2>1 DEF Word, Half
    <2>3. At(a)' = At(a)
      BY <1>2, <1>4, <1>5, <2>2
    <2>4. old.kind \notin Branches \cup Tests \cup {"adr"} /\ old.kind \notin Loads
      BY <1>9 DEF Branches, Tests, Loads
    <2> QED
      BY <1>1, <1>9, <2>1, <2>3, <2>4, Zenon DEF Form
  <1>10. CASE old.kind # "plain"
    <2>1. old.kind \in Branches \cup Tests \cup {"adr", "adrp"} \cup Loads =>
            old.kind \in DOMAIN Half
      BY DEF Branches, Tests, Loads, Half
    <2> QED
      BY <1>0, <1>1, <1>3, <1>11, <1>6, <1>7, <1>8, <1>10, <1>12, <2>1, Zenon DEF Form
  <1> QED
    BY <1>9, <1>10

\* The new copy has one of the forms.
LEMMA NewForm ==
    ASSUME MeansInv, NEW k, NEW i, NEW pads, NEW at, NEW words, NEW waits, at = Out + pads,
           Says(i, pads, words, waits), Grown(k, i, at, words, waits)
    PROVE  Form(k)'
  <1>0. PICK t : t = Target(i)
    OBVIOUS
  <1>1. /\ base' = base /\ count' = count /\ tramp' = tramp
        /\ code'[k + 1] = i /\ ins'[k] = at /\ ends'[k] = at + Len(words)
        /\ k = Len(code) /\ Len(code') = k + 1 /\ Placed = 0 .. k - 1
        /\ base \in Nat /\ tramp \in Nat /\ count \in 1 .. 5 /\ at \in Nat /\ k \in 0 .. 4
        /\ \A x \in 1 .. Len(words) : copy'[(at - tramp) + x] = words[x]
    BY Zenon DEF Grown
  <1>2. Refers(k)' = t
    BY <1>0, NewRefers
  <1>3. (InRange(t) <=> InRange(t)') /\ Index(t)' = Index(t)
    BY <1>1 DEF InRange, Index
  <1>4. \A x \in 1 .. Len(words) : At(at + (x - 1))' = words[x]
    <2> TAKE x \in 1 .. Len(words)
    <2>1. PICK n : n = Len(words) /\ n \in Nat
      BY DEF Grown
    <2>2. at \in Nat /\ tramp \in Nat
      BY <1>1, Zenon
    <2>3. x \in 1 .. n
      BY <2>1, Zenon
    <2>4. (at + (x - 1)) - tramp + 1 = (at - tramp) + x
      BY ONLY <2>1, <2>2, <2>3
    <2> QED
      BY <1>1, <2>4, Zenon DEF At
  <1>5. Len(words) = 1 => At(at)' = words[1]
    <2> SUFFICES ASSUME Len(words) = 1 PROVE At(at)' = words[1]
      OBVIOUS
    <2>1. 1 \in 1 .. Len(words) /\ at + (1 - 1) = at
      BY <1>1
    <2> QED
      BY <1>4, <2>1, Zenon
  <1>6. ASSUME Immediate(i, pads, words, waits)
        PROVE  ShortForm(k)'
    <2>1. /\ Len(words) = 1 /\ words[1].op = i.kind
          /\ ~InRange(t) => Reached(i.kind, t - at) /\ words[1].imm = Encode(i.kind, t - at)
          /\ (InRange(t) /\ Index(t) > k) => Index(t) \in waits
          /\ (InRange(t) /\ Index(t) = k) => words[1].imm = Encode(i.kind, 0)
          /\ (InRange(t) /\ Index(t) < k) => words[1].imm = Encode(i.kind, ins[Index(t)] - at)
      BY <1>0, <1>1, <1>6, Zenon DEF Immediate
    <2>2. InRange(t) => Index(t) \in Indices /\ Index(t) \in 0 .. 4
      <3>1. base \in Nat /\ count \in 1 .. 5
        BY <1>1, Zenon
      <3> QED
        BY ONLY <3>1 DEF InRange, Index, Indices, A64_MAX_INSTRUCTIONS
    <2>3. (InRange(t) /\ Index(t) >= k + 1) => at \in fmap'[Index(t)]
      <3> SUFFICES ASSUME InRange(t), Index(t) >= k + 1 PROVE at \in fmap'[Index(t)]
        OBVIOUS
      <3>1. Index(t) > k /\ Index(t) # k
        <4>1. k \in 0 .. 4 /\ Index(t) \in 0 .. 4
          BY <1>1, <2>2, Zenon
        <4> QED
          BY <4>1
      <3>2. Index(t) \in waits
        BY <2>1, <3>1
      <3>3. fmap'[Index(t)] = fmap[Index(t)] \cup {at}
        BY <2>2, <3>1, <3>2, Zenon DEF Grown
      <3> QED
        BY <3>3
    <2>4. (InRange(t) /\ Index(t) < k + 1) =>
             words[1].imm = Encode(i.kind, ins'[Index(t)] - at)
      <3> SUFFICES ASSUME InRange(t), Index(t) < k + 1
                   PROVE  words[1].imm = Encode(i.kind, ins'[Index(t)] - at)
        OBVIOUS
      <3>1. CASE Index(t) = k
        <4>1. ins'[Index(t)] - at = 0
          BY <1>1, <3>1
        <4> QED
          BY <2>1, <3>1, <4>1, Zenon
      <3>2. CASE Index(t) < k
        <4>1. Index(t) \in Placed
          <5>1. Placed = 0 .. k - 1 /\ k \in 0 .. 4 /\ Index(t) \in 0 .. 4
            BY <1>1, <2>2, Zenon
          <5> QED
            BY ONLY <3>2, <5>1
        <4>2. ins'[Index(t)] = ins[Index(t)]
          <5>1. \A j \in Placed : ins'[j] = ins[j]
            BY Zenon DEF Grown
          <5> QED
            BY <4>1, <5>1, Zenon
        <4> QED
          BY <2>1, <3>2, <4>2
      <3>3. k \in 0 .. 4 /\ Index(t) \in 0 .. 4
        BY <1>1, <2>2, Zenon
      <3>4. Index(t) = k \/ Index(t) < k
        BY <3>3
      <3> QED
        BY <3>1, <3>2, <3>4, Zenon
    <2> QED
      BY <1>1, <1>2, <1>3, <1>5, <2>1, <2>3, <2>4, Zenon DEF ShortForm
  <1>7. ASSUME Indirect(i, words)
        PROVE  LongForm(k)'
    <2>1. words = Long(i, t) /\ (i.kind \in Tests => ~InRow(t))
      BY <1>0, <1>7, Zenon DEF Indirect
    <2>2. InRow(t)' <=> InRow(t)
      BY <1>1 DEF InRow
    <2> QED
      BY <1>1, <1>2, <1>4, <2>1, <2>2, Zenon DEF LongForm
  <1>10. i.kind = "adrp" => (InRange(t) /\ Kept(k)') \/ (~InRange(t) /\ LongForm(k)')
    <2>1. ASSUME Len(words) = 1, words[1].op = "adrp", i.kind = "adrp"
          PROVE  Kept(k)'
      <3>1. ends'[k] = at + 1 /\ At(at)' = words[1]
        BY <1>1, <1>5, <2>1
      <3> QED
        BY <1>1, <2>1, <3>1, Zenon DEF Kept
    <2> QED
      BY <1>0, <1>7, <2>1, Zenon DEF Says
  <1>8. i.kind = "plain" => ends'[k] = ins'[k] + 1 /\ At(ins[k])' = Word("plain", k)
    <2> SUFFICES ASSUME i.kind = "plain"
                 PROVE  ends'[k] = ins'[k] + 1 /\ At(ins[k])' = Word("plain", k)
      OBVIOUS
    <2>1. words = <<Word("plain", k)>>
      BY <1>1, Zenon DEF Says
    <2>2. Len(words) = 1 /\ words[1] = Word("plain", k)
      BY <2>1
    <2>3. At(at)' = Word("plain", k)
      BY <1>5, <2>2
    <2> QED
      BY <1>1, <2>2, <2>3, Zenon
  <1>9. /\ i.kind \in Branches \cup Tests \cup {"adr"} =>
              ShortForm(k)' \/ (~InRange(t) /\ LongForm(k)')
        /\ i.kind \in Loads => (~InRange(t) /\ ShortForm(k)') \/ LongForm(k)'
    BY <1>0, <1>6, <1>7, Zenon DEF Says
  <1> QED
    BY <1>1, <1>2, <1>3, <1>8, <1>9, <1>10, Zenon DEF Form

\* What waits goes on doing so, and the new word waits for what it refers to.
LEMMA OriginKept ==
    ASSUME MeansInv, NEW k, NEW i, NEW pads, NEW at, NEW words, NEW waits, at = Out + pads,
           Shape(i, pads, words, waits), Says(i, pads, words, waits),
           Grown(k, i, at, words, waits)
    PROVE  OriginInv'
  <1> SUFFICES ASSUME NEW x \in Indices, NEW bp \in fmap'[x]
               PROVE  Waiting(x, bp)'
    BY DEF OriginInv
  <1>1. /\ base' = base /\ count' = count
        /\ ins'[k] = at /\ ends'[k] = at + Len(words)
        /\ Placed = 0 .. k - 1 /\ Placed' = 0 .. k /\ k \in 0 .. 4
    BY Zenon DEF Grown
  <1>2. x # k /\ (bp \in fmap[x] \/ (x \in waits /\ bp = at))
    <2>1. fmap'[x] = IF x = k THEN {} ELSE IF x \in waits THEN fmap[x] \cup {at} ELSE fmap[x]
      BY Zenon DEF Grown
    <2> QED
      BY <2>1
  <1>3. CASE bp \in fmap[x]
    <2>1. PICK j \in Placed : /\ bp = ins[j] /\ ends[j] = ins[j] + 1
                              /\ InRange(Refers(j)) /\ Index(Refers(j)) = x
      BY <1>3, Zenon DEF MeansInv, OriginInv, Waiting
    <2>2. PICK t : t = Refers(j)
      OBVIOUS
    <2>3. Refers(j)' = t
      BY <2>2, SameRefers
    <2>4. InRange(t)' /\ Index(t)' = x
      BY <1>1, <2>1, <2>2 DEF InRange, Index
    <2>5. j \in Placed' /\ ins'[j] = ins[j] /\ ends'[j] = ends[j]
      <3>1. j \in Placed'
        BY <1>1
      <3> QED
        BY <3>1, Zenon DEF Grown
    <2> QED
      BY <2>1, <2>3, <2>4, <2>5, Zenon DEF Waiting
  <1>4. CASE x \in waits /\ bp = at
    <2>1. PICK t : t = Target(i)
      OBVIOUS
    <2>2. waits # {}
      BY <1>4
    <2>3. InRange(t) /\ waits = {Index(t)}
      BY <2>1, <2>2, Zenon DEF Says
    <2>4. Len(words) = 1
      BY <2>2, Zenon DEF Shape
    <2>5. InRange(t)' /\ Index(t)' = x
      BY <1>1, <1>4, <2>3 DEF InRange, Index
    <2>6. Refers(k)' = t
      BY <2>1, NewRefers
    <2>7. k \in Placed'
      BY <1>1
    <2> QED
      BY <1>1, <1>4, <2>4, <2>5, <2>6, <2>7, Zenon DEF Waiting
  <1> QED
    BY <1>2, <1>3, <1>4

LEMMA FixMeans ==
    ASSUME MeansInv, Fix
    PROVE  MeansInv'
  <1>1. PICK i : Handed(i)
    BY FixHands DEF MeansInv
  <1>2. PICK pads, words, waits : /\ Shape(i, pads, words, waits)
                                  /\ Says(i, pads, words, waits)
                                  /\ Emit(i, pads, words, waits)
    BY <1>1, Zenon DEF Handed
  <1>3. PICK k, at : k = Len(code) /\ at = Out + pads
    OBVIOUS
  <1>4. Grown(k, i, at, words, waits)
    BY <1>2, <1>3, EmitGrows DEF MeansInv
  <1>5. Placed = 0 .. k - 1 /\ Placed' = 0 .. k /\ k \in 0 .. 4
    BY <1>4, Zenon DEF Grown
  <1>6. FormInv'
    <2> SUFFICES ASSUME NEW m \in Placed' PROVE Form(m)'
      BY DEF FormInv
    <2>1. m \in Placed \/ m = k
      BY <1>5
    <2>2. CASE m \in Placed
      BY <1>4, <2>2, OldForms
    <2>3. CASE m = k
      BY <1>2, <1>3, <1>4, <2>3, NewForm
    <2> QED
      BY <2>1, <2>2, <2>3
  <1>7. OriginInv'
    BY <1>2, <1>3, <1>4, OriginKept
  <1>8. FixInv'
    BY FixKeeps DEF MeansInv
  <1> QED
    BY <1>6, <1>7, <1>8 DEF MeansInv

\* Nothing happens to the copies.
Same == /\ base' = base /\ count' = count /\ tramp' = tramp
        /\ code' = code /\ ins' = ins /\ ends' = ends /\ fmap' = fmap
        /\ \A a \in tramp .. Out - 1 : At(a)' = At(a)

LEMMA SameMeans ==
    ASSUME MeansInv, Same
    PROVE  FormInv' /\ OriginInv'
  <1>1. /\ base' = base /\ count' = count /\ tramp' = tramp
        /\ code' = code /\ ins' = ins /\ ends' = ends /\ fmap' = fmap
    BY DEF Same
  <1>2. FixInv /\ ContextInv /\ SpanInv
    BY DEF MeansInv, FixInv
  <1>4. /\ tramp \in Nat /\ Out \in Nat /\ Placed \subseteq Indices
    <2> DEFINE n == Len(code)
    <2>1. /\ tramp \in Nat /\ Out \in Nat /\ count \in 1 .. 5
          /\ n \in 0 .. count /\ Placed = 0 .. n - 1
      BY <1>2, ContextTypes
    <2> HIDE DEF n
    <2> QED
      BY <2>1 DEF Indices, A64_MAX_INSTRUCTIONS
  <1>5. Placed' = Placed
    BY <1>1 DEF Placed
  <1>6. \A a \in tramp .. Out - 1 : At(a)' = At(a)
    BY DEF Same
  <1>7. \A m \in Placed : Refers(m)' = Refers(m)
    BY <1>1, Zenon DEF Refers, TargetAt, Page
  <1>8. FormInv'
    <2> SUFFICES ASSUME NEW m \in Placed PROVE Form(m)'
      BY <1>5 DEF FormInv
    <2>0. PICK t, a, e, old : t = Refers(m) /\ a = ins[m] /\ e = ends[m] /\ old = code[m + 1]
      OBVIOUS
    <2>1. Form(m)
      BY DEF MeansInv, FormInv
    <2>2. a \in Nat /\ e \in Nat /\ tramp <= a /\ e <= Out
      <3>1. m \in Indices
        BY <1>4
      <3> QED
        BY <1>2, <2>0, <3>1 DEF ContextInv, SpanInv
    <2>3. /\ Refers(m)' = t /\ ins'[m] = a /\ ends'[m] = e /\ code'[m + 1] = old
      BY <1>1, <1>7, <2>0
    <2>4. (InRange(t) <=> InRange(t)') /\ Index(t)' = Index(t)
      BY <1>1 DEF InRange, Index
    <2>5. ASSUME e = a + 1 PROVE At(a)' = At(a)
      <3>1. a \in tramp .. Out - 1
        BY <1>4, <2>2, <2>5
      <3> QED
        BY <1>6, <3>1
    <2>6. ASSUME ShortForm(m) PROVE ShortForm(m)'
      <3>1. /\ e = a + 1 /\ At(a).op = old.kind
            /\ ~InRange(t) => Reached(old.kind, t - a) /\ At(a).imm = Encode(old.kind, t - a)
            /\ (InRange(t) /\ Index(t) >= Len(code)) => a \in fmap[Index(t)]
            /\ (InRange(t) /\ Index(t) < Len(code)) =>
                  At(a).imm = Encode(old.kind, ins[Index(t)] - a)
        BY <2>0, <2>6, Zenon DEF ShortForm
      <3> QED
        BY <1>1, <2>3, <2>4, <2>5, <3>1, Zenon DEF ShortForm
    <2>7. ASSUME LongForm(m), old.kind \in DOMAIN Half PROVE LongForm(m)'
      <3> DEFINE w == Long(old, t)
      <3>1. /\ e = a + Len(w) /\ \A x \in 1 .. Len(w) : At(a + (x - 1)) = w[x]
            /\ old.kind \in Tests => ~InRow(t)
        BY <2>0, <2>7, Zenon DEF LongForm
      <3> HIDE DEF w
      <3>2. \A x \in 1 .. Len(w) : At(a + (x - 1))' = w[x]
        <4> TAKE x \in 1 .. Len(w)
        <4>1. PICK b : b = a + (x - 1)
          OBVIOUS
        <4>2. b \in tramp .. Out - 1
          <5>1. t \in Int
            BY <2>0, <2>7, RefersType
          <5>2. PICK l \in 3 .. 6 : l = Len(w)
            BY <2>7, <5>1, LongHas DEF w
          <5>3. e = a + l /\ x \in 1 .. l
            BY <3>1, <5>2
          <5> QED
            BY <1>4, <2>2, <4>1, <5>3
        <4> QED
          BY <1>6, <3>1, <4>1, <4>2
      <3>3. InRow(t)' <=> InRow(t)
        BY <1>1 DEF InRow
      <3> QED
        BY <2>3, <3>1, <3>2, <3>3, Zenon DEF LongForm, w
    <2>11. ASSUME Kept(m) PROVE Kept(m)'
      BY <2>0, <2>3, <2>5, <2>11, Zenon DEF Kept
    <2>8. old.kind = "plain" => e = a + 1 /\ At(a)' = Word("plain", m)
      BY <2>0, <2>1, <2>5, Zenon DEF Form
    <2>9. CASE old.kind = "plain"
      <3>1. old.kind \notin Branches \cup Tests \cup {"adr"} /\ old.kind \notin Loads
        BY <2>9 DEF Branches, Tests, Loads
      <3> QED
        BY <2>3, <2>8, <2>9, <3>1, Zenon DEF Form
    <2>10. CASE old.kind # "plain"
      <3>1. old.kind \in Branches \cup Tests \cup {"adr", "adrp"} \cup Loads =>
              old.kind \in DOMAIN Half
        BY DEF Branches, Tests, Loads, Half
      <3> QED
        BY <2>0, <2>1, <2>3, <2>4, <2>6, <2>7, <2>10, <2>11, <3>1, Zenon DEF Form
    <2> QED
      BY <2>9, <2>10
  <1>9. OriginInv'
    <2> SUFFICES ASSUME NEW x \in Indices, NEW bp \in fmap[x] PROVE Waiting(x, bp)'
      BY <1>1 DEF OriginInv
    <2>1. PICK j \in Placed : /\ bp = ins[j] /\ ends[j] = ins[j] + 1
                              /\ InRange(Refers(j)) /\ Index(Refers(j)) = x
      BY Zenon DEF MeansInv, OriginInv, Waiting
    <2>2. PICK t : t = Refers(j)
      OBVIOUS
    <2>3. InRange(t)' /\ Index(t)' = x /\ Refers(j)' = t
      BY <1>1, <1>7, <2>1, <2>2 DEF InRange, Index
    <2> QED
      BY <1>1, <1>5, <2>1, <2>3, Zenon DEF Waiting
  <1> QED
    BY <1>8, <1>9

\* The jump back changes none of the copies.
LEMMA BackMeans ==
    ASSUME MeansInv, JumpBack
    PROVE  MeansInv'
  <1>1. /\ base' = base /\ count' = count /\ tramp' = tramp
        /\ code' = code /\ ins' = ins /\ ends' = ends /\ fmap' = fmap
    BY DEF JumpBack, input
  <1>2. FixInv /\ ContextInv
    BY DEF MeansInv, FixInv
  <1>3. PICK n : n = Len(copy) /\ n \in Nat /\ \A x \in 1 .. n : copy'[x] = copy[x]
    <2>1. Len(copy) \in Nat
      BY <1>2, ContextTypes
    <2>2. \A x \in 1 .. Len(copy) : copy'[x] = copy[x]
      BY <1>2, JumpBackWords
    <2> QED
      BY <2>1, <2>2
  <1>4. tramp \in Nat /\ Out = tramp + n
    BY <1>2, <1>3, ContextTypes
  <1>5. \A a \in tramp .. Out - 1 : At(a)' = At(a)
    <2> TAKE a \in tramp .. Out - 1
    <2>1. a - tramp + 1 \in 1 .. n
      BY <1>3, <1>4
    <2> QED
      BY <1>1, <1>3, <2>1 DEF At
  <1>6. Same
    BY <1>1, <1>5 DEF Same
  <1> QED
    BY <1>2, <1>6, SameMeans, JumpBackKeeps DEF MeansInv

LEMMA MeansAlways == Spec => []MeansInv
  <1>1. Init => MeansInv
    <2> SUFFICES ASSUME Init PROVE MeansInv
      OBVIOUS
    <2>1. Placed = {}
      BY DEF Init, Placed
    <2>2. FormInv
      BY <2>1 DEF FormInv
    <2>3. OriginInv
      BY DEF Init, OriginInv
    <2> QED
      BY <2>2, <2>3, InitFix DEF MeansInv
  <1>2. MeansInv /\ [Next]_vars => MeansInv'
    <2> SUFFICES ASSUME MeansInv, [Next]_vars PROVE MeansInv'
      OBVIOUS
    <2>1. CASE FixCrash \/ UNCHANGED vars
      <3>1. FixInv'
        BY NextFix DEF MeansInv
      <3>2. FormInv' /\ OriginInv'
        <4>1. Same
          BY <2>1 DEF FixCrash, FixLoadCrash, vars, input, Same, At
        <4> QED
          BY <4>1, SameMeans
      <3> QED
        BY <3>1, <3>2 DEF MeansInv
    <2> QED
      BY <2>1, FixMeans, BackMeans DEF Next
  <1> QED
    BY <1>1, <1>2, PTL DEF Spec

-----------------------------------------------------------------------------
(* What the finished copies do *)

\* Once the trampoline is complete nothing waits.
LEMMA Settled ==
    ASSUME MeansInv, Done
    PROVE  /\ Len(code) = count /\ Placed = 0 .. count - 1
           /\ \A x \in Indices : fmap[x] = {}
  <1>1. ContextInv /\ WaitInv /\ Len(code) = count
    BY DEF MeansInv, FixInv, TailInv
  <1>2. count \in 1 .. 5 /\ Placed = 0 .. count - 1
    BY <1>1, ContextTypes
  <1>3. \A x \in Indices : fmap[x] = {}
    BY <1>1, <1>2 DEF WaitInv
  <1> QED
    BY <1>1, <1>2, <1>3

\* What lies outside the copy is where control stays.
LEMMA LandsOutside ==
    ASSUME NEW t, ~InCopy(t)
    PROVE  Land(t) = t
  <1>1. Settle(t) = t
    BY Zenon DEF Settle
  <1> QED
    BY <1>1, Zenon DEF Land

\* LDR X17, BR X17 and the literal take control to the address in the literal.
LEMMA LandsThere ==
    ASSUME FixInv, NEW s \in tramp .. Out - 1, NEW br, NEW lit, NEW t,
           At(s).op = "ldr17", br = (IF At(s + 1).op = "adr30" THEN s + 2 ELSE s + 1),
           lit = s + At(s).imm, At(br).op = "br17", At(lit) = Word("data", t)
    PROVE  Land(s) = t
  <1>1. InCopy(s) /\ Settle(s) = s
    <2>1. tramp \in Nat /\ Out \in Nat
      BY ContextTypes DEF FixInv
    <2>2. s \in s .. Out - 1 /\ \A x \in s .. s - 1 : At(x).op = "nop"
      BY <2>1
    <2> QED
      BY <2>2, Settles
  <1>2. At(lit).op = "data" /\ At(lit).imm = t
    BY DEF Word
  <1> QED
    BY <1>1, <1>2, Zenon DEF Land

\* The numbers of a finished copy.
LEMMA CopyTypes ==
    ASSUME MeansInv, Done, NEW k \in Placed
    PROVE  /\ k \in 0 .. 4 /\ code[k + 1] \in Instrs
           /\ code[k + 1].kind \in DOMAIN Half => HasRoom(code[k + 1].kind, code[k + 1].off)
           /\ base \in Nat /\ count \in 1 .. 5
           /\ ins[k] \in Nat /\ ends[k] \in Nat
           /\ tramp \in Nat /\ Out \in Nat
           /\ tramp <= ins[k] /\ ins[k] <= ends[k] /\ ends[k] <= Out
           /\ Out <= tramp + RowWords /\ Out = tramp + Len(copy)
  <1>1. FixInv /\ ContextInv /\ SpanInv
    BY DEF MeansInv, FixInv
  <1> DEFINE n == Len(code)
             l == Len(copy)
  <1>2. /\ base \in Nat /\ count \in 1 .. 5 /\ tramp \in Nat /\ Out \in Nat
        /\ Out = tramp + l /\ l \in Nat /\ n \in 0 .. count /\ Placed = 0 .. n - 1
        /\ \A x \in 1 .. n : code[x] \in Instrs
    BY <1>1, ContextTypes
  <1>3. l <= RowWords /\ RowWords \in Nat
    BY <1>1, RoomLeft DEF RowWords, A64_MAX_INSTRUCTIONS
  <1>4. \A x \in 1 .. n : code[x] \in Families[family].instrs \cup {Plain}
    <2>1. code \in Seq(Families[family].instrs \cup {Plain})
      BY <1>1 DEF ContextInv
    <2> QED
      BY <2>1, ElementOfSeq
  <1> HIDE DEF n, l
  <1>5. k \in 0 .. 4 /\ k + 1 \in 1 .. n /\ k \in Indices
    BY <1>2 DEF Indices, A64_MAX_INSTRUCTIONS
  <1>6. ins[k] \in Nat /\ ends[k] \in Nat
    BY <1>1, <1>5 DEF ContextInv
  <1>7. tramp <= ins[k] /\ ins[k] <= ends[k] /\ ends[k] <= Out
    BY <1>1 DEF SpanInv
  <1>8. code[k + 1].kind \in DOMAIN Half => HasRoom(code[k + 1].kind, code[k + 1].off)
    <2> SUFFICES ASSUME code[k + 1].kind \in DOMAIN Half
                 PROVE  HasRoom(code[k + 1].kind, code[k + 1].off)
      OBVIOUS
    <2>1. "plain" \notin DOMAIN Half /\ Plain.kind = "plain"
      BY DEF Half, Plain
    <2>2. code[k + 1] \in Families[family].instrs
      BY <1>4, <1>5, <2>1
    <2>3. family \in DOMAIN Families
      BY <1>1 DEF ContextInv
    <2> QED
      BY <2>2, <2>3, InputAssumption
  <1>9. Out <= tramp + RowWords
    BY <1>2, <1>3
  <1> QED
    BY <1>2, <1>5, <1>6, <1>7, <1>8, <1>9 DEF l

\* A finished copy of one word holds the distance to what it refers to.
LEMMA ShortHolds ==
    ASSUME MeansInv, Done, NEW k \in Placed, ShortForm(k), code[k + 1].kind \in DOMAIN Half,
           NEW t \in Int, t = Refers(k),
           ~InRange(t) => HasRoom(code[k + 1].kind, t - ins[k])
    PROVE  /\ Short(k) /\ At(ins[k]).op = code[k + 1].kind
           /\ ins[k] + At(ins[k]).imm = Image(t)
  <1> DEFINE kind == code[k + 1].kind
             a    == ins[k]
  <1>1. /\ ends[k] = a + 1 /\ At(a).op = kind
        /\ ~InRange(t) => At(a).imm = Encode(kind, t - a)
        /\ (InRange(t) /\ Index(t) >= Len(code)) => a \in fmap[Index(t)]
        /\ (InRange(t) /\ Index(t) < Len(code)) =>
              At(a).imm = Encode(kind, ins[Index(t)] - a)
    BY Zenon DEF ShortForm
  <1>2. /\ base \in Nat /\ count \in 1 .. 5 /\ a \in Nat /\ tramp \in Nat /\ Out \in Nat
        /\ tramp <= a /\ a <= Out /\ Out <= tramp + RowWords
    <2>1. ins[k] <= ends[k] /\ ends[k] <= Out /\ ends[k] \in Nat /\ ins[k] \in Nat /\ Out \in Nat
      BY CopyTypes
    <2>2. ins[k] <= Out
      BY <2>1
    <2> QED
      BY <2>2, CopyTypes
  <1> HIDE DEF kind, a
  <1>3. CASE ~InRange(t)
    <2>1. At(a).imm = t - a
      <3>1. t - a \in Int /\ HasRoom(kind, t - a) /\ kind \in DOMAIN Half
        BY <1>2, <1>3 DEF kind, a
      <3> QED
        BY <1>1, <1>3, <3>1, EncodeExact
    <2>2. a + At(a).imm = t
      BY <1>2, <2>1
    <2> QED
      BY <1>1, <1>3, <2>2 DEF Image, Short, kind, a
  <1>4. CASE InRange(t)
    <2>1. Index(t) \in 0 .. count - 1 /\ Index(t) \in Placed
      <3>1. Index(t) \in 0 .. count - 1
        BY <1>2, <1>4 DEF InRange, Index
      <3> QED
        BY <3>1, Settled
    <2>2. At(a).imm = Encode(kind, ins[Index(t)] - a)
      <3>1. Index(t) < count
        BY <1>2, <2>1
      <3>2. Index(t) < Len(code)
        BY <3>1, Settled
      <3> QED
        BY <1>1, <1>4, <3>2
    <2>3. /\ ins[Index(t)] \in Nat /\ tramp <= ins[Index(t)] /\ ins[Index(t)] <= Out
      <3>1. /\ ins[Index(t)] <= ends[Index(t)] /\ ends[Index(t)] <= Out
            /\ ins[Index(t)] \in Nat /\ ends[Index(t)] \in Nat /\ tramp <= ins[Index(t)]
        BY <2>1, CopyTypes
      <3> QED
        BY <1>2, <3>1
    <2> DEFINE to == ins[Index(t)]
    <2> HIDE DEF to
    <2>4. to \in Nat /\ to - a \in -RowWords .. RowWords
      <3>1. RowWords = 50
        BY DEF RowWords, A64_MAX_INSTRUCTIONS
      <3> QED
        BY <1>2, <2>3, <3>1 DEF to
    <2>5. kind \in DOMAIN Half /\ HasRoom(kind, to - a) /\ to - a \in Int
      <3>1. kind \in DOMAIN Half
        BY DEF kind
      <3>2. Half[kind] > RowWords /\ Half[kind] \in Nat /\ RowWords = 50
        BY <3>1 DEF Half, RowWords, A64_MAX_INSTRUCTIONS
      <3> QED
        BY <2>4, <3>1, <3>2 DEF HasRoom
    <2>6. At(a).imm = to - a
      BY <2>2, <2>5, EncodeExact DEF to
    <2>7. a + At(a).imm = to
      BY <1>2, <2>4, <2>6
    <2> QED
      BY <1>1, <1>4, <2>7 DEF Image, Short, kind, a, to
  <1> QED
    BY <1>3, <1>4

\* Numbers in the width of a field and outside it.
LEMMA Residue ==
    ASSUME NEW m \in Nat \ {0}, NEW y \in 0 .. m - 1
    PROVE  y % m = y /\ (y + m) % m = y
  <1>1. y % m = y
    OBVIOUS
  <1>2. (y + m) % m = y
    OBVIOUS
  <1> QED
    BY <1>1, <1>2

\* A number without its sign.
LEMMA Unsign ==
    ASSUME NEW m \in Nat \ {0}, NEW x \in -m .. m - 1
    PROVE  x % m = IF x >= 0 THEN x ELSE x + m
  <1>1. CASE x >= 0
    BY <1>1, Residue
  <1>2. CASE x < 0
    <2> DEFINE y == x + m
    <2>1. y \in 0 .. m - 1
      BY <1>2
    <2>2. x = y - m
      OBVIOUS
    <2> HIDE DEF y
    <2>3. x % m = y
      BY <2>1, <2>2
    <2> QED
      BY <1>2, <2>3 DEF y
  <1> QED
    BY <1>1, <1>2

LEMMA EncodeWraps ==
    ASSUME NEW kind \in DOMAIN Half, NEW off \in Int, HasRoom(kind, off)
    PROVE  Encode(kind, off + 2 * Half[kind]) = off
  <1> DEFINE h == Half[kind]
  <1>1. h \in Nat \ {0} /\ off \in -h .. h - 1
    BY DEF Half, RowWords, A64_MAX_INSTRUCTIONS, HasRoom
  <1> HIDE DEF h
  <1>2. 2 * h \in Nat \ {0} /\ off + h \in 0 .. 2 * h - 1
    BY <1>1
  <1>3. (off + h + 2 * h) % (2 * h) = off + h
    BY <1>2, Residue
  <1>4. off + 2 * h + h = off + h + 2 * h
    BY <1>1
  <1>5. ((off + 2 * h + h) % (2 * h)) - h = off
    BY <1>1, <1>3, <1>4
  <1> QED
    BY <1>5 DEF Encode, h

\* An offset that is not negative means the same without its sign, and a negative one
\* is off by as much as is needed to make it unsigned.
LEMMA RefersBy ==
    ASSUME MeansInv, Done, NEW k \in Placed,
           NEW i, i = code[k + 1], i.kind \in DOMAIN Half
    PROVE  /\ Meant(k) \in Int
           /\ i.off >= 0 \/ i.kind \in Branches => Refers(k) = Meant(k)
           /\ i.off < 0 /\ i.kind \in Tests => Refers(k) = Meant(k) + 2 * Half[i.kind]
           /\ i.off < 0 /\ i.kind \in Loads \cup {"adr", "adrp"} =>
                 Refers(k) = Meant(k) + Wrap
           /\ i.kind # "adrp" => Meant(k) = base + k + i.off
  <1> DEFINE h == Half[i.kind]
             x == i.off
  <1>1. /\ HasRoom(i.kind, x) /\ i.kind \in DOMAIN Half
        /\ k \in Nat /\ base \in Nat /\ x \in Int
    <2>1. i \in Instrs /\ HasRoom(i.kind, x) /\ k \in 0 .. 4 /\ base \in Nat
      BY CopyTypes
    <2> QED
      BY <2>1 DEF Instrs
  <1>2. h \in Nat \ {0} /\ x \in -h .. h - 1
    BY <1>1 DEF Half, RowWords, A64_MAX_INSTRUCTIONS, HasRoom
  <1>3. h <= BranchHalf /\ (i.kind \notin Branches => h <= CondHalf)
    BY <1>1 DEF Half, Branches
  <1>5. CASE i.kind \in Branches
    <2>1. i.kind \notin Tests /\ i.kind \notin Loads \cup {"adr"} /\ i.kind # "adrp"
      BY <1>5 DEF Branches, Tests, Loads
    <2>2. Refers(k) = base + k + x /\ Meant(k) = base + k + x
      BY <1>5, <2>1, Zenon DEF Refers, TargetAt, Meant
    <2> QED
      BY <1>1, <2>1, <2>2
  <1>6. CASE i.kind \in Tests
    <2>1. i.kind \notin Branches /\ i.kind \notin Loads \cup {"adr"} /\ i.kind # "adrp"
      BY <1>6 DEF Branches, Tests, Loads
    <2>2. Refers(k) = base + k + (x % (2 * h)) /\ Meant(k) = base + k + x
      BY <1>6, <2>1, Zenon DEF Refers, TargetAt, Meant
    <2>3. x % (2 * h) = IF x >= 0 THEN x ELSE x + 2 * h
      <3> HIDE DEF x, h
      <3>1. 2 * h \in Nat \ {0} /\ x \in -(2 * h) .. 2 * h - 1
        BY <1>2
      <3> QED
        BY <3>1, Unsign
    <2> HIDE DEF x, h
    <2>4. /\ Meant(k) \in Int
          /\ x >= 0 => Refers(k) = Meant(k)
          /\ x < 0 => Refers(k) = Meant(k) + 2 * h
      BY <1>1, <1>2, <2>2, <2>3
    <2> QED
      BY <2>1, <2>2, <2>4 DEF x, h
  <1>7. CASE i.kind \in Loads \cup {"adr"}
    <2>1. i.kind \notin Branches /\ i.kind \notin Tests /\ i.kind # "adrp"
      BY <1>7 DEF Branches, Tests, Loads
    <2>2. Refers(k) = base + k + (x % Wrap) /\ Meant(k) = base + k + x
      BY <1>7, <2>1, Zenon DEF Refers, TargetAt, Meant
    <2>3. x % Wrap = IF x >= 0 THEN x ELSE x + Wrap
      <3> HIDE DEF x, h
      <3>1. Wrap \in Nat \ {0} /\ x \in -Wrap .. Wrap - 1
        BY <1>2, <1>3
      <3> QED
        BY <3>1, Unsign
    <2> HIDE DEF x, h
    <2>4. /\ Meant(k) \in Int
          /\ x >= 0 => Refers(k) = Meant(k)
          /\ x < 0 => Refers(k) = Meant(k) + Wrap
      BY <1>1, <2>2, <2>3
    <2> QED
      BY <2>1, <2>2, <2>4 DEF x
  <1>8. CASE i.kind = "adrp"
    <2>1. i.kind \notin Branches /\ i.kind \notin Tests /\ i.kind \notin Loads \cup {"adr"}
      BY <1>8 DEF Branches, Tests, Loads
    <2>2. /\ Refers(k) = Page(base + k) + ((x * PageWords) % Wrap)
          /\ Meant(k) = Page(base + k) + x * PageWords
      BY <1>8, <2>1, Zenon DEF Refers, TargetAt, Meant
    <2>3. h = CondHalf
      BY <1>8 DEF Half
    <2> HIDE DEF x, h
    <2> DEFINE y == x * PageWords
    <2>4. PICK p \in Int : p = Page(base + k)
      BY <1>1 DEF Page
    <2>5. Wrap \in Nat \ {0} /\ y \in -Wrap .. Wrap - 1 /\ (x >= 0 <=> y >= 0)
      <3>1. /\ x \in -CondHalf .. CondHalf - 1 /\ PageWords \in Nat \ {0}
            /\ CondHalf \in Nat /\ Wrap \in Nat \ {0}
        BY <1>2, <2>3
      <3>2. (CondHalf - x) * PageWords >= PageWords /\ (CondHalf + x) * PageWords >= 0
        BY <3>1
      <3>3. /\ (CondHalf - x) * PageWords = CondHalf * PageWords - y
            /\ (CondHalf + x) * PageWords = CondHalf * PageWords + y
        BY <3>1
      <3>4. y \in Int /\ (x >= 0 => y >= 0) /\ (x < 0 => y < 0)
        BY <3>1
      <3>5. CondHalf * PageWords \in Int
        BY <3>1
      <3> HIDE DEF y
      <3> QED
        BY <3>1, <3>2, <3>3, <3>4, <3>5, PageAssumption
    <2> HIDE DEF y
    <2>6. y % Wrap = IF y >= 0 THEN y ELSE y + Wrap
      BY <2>5, Unsign
    <2>7. Refers(k) = p + (y % Wrap) /\ Meant(k) = p + y
      BY <2>2, <2>4 DEF y
    <2>8. /\ Meant(k) \in Int
          /\ x >= 0 => Refers(k) = Meant(k)
          /\ x < 0 => Refers(k) = Meant(k) + Wrap
      BY <1>1, <2>4, <2>5, <2>6, <2>7
    <2> QED
      BY <1>8, <2>1, <2>8 DEF x
  <1>9. i.kind \in Branches \/ i.kind \in Tests \/ i.kind \in Loads \cup {"adr"} \/ i.kind = "adrp"
    BY <1>1 DEF Half, Branches, Tests, Loads
  <1> QED
    BY <1>5, <1>6, <1>7, <1>8, <1>9

\* A reference without the first flaw is to what is meant, or it is a test's, whose field
\* drops what its offset is off by.
LEMMA RefersMeant ==
    ASSUME MeansInv, Done, NEW k \in Placed, ~Unsigned(k), code[k + 1].kind \in DOMAIN Half
    PROVE  /\ Meant(k) \in Int
           /\ \/ Refers(k) = Meant(k)
              \/ /\ code[k + 1].kind \in Tests /\ Short(k) /\ ~InRange(Meant(k))
                 /\ Refers(k) = Meant(k) + 2 * Half[code[k + 1].kind]
                 /\ Meant(k) >= base - Half[code[k + 1].kind]
  <1>1. PICK i : i = code[k + 1]
    OBVIOUS
  <1>2. /\ i.kind \in DOMAIN Half /\ HasRoom(i.kind, i.off) /\ i.off \in Int
        /\ k \in Nat /\ base \in Nat
    <2>1. i \in Instrs /\ HasRoom(i.kind, i.off) /\ k \in 0 .. 4 /\ base \in Nat
      BY <1>1, CopyTypes
    <2> QED
      BY <1>1, <2>1 DEF Instrs
  <1>3. CASE i.off >= 0 \/ i.kind \in Branches
    BY <1>1, <1>3, RefersBy
  <1>4. CASE i.off < 0 /\ i.kind \notin Branches
    <2>1. i.kind \notin {"plain", "prfm"}
      BY <1>2 DEF Half
    <2>2. i.kind \in Tests /\ Short(k) /\ ~InRange(Meant(k))
      BY <1>1, <1>4, <2>1, Zenon DEF Unsigned
    <2>3. PICK h \in Nat : h = Half[i.kind]
      BY <1>2 DEF Half, RowWords, A64_MAX_INSTRUCTIONS
    <2>4. i.off >= -h
      BY <1>2, <2>3 DEF HasRoom
    <2>5. i.kind # "adrp"
      BY <2>2 DEF Tests
    <2>6. Meant(k) >= base - h
      <3>1. Meant(k) = base + k + i.off
        BY <1>1, <1>2, <2>5, RefersBy
      <3> QED
        BY <1>2, <2>4, <3>1
    <2> QED
      BY <1>1, <1>4, <2>2, <2>3, <2>6, RefersBy
  <1> QED
    BY <1>2, <1>3, <1>4

\* A copy of one word refers to what is meant.
LEMMA ShortKeeps ==
    ASSUME MeansInv, Done, NEW k \in Placed, ~Unsigned(k), ~TooFar(k), ShortForm(k),
           code[k + 1].kind \in DOMAIN Half \ {"adrp"}
    PROVE  /\ At(ins[k]).op = code[k + 1].kind
           /\ ins[k] + At(ins[k]).imm = Image(Meant(k))
  <1> DEFINE kind == code[k + 1].kind
             h    == Half[kind]
  <1>1. kind \in DOMAIN Half /\ kind # "adrp"
    OBVIOUS
  <1>2. PICK t \in Int : t = Meant(k)
    BY <1>1, RefersMeant
  <1>3. ends[k] = ins[k] + 1 /\ At(ins[k]).op = kind
    BY Zenon DEF ShortForm
  <1>4. ~InRange(t) => HasRoom(kind, t - ins[k])
    BY <1>1, <1>2, <1>3, Zenon DEF TooFar, Short
  <1>5. CASE Refers(k) = t
    BY <1>1, <1>2, <1>4, <1>5, ShortHolds
  <1>6. CASE /\ ~InRange(t) /\ Refers(k) = t + 2 * h /\ t >= base - h
    <2>1. h \in Nat /\ h > RowWords /\ RowWords = 50
      BY <1>1 DEF Half, RowWords, A64_MAX_INSTRUCTIONS
    <2>2. base \in Nat /\ count \in 1 .. 5 /\ ins[k] \in Nat
      BY CopyTypes
    <2> HIDE DEF h
    <2>3. ~InRange(Refers(k))
      BY <1>6, <2>1, <2>2 DEF InRange
    <2>4. At(ins[k]).imm = Encode(kind, Refers(k) - ins[k])
      BY <2>3, Zenon DEF ShortForm
    <2>5. Refers(k) - ins[k] = (t - ins[k]) + 2 * h
      BY <1>6, <2>1, <2>2
    <2>6. At(ins[k]).imm = t - ins[k]
      <3>1. t - ins[k] \in Int /\ HasRoom(kind, t - ins[k])
        BY <1>4, <1>6, <2>2
      <3>2. Encode(kind, (t - ins[k]) + 2 * h) = t - ins[k]
        BY <1>1, <3>1, EncodeWraps DEF h
      <3> QED
        BY <2>4, <2>5, <3>2
    <2>7. ins[k] + At(ins[k]).imm = t
      BY <2>2, <2>6
    <2> QED
      BY <1>2, <1>3, <1>6, <2>7 DEF Image
  <1> QED
    BY <1>1, <1>2, <1>5, <1>6, RefersMeant

\* The words of a finished copy that goes through a literal.
LEMMA LongSays ==
    ASSUME MeansInv, Done, NEW k \in Placed, LongForm(k),
           code[k + 1].kind \in DOMAIN Half,
           NEW a, NEW kind, NEW t, a = ins[k], kind = code[k + 1].kind, t = Refers(k)
    PROVE  /\ a \in tramp .. Out - 3 /\ ends[k] # a + 1
           /\ kind = "b" => At(a) = Ldr17(2) /\ At(a + 1) = Br17 /\ At(a + 2) = Word("data", t)
           /\ kind = "bl" => /\ At(a) = Ldr17(3) /\ At(a + 1) = Word("adr30", 4)
                             /\ At(a + 2) = Br17 /\ At(a + 3) = Word("data", t)
           /\ kind \in Tests => /\ a \in tramp .. Out - 6
                                /\ At(a) = Word(kind, 2) /\ At(a + 2) = Ldr17(2)
                                /\ At(a + 3) = Br17 /\ At(a + 4) = Word("data", t)
           /\ kind \in {"adr", "adrp"} => At(a) = Word("ldrx", 2) /\ At(a + 2) = Word("data", t)
           /\ kind \in Loads => /\ At(a) = Word(kind, 2)
                                /\ \A x \in 0 .. Size[kind] - 1 :
                                      At(a + 2 + x) = Word("contents", t + x)
  <1> DEFINE w == Long(code[k + 1], Refers(k))
  <1>1. ends[k] = a + Len(w) /\ \A x \in 1 .. Len(w) : At(a + (x - 1)) = w[x]
    BY Zenon DEF LongForm
  <1>2. t \in Int
    BY RefersType
  <1>3. LongWords(kind, t, w) /\ Len(w) \in 3 .. 6
    BY <1>2, LongHas
  <1> HIDE DEF w
  <1>5. PICK n \in 3 .. 6 : n = Len(w)
    BY <1>3
  <1>6. a \in Nat /\ tramp \in Nat /\ Out \in Nat /\ tramp <= a /\ a + n <= Out
    <2>1. ends[k] <= Out /\ ends[k] = a + n
      BY <1>1, <1>5, CopyTypes
    <2> QED
      BY <2>1, CopyTypes
  <1>7. \A x \in 1 .. n : At(a + (x - 1)) = w[x]
    BY <1>1, <1>5
  <1>8. /\ At(a) = w[1] /\ At(a + 1) = w[2] /\ At(a + 2) = w[3]
        /\ n > 3 => At(a + 3) = w[4]
        /\ n > 4 => At(a + 4) = w[5]
    <2>1. a + (1 - 1) = a /\ a + (2 - 1) = a + 1 /\ a + (3 - 1) = a + 2
          /\ a + (4 - 1) = a + 3 /\ a + (5 - 1) = a + 4
      BY <1>6
    <2>2. /\ 1 \in 1 .. n /\ 2 \in 1 .. n /\ 3 \in 1 .. n
          /\ n > 3 => 4 \in 1 .. n
          /\ n > 4 => 5 \in 1 .. n
      OBVIOUS
    <2> QED
      BY <1>7, <2>1, <2>2
  <1>10. kind \in Loads => /\ At(a) = Word(kind, 2)
                           /\ \A x \in 0 .. Size[kind] - 1 : At(a + 2 + x) = Word("contents", t + x)
    <2> SUFFICES ASSUME kind \in Loads
                 PROVE  /\ At(a) = Word(kind, 2)
                        /\ \A x \in 0 .. Size[kind] - 1 : At(a + 2 + x) = Word("contents", t + x)
      OBVIOUS
    <2>1. PICK s \in {1, 2, 4} : s = Size[kind]
      BY DEF Loads, Size
    <2>2. n = 2 + s /\ w[1] = Word(kind, 2)
          /\ \A x \in 1 .. s : w[2 + x] = Word("contents", t + x - 1)
      BY <1>5, <1>3, <2>1, Zenon DEF LongWords
    <2>3. ASSUME NEW x \in 0 .. s - 1
          PROVE  At(a + 2 + x) = Word("contents", t + x)
      <3>1. x + 1 \in 1 .. s /\ 2 + (x + 1) \in 1 .. n
        BY <2>2
      <3>2. a + ((2 + (x + 1)) - 1) = a + 2 + x /\ t + (x + 1) - 1 = t + x
        BY <1>2, <1>6
      <3>3. At(a + 2 + x) = w[2 + (x + 1)]
        BY <1>7, <3>1, <3>2
      <3>4. w[2 + (x + 1)] = Word("contents", t + x)
        BY <2>2, <3>1, <3>2
      <3> QED
        BY <3>3, <3>4
    <2> QED
      BY <1>8, <2>1, <2>2, <2>3
  <1>11. a \in tramp .. Out - 3 /\ (n = 6 => a \in tramp .. Out - 6)
    BY <1>6
  <1>12. /\ kind = "b" => n = 4 /\ w[1] = Ldr17(2) /\ w[2] = Br17 /\ w[3] = Word("data", t)
         /\ kind = "bl" => /\ n = 5 /\ w[1] = Ldr17(3) /\ w[2] = Word("adr30", 4)
                           /\ w[3] = Br17 /\ w[4] = Word("data", t)
         /\ kind \in Tests => /\ n = 6 /\ w[1] = Word(kind, 2) /\ w[3] = Ldr17(2)
                              /\ w[4] = Br17 /\ w[5] = Word("data", t)
         /\ kind \in {"adr", "adrp"} => w[1] = Word("ldrx", 2) /\ w[3] = Word("data", t)
    BY <1>5, <1>3, Zenon DEF LongWords
  <1>13. ends[k] # a + 1
    <2>1. ends[k] = a + n
      BY <1>1, <1>5
    <2> QED
      BY <1>6, <2>1
  <1> QED
    BY <1>8, <1>10, <1>11, <1>12, <1>13

\* Without the first flaw they are about what is meant.
LEMMA LongHolds ==
    ASSUME MeansInv, Done, NEW k \in Placed, ~Unsigned(k), LongForm(k),
           code[k + 1].kind \in DOMAIN Half,
           NEW a, NEW kind, NEW t, a = ins[k], kind = code[k + 1].kind, t = Meant(k)
    PROVE  /\ a \in tramp .. Out - 3 /\ Refers(k) = t
           /\ kind = "b" => At(a) = Ldr17(2) /\ At(a + 1) = Br17 /\ At(a + 2) = Word("data", t)
           /\ kind = "bl" => /\ At(a) = Ldr17(3) /\ At(a + 1) = Word("adr30", 4)
                             /\ At(a + 2) = Br17 /\ At(a + 3) = Word("data", t)
           /\ kind \in Tests => /\ a \in tramp .. Out - 6
                                /\ At(a) = Word(kind, 2) /\ At(a + 2) = Ldr17(2)
                                /\ At(a + 3) = Br17 /\ At(a + 4) = Word("data", t)
           /\ kind \in {"adr", "adrp"} => At(a) = Word("ldrx", 2) /\ At(a + 2) = Word("data", t)
           /\ kind \in Loads => /\ At(a) = Word(kind, 2)
                                /\ \A x \in 0 .. Size[kind] - 1 :
                                      At(a + 2 + x) = Word("contents", t + x)
  <1>1. ends[k] # a + 1
    BY LongSays
  <1>2. Refers(k) = t
    BY <1>1, RefersMeant DEF Short
  <1> QED
    BY <1>2, LongSays

\* A copy without one of the flaws does what its instruction does.
LEMMA UnflawedKeeps ==
    ASSUME MeansInv, Done, NEW k \in Placed, ~Flawed(k), ~InCopy(Meant(k))
    PROVE  KeepsMeaning(k)
  <1>0. PICK i, a, w, t : i = code[k + 1] /\ a = ins[k] /\ w = At(a) /\ t = Meant(k)
    OBVIOUS
  <1>1. FixInv /\ ~Unsigned(k) /\ ~TooFar(k) /\ ~Stray(k) /\ ~SamePage(k) /\ Form(k)
    BY DEF Flawed, MeansInv, FormInv
  <1>2. tramp \in Nat /\ Out \in Nat /\ a \in Nat /\ Out = tramp + Len(copy) /\ i.kind \in Kinds
    <2>1. i \in Instrs
      BY <1>0, CopyTypes
    <2> QED
      BY <1>0, <2>1, CopyTypes DEF Instrs
  <1>3. i.kind \in DOMAIN Half => t \in Int
    BY <1>0, <1>1, RefersMeant
  <1>4. Land(t) = t
    BY <1>0, LandsOutside
  <1>5. i.kind \in Loads \cup {"adr"} => ~w.stray
    BY <1>0, <1>1, Zenon DEF Stray
  <1>6. i.kind \in Loads \cup Tests \cup Branches \cup {"adr"} =>
           i.kind \in DOMAIN Half \ {"adrp"}
    BY DEF Loads, Tests, Branches, Half
  <1>7. ASSUME ShortForm(k), i.kind \in Loads \cup Tests \cup Branches \cup {"adr"}
        PROVE  w.op = i.kind /\ a + w.imm = Image(t)
    BY <1>0, <1>1, <1>6, <1>7, ShortKeeps
  <1>8. ASSUME ~InRange(Refers(k)), LongForm(k), i.kind \in Branches \cup Tests
        PROVE  Image(t) = t
    <2>1. Refers(k) = t
      BY <1>0, <1>1, <1>6, <1>8, LongHolds
    <2> QED
      BY <1>8, <2>1 DEF Image
  <1>9. CASE i.kind \in Branches
    <2>0. /\ i.kind \notin Tests /\ i.kind \notin Loads
          /\ i.kind \notin {"adr", "adrp", "plain", "prfm"}
      BY <1>9 DEF Branches, Tests, Loads
    <2>1. CASE ShortForm(k)
      <3>1. w.op = i.kind /\ a + w.imm = Image(t)
        BY <1>7, <1>9, <2>1
      <3>2. w.op # "ldr17"
        BY <1>9, <3>1 DEF Branches
      <3> QED
        BY <1>0, <1>9, <2>0, <3>1, <3>2, Zenon DEF KeepsMeaning
    <2>2. CASE ~InRange(Refers(k)) /\ LongForm(k)
      <3>1. Image(t) = t
        BY <1>8, <1>9, <2>2
      <3>2. /\ a \in tramp .. Out - 3
            /\ i.kind = "b" => At(a) = Ldr17(2) /\ At(a + 1) = Br17 /\ At(a + 2) = Word("data", t)
            /\ i.kind = "bl" => /\ At(a) = Ldr17(3) /\ At(a + 1) = Word("adr30", 4)
                                /\ At(a + 2) = Br17 /\ At(a + 3) = Word("data", t)
        BY <1>0, <1>1, <1>6, <1>9, <2>2, LongHolds
      <3>3. a \in tramp .. Out - 1
        BY <1>2, <3>2
      <3>4. w.op = "ldr17" /\ Land(a) = t
        <4>1. CASE i.kind = "b"
          <5>1. /\ At(a).op = "ldr17" /\ At(a).imm = 2 /\ At(a + 1).op = "br17"
            BY <3>2, <4>1 DEF Ldr17, Br17, Word
          <5>2. At(a + 1).op # "adr30" /\ At(a + 2) = Word("data", t)
            BY <3>2, <4>1, <5>1
          <5> QED
            BY <1>0, <1>1, <3>3, <5>1, <5>2, LandsThere
        <4>2. CASE i.kind = "bl"
          <5>1. /\ At(a).op = "ldr17" /\ At(a).imm = 3 /\ At(a + 1).op = "adr30"
                /\ At(a + 2).op = "br17"
            BY <3>2, <4>2 DEF Ldr17, Br17, Word
          <5>2. At(a + 3) = Word("data", t)
            BY <3>2, <4>2
          <5> QED
            BY <1>0, <1>1, <3>3, <5>1, <5>2, LandsThere
        <4> QED
          BY <1>9, <4>1, <4>2 DEF Branches
      <3> QED
        BY <1>0, <1>4, <1>9, <2>0, <3>1, <3>4, Zenon DEF KeepsMeaning
    <2> QED
      BY <1>0, <1>1, <1>9, <2>1, <2>2, Zenon DEF Form
  <1>10. CASE i.kind \in Tests
    <2>0. /\ i.kind \notin Branches /\ i.kind \notin Loads
          /\ i.kind \notin {"adr", "adrp", "plain", "prfm"}
      BY <1>10 DEF Branches, Tests, Loads
    <2>1. CASE ShortForm(k)
      <3>1. w.op = i.kind /\ a + w.imm = Image(t)
        BY <1>7, <1>10, <2>1
      <3> QED
        BY <1>0, <1>10, <2>0, <3>1, Zenon DEF KeepsMeaning
    <2>2. CASE ~InRange(Refers(k)) /\ LongForm(k)
      <3>1. Image(t) = t
        BY <1>8, <1>10, <2>2
      <3>2. /\ a \in tramp .. Out - 6
            /\ At(a) = Word(i.kind, 2) /\ At(a + 2) = Ldr17(2)
            /\ At(a + 3) = Br17 /\ At(a + 4) = Word("data", t)
        BY <1>0, <1>1, <1>6, <1>10, <2>2, LongHolds
      <3>3. PICK s : s = a + 2
        OBVIOUS
      <3>4. s \in tramp .. Out - 1 /\ a + 3 = s + 1 /\ a + 4 = s + 2
        <4>1. a \in tramp .. Out - 6
          BY <3>2
        <4> QED
          BY <1>2, <3>3, <4>1
      <3>5. /\ At(s).op = "ldr17" /\ At(s).imm = 2 /\ At(s + 1).op = "br17"
            /\ At(s + 2) = Word("data", t) /\ w.op = i.kind /\ w.imm = 2
        BY <1>0, <3>2, <3>3, <3>4 DEF Ldr17, Br17, Word
      <3>6. At(s + 1).op # "adr30"
        BY <3>5
      <3>7. Land(a + w.imm) = t
        <4>1. Land(s) = t
          BY <1>1, <3>4, <3>5, <3>6, LandsThere
        <4> QED
          BY <3>3, <3>5, <4>1
      <3> QED
        BY <1>0, <1>4, <1>10, <2>0, <3>1, <3>5, <3>7, Zenon DEF KeepsMeaning
    <2> QED
      BY <1>0, <1>1, <1>10, <2>1, <2>2, Zenon DEF Form
  <1>11. CASE i.kind \in Loads
    <2>0. /\ i.kind \notin Branches /\ i.kind \notin Tests
          /\ i.kind \notin {"adr", "adrp", "plain", "prfm"}
      BY <1>11 DEF Branches, Tests, Loads
    <2>1. CASE ~InRange(Refers(k)) /\ ShortForm(k)
      <3>1. w.op = i.kind /\ a + w.imm = Image(t)
        BY <1>7, <1>11, <2>1
      <3>2. Image(t) = t
        <4>1. Refers(k) = t
          BY <1>0, <1>1, <1>6, <1>11, <2>0, RefersMeant
        <4> QED
          BY <2>1, <4>1 DEF Image
      <3>3. ~InCopy(a + w.imm)
        BY <1>0, <3>1, <3>2
      <3> QED
        BY <1>0, <1>5, <1>11, <2>0, <3>1, <3>2, <3>3, Zenon DEF KeepsMeaning
    <2>2. CASE LongForm(k)
      <3>1. /\ a \in tramp .. Out - 3 /\ At(a) = Word(i.kind, 2)
            /\ \A x \in 0 .. Size[i.kind] - 1 : At(a + 2 + x) = Word("contents", t + x)
        BY <1>0, <1>1, <1>6, <1>11, <2>2, LongHolds
      <3>2. w.op = i.kind /\ w.imm = 2
        BY <1>0, <3>1 DEF Word
      <3>3. InCopy(a + w.imm)
        BY <1>2, <3>1, <3>2 DEF InCopy
      <3>4. ~Short(k)
        BY <1>0, <1>6, <1>11, <2>2, LongSays DEF Short
      <3>5. \A x \in 0 .. Size[i.kind] - 1 : t + x \notin Writable
        BY <1>0, <1>11, <3>4, Zenon DEF Flawed, Snapshot
      <3>6. \A x \in 0 .. Size[i.kind] - 1 : /\ At(a + w.imm + x) = Word("contents", t + x)
                                             /\ t + x \notin Writable
        BY <3>1, <3>2, <3>5
      <3> QED
        BY <1>0, <1>5, <1>11, <2>0, <3>2, <3>3, <3>6, Zenon DEF KeepsMeaning
    <2> QED
      BY <1>0, <1>1, <1>11, <2>1, <2>2, Zenon DEF Form
  <1>12. CASE i.kind = "adr"
    <2>0. i.kind \notin Branches /\ i.kind \notin Tests /\ i.kind \notin Loads
          /\ i.kind \notin {"adrp", "plain", "prfm"}
      BY <1>12 DEF Branches, Tests, Loads
    <2>1. CASE ShortForm(k)
      <3>1. w.op = "adr" /\ a + w.imm = Image(t)
        BY <1>7, <1>12, <2>1
      <3> QED
        BY <1>0, <1>5, <1>12, <2>0, <3>1, Zenon DEF KeepsMeaning
    <2>2. CASE LongForm(k)
      <3>1. At(a) = Word("ldrx", 2) /\ At(a + 2) = Word("data", t)
        BY <1>0, <1>1, <1>6, <1>12, <2>2, LongHolds
      <3>2. w.op = "ldrx" /\ w.imm = 2 /\ w.op # "adr"
        BY <1>0, <3>1 DEF Word
      <3> QED
        BY <1>0, <1>5, <1>12, <2>0, <3>1, <3>2, Zenon DEF KeepsMeaning
    <2> QED
      BY <1>0, <1>1, <1>12, <2>1, <2>2, Zenon DEF Form
  <1>13. CASE i.kind = "adrp"
    <2>0. i.kind \notin Branches /\ i.kind \notin Tests /\ i.kind \notin Loads
          /\ i.kind \notin {"adr", "plain", "prfm"} /\ i.kind \in DOMAIN Half
      BY <1>13 DEF Branches, Tests, Loads, Half
    <2>1. ~InRange(Refers(k))
      <3>1. Refers(k) = t
        BY <1>0, <1>1, <2>0, RefersMeant
      <3> QED
        BY <1>0, <1>1, <1>13, <3>1, Zenon DEF SamePage
    <2>2. LongForm(k)
      BY <1>0, <1>1, <1>13, <2>1, Zenon DEF Form
    <2>3. At(a) = Word("ldrx", 2) /\ At(a + 2) = Word("data", t)
      BY <1>0, <1>1, <1>13, <2>0, <2>2, LongHolds
    <2>4. w.op = "ldrx" /\ w.imm = 2
      BY <1>0, <2>3 DEF Word
    <2> QED
      BY <1>0, <1>13, <2>0, <2>3, <2>4, Zenon DEF KeepsMeaning
  <1>14. CASE i.kind = "plain"
    <2>0. i.kind \notin Branches /\ i.kind \notin Tests /\ i.kind \notin Loads
          /\ i.kind \notin {"adr", "adrp", "prfm"}
      BY <1>14 DEF Branches, Tests, Loads
    <2>1. At(a) = Word("plain", k)
      BY <1>0, <1>1, <1>14, Zenon DEF Form
    <2> QED
      BY <1>0, <1>14, <2>0, <2>1, Zenon DEF KeepsMeaning
  <1>15. CASE i.kind = "prfm"
    <2>0. i.kind \notin Branches /\ i.kind \notin Tests /\ i.kind \notin Loads
          /\ i.kind \notin {"adr", "adrp", "plain"}
      BY <1>15 DEF Branches, Tests, Loads
    <2> QED
      BY <1>0, <1>15, <2>0, Zenon DEF KeepsMeaning
  <1> QED
    BY <1>2, <1>9, <1>10, <1>11, <1>12, <1>13, <1>14, <1>15 DEF Kinds

\* The words of the copy, and what their fields hold.
LEMMA FieldFits ==
    ASSUME MeansInv, NEW a \in tramp .. Out - 1
    PROVE  /\ At(a).imm \in Int
           /\ At(a).op \in DOMAIN Half => HasRoom(At(a).op, At(a).imm)
  <1>1. /\ tramp \in Nat /\ Len(copy) \in Nat /\ Out = tramp + Len(copy)
        /\ \A x \in 1 .. Len(copy) : copy[x] \in Words
    BY ContextTypes DEF MeansInv, FixInv
  <1>2. a - tramp + 1 \in 1 .. Len(copy)
    BY <1>1
  <1>3. At(a) \in Words
    BY <1>1, <1>2 DEF At
  <1> QED
    BY <1>3 DEF Words

\* The kinds whose copy may be one word that refers by its field.
Fielded == Branches \cup Tests \cup Loads \cup {"adr"}

\* Where a copy of one word must lead.
Aim(kind, t) ==
    IF kind \in Branches \cup Tests THEN Land(Image(t))
    ELSE IF kind = "adr" THEN Image(t) ELSE t

\* If such a copy does what its instruction does, and not by chance, its own field says so.
LEMMA ShortAims ==
    ASSUME MeansInv, Done, NEW k \in Placed, ShortForm(k), KeepsMeaning(k), ~ByChance(k),
           NEW a, NEW kind, NEW t, a = ins[k], kind = code[k + 1].kind, t = Meant(k),
           kind \in Fielded
    PROVE  /\ a \in tramp .. Out - 1 /\ kind \in DOMAIN Half
           /\ At(a).imm \in Int /\ HasRoom(kind, At(a).imm)
           /\ ~InCopy(a + At(a).imm) /\ a + At(a).imm = Aim(kind, t)
  <1>1. kind \in DOMAIN Half /\ kind # "adrp"
    BY DEF Fielded, Branches, Tests, Loads, Half
  <1>2. ends[k] = a + 1 /\ At(a).op = kind
    BY Zenon DEF ShortForm
  <1>3. a \in tramp .. Out - 1
    <2>1. /\ a \in Nat /\ tramp \in Nat /\ Out \in Nat /\ tramp <= a /\ ends[k] <= Out
      BY CopyTypes
    <2> QED
      BY <1>2, <2>1
  <1>4. At(a).imm \in Int /\ HasRoom(kind, At(a).imm)
    BY <1>1, <1>2, <1>3, FieldFits
  <1>5. ~InCopy(a + At(a).imm)
    BY <1>2, Zenon DEF ByChance, Short
  <1>6. Land(a + At(a).imm) = a + At(a).imm
    BY <1>5, LandsOutside
  <1>7. CASE kind \in Branches
    <2>1. /\ At(a).op # "ldr17" /\ kind \in Branches \cup Tests
          /\ kind \notin Tests /\ kind \notin Loads
          /\ kind \notin {"adr", "adrp", "plain", "prfm"}
      BY <1>2, <1>7 DEF Branches, Tests, Loads
    <2>2. Land(a + At(a).imm) = Land(Image(t))
      BY <1>7, <2>1, Zenon DEF KeepsMeaning
    <2>3. a + At(a).imm = Aim(kind, t)
      BY <1>6, <2>1, <2>2, Zenon DEF Aim
    <2> QED
      BY <1>1, <1>3, <1>4, <1>5, <2>3
  <1>8. CASE kind \in Tests
    <2>1. /\ kind \notin Branches /\ kind \in Branches \cup Tests
          /\ kind \notin Loads /\ kind \notin {"adr", "adrp", "plain", "prfm"}
      BY <1>8 DEF Branches, Tests, Loads
    <2>2. Land(a + At(a).imm) = Land(Image(t))
      BY <1>8, <2>1, Zenon DEF KeepsMeaning
    <2>3. a + At(a).imm = Aim(kind, t)
      BY <1>6, <2>1, <2>2, Zenon DEF Aim
    <2> QED
      BY <1>1, <1>3, <1>4, <1>5, <2>3
  <1>9. CASE kind \in Loads
    <2>1. /\ kind \notin Branches /\ kind \notin Tests /\ kind # "adr"
          /\ kind \notin {"adrp", "plain", "prfm"}
      BY <1>9 DEF Branches, Tests, Loads
    <2>2. a + At(a).imm = t
      BY <1>5, <1>9, <2>1, Zenon DEF KeepsMeaning
    <2>3. a + At(a).imm = Aim(kind, t)
      BY <2>1, <2>2 DEF Aim
    <2> QED
      BY <1>1, <1>3, <1>4, <1>5, <2>3
  <1>10. CASE kind = "adr"
    <2>1. kind \notin Branches /\ kind \notin Tests /\ kind \notin Loads
      BY <1>10 DEF Branches, Tests, Loads
    <2>2. a + At(a).imm = Image(t)
      BY <1>2, <1>10, <2>1, Zenon DEF KeepsMeaning
    <2>3. a + At(a).imm = Aim(kind, t)
      BY <1>10, <2>1, <2>2 DEF Aim
    <2> QED
      BY <1>1, <1>3, <1>4, <1>5, <2>3
  <1> QED
    BY <1>7, <1>8, <1>9, <1>10 DEF Fielded

\* A field that has not enough bits does not lead where its instruction does.
LEMMA TooFarShows ==
    ASSUME MeansInv, Done, NEW k \in Placed, TooFar(k), ShortForm(k), ~InCopy(Meant(k)),
           code[k + 1].kind \in Fielded, ~ByChance(k)
    PROVE  ~KeepsMeaning(k)
  <1> SUFFICES ASSUME KeepsMeaning(k)
               PROVE  FALSE
    OBVIOUS
  <1>0. PICK a, kind, t : a = ins[k] /\ kind = code[k + 1].kind /\ t = Meant(k)
    OBVIOUS
  <1>1. ~InRange(t) /\ ~HasRoom(kind, t - a)
    BY <1>0, Zenon DEF TooFar
  <1>2. /\ At(a).imm \in Int /\ HasRoom(kind, At(a).imm) /\ a + At(a).imm = Aim(kind, t)
    BY <1>0, ShortAims
  <1>3. Aim(kind, t) = t
    <2>1. Image(t) = t
      BY <1>1 DEF Image
    <2>2. Land(t) = t
      BY <1>0, LandsOutside
    <2> QED
      BY <2>1, <2>2 DEF Aim
  <1>4. a \in Nat
    BY <1>0, CopyTypes
  <1>5. At(a).imm = t - a
    BY <1>2, <1>3, <1>4
  <1> QED
    BY <1>1, <1>2, <1>5

\* A field does not drop a distance between its width and twice that.
LEMMA EncodeLoses ==
    ASSUME NEW kind \in DOMAIN Half, NEW d \in Int, HasRoom(kind, d),
           NEW n \in Int, 2 * Half[kind] < n, n < 4 * Half[kind]
    PROVE  Encode(kind, d + n) # d
  <1> DEFINE h == Half[kind]
  <1>1. h \in Nat \ {0} /\ d \in -h .. h - 1 /\ 2 * h < n /\ n < 4 * h
    BY DEF Half, RowWords, A64_MAX_INSTRUCTIONS, HasRoom
  <1> HIDE DEF h
  <1> DEFINE m == 2 * h
             y == d + h
             e == n - m
  <1>2. /\ m \in Nat \ {0} /\ y \in 0 .. m - 1 /\ e \in 1 .. m - 1
        /\ (d + n) + h = (y + e) + m
    BY <1>1
  <1>3. (d + n) + h = (y + e) + m
    BY <1>2
  <1> HIDE DEF m, y, e
  <1>4. ((y + e) + m) % m # y
    <2>1. CASE y + e < m
      <3>1. y + e \in 0 .. m - 1
        BY <1>2, <2>1
      <3>2. ((y + e) + m) % m = y + e
        BY <1>2, <3>1, Residue
      <3> QED
        BY <1>2, <3>2
    <2>2. CASE y + e >= m
      <3>1. PICK z : z = y + e - m
        OBVIOUS
      <3>2. z \in 0 .. m - 1 /\ y + e = z + m /\ z < y
        BY <1>2, <2>2, <3>1
      <3>3. ((z + m) + m) % m = z
        BY <1>2, <3>2
      <3> QED
        BY <1>2, <3>2, <3>3
    <2> QED
      BY <1>2, <2>1, <2>2
  <1>5. ((d + n + h) % m) # y
    BY <1>3, <1>4
  <1>6. (d + n + h) % m \in Int
    BY <1>1, <1>2
  <1>7. Encode(kind, d + n) = ((d + n + h) % m) - h
    BY DEF Encode, h, m
  <1> DEFINE r == (d + n + h) % m
  <1> HIDE DEF r
  <1>8. r \in Int /\ r # d + h /\ Encode(kind, d + n) = r - h
    BY <1>5, <1>6, <1>7 DEF r, y
  <1> QED
    BY <1>1, <1>8

\* A negative offset that the field of a copy of one word does not put right.
LEMMA UnsignedShort ==
    ASSUME MeansInv, Done, NEW k \in Placed, Unsigned(k), ShortForm(k), ~InCopy(Meant(k)),
           code[k + 1].kind \in Fielded, ~ByChance(k),
           code[k + 1].kind \in Loads => ~InRange(Refers(k))
    PROVE  ~KeepsMeaning(k)
  <1> SUFFICES ASSUME KeepsMeaning(k)
               PROVE  FALSE
    OBVIOUS
  <1>0. PICK i, a, kind, t : i = code[k + 1] /\ a = ins[k] /\ kind = i.kind /\ t = Meant(k)
    OBVIOUS
  <1>1. kind \notin Branches /\ i.off < 0
    BY <1>0, Zenon DEF Unsigned
  <1>2. /\ a \in tramp .. Out - 1 /\ kind \in DOMAIN Half /\ At(a).imm \in Int
        /\ HasRoom(kind, At(a).imm) /\ ~InCopy(a + At(a).imm) /\ a + At(a).imm = Aim(kind, t)
    BY <1>0, ShortAims
  <1>3. /\ i.off \in Int /\ HasRoom(kind, i.off) /\ k \in 0 .. 4 /\ base \in Nat
        /\ count \in 1 .. 5 /\ a \in Nat /\ tramp \in Nat /\ Out \in Nat
        /\ Out = tramp + Len(copy)
    <2>1. i \in Instrs
      BY <1>0, CopyTypes
    <2> QED
      BY <1>0, <1>2, <2>1, CopyTypes DEF Instrs
  <1>4. CASE kind \in Tests
    <2>1. InRange(t)
      <3>1. Short(k)
        BY Zenon DEF ShortForm, Short
      <3> QED
        BY <1>0, <1>4, <3>1, Zenon DEF Unsigned
    <2>2. InCopy(Land(Image(t)))
      BY <1>0, <1>4, <2>1, Zenon DEF ByChance
    <2>3. Aim(kind, t) = Land(Image(t))
      BY <1>4 DEF Aim
    <2> QED
      BY <1>2, <2>2, <2>3
  <1>5. CASE kind \in Loads \cup {"adr"}
    <2>1. kind \notin Tests /\ kind # "adrp" /\ kind \notin Branches
      BY <1>5 DEF Tests, Loads, Branches
    <2>2. PICK o, r, W : o = i.off /\ r = Refers(k) /\ W = Wrap
      OBVIOUS
    <2>3. t \in Int /\ r = t + W /\ t = base + k + o /\ o \in Int /\ o < 0 /\ W \in Nat
      BY <1>0, <1>1, <1>2, <1>3, <1>5, <2>1, <2>2, RefersBy
    <2>4. PICK h : /\ h = Half[kind] /\ h \in Nat /\ h > 50 /\ 2 * h < W /\ o \in -h .. h - 1
      <3>1. /\ Half[kind] \in Nat /\ Half[kind] > 50 /\ 2 * Half[kind] < Wrap
        BY <1>2, <2>1 DEF Half, RowWords, A64_MAX_INSTRUCTIONS
      <3>2. o \in -Half[kind] .. Half[kind] - 1
        BY <1>0, <1>3, <2>2 DEF HasRoom
      <3> QED
        BY <2>2, <3>1, <3>2
    <2>5. k \in 0 .. 4 /\ base \in Nat /\ count \in 1 .. 5 /\ a \in Nat
      BY <1>3, Zenon
    <2>6. ~InRange(r)
      <3>1. r > base + count
        BY ONLY <2>3, <2>4, <2>5
      <3> QED
        BY ONLY <2>3, <2>5, <3>1 DEF InRange
    <2>7. At(a).imm = Encode(kind, r - a) /\ Reached(kind, r - a)
      BY <1>0, <2>2, <2>6, Zenon DEF ShortForm
    <2>8. CASE Aim(kind, t) = t
      <3>1. At(a).imm = t - a
        <4>1. PICK x \in Int : x = At(a).imm /\ a + x = t
          BY <1>2, <2>8
        <4>2. x = t - a
          BY ONLY <2>3, <2>5, <4>1
        <4> QED
          BY <4>1, <4>2
      <3>2. HasRoom(kind, t - a) /\ t - a >= -h
        BY <1>2, <2>4, <3>1 DEF HasRoom
      <3>3. Abs(r - a) < 3 * h
        BY <2>4, <2>7, Zenon DEF Reached
      <3>4. W < 4 * h
        BY ONLY <2>3, <2>4, <2>5, <3>2, <3>3 DEF Abs
      <3>5. t - a \in Int /\ W \in Int /\ r - a = (t - a) + W
        BY ONLY <2>3, <2>5
      <3>6. Encode(kind, (t - a) + W) # t - a
        BY <1>2, <2>4, <3>2, <3>4, <3>5, EncodeLoses
      <3> QED
        BY <2>7, <3>1, <3>5, <3>6
    <2>9. CASE Aim(kind, t) # t
      <3>1. kind = "adr" /\ InRange(t) /\ Aim(kind, t) = ins[Index(t)]
        BY <1>5, <2>1, <2>9 DEF Aim, Image
      <3>2. PICK j : j = Index(t)
        OBVIOUS
      <3>3. j \in 0 .. count - 1 /\ j < k
        BY ONLY <2>3, <2>5, <3>1, <3>2 DEF InRange, Index
      <3>4. j \in Placed
        BY <3>3, Settled
      <3>5. /\ ins[j] \in Nat /\ ends[j] \in Nat /\ tramp <= ins[j] /\ ins[j] <= ends[j]
            /\ ends[j] <= a
        <4>1. SpanInv
          BY DEF MeansInv, FixInv
        <4> QED
          BY <1>0, <3>3, <3>4, <4>1, CopyTypes DEF SpanInv
      <3>6. ins[j] \in tramp .. Out - 1
        BY <1>2, <1>3, <3>5
      <3>7. InCopy(ins[j])
        BY <1>3, <3>6 DEF InCopy
      <3> QED
        BY <1>2, <3>1, <3>2, <3>7
    <2> QED
      BY <2>8, <2>9
  <1> QED
    BY <1>0, <1>1, <1>4, <1>5 DEF Fielded

\* A literal holds a negative offset as it was read, and what a test skips over stays
\* in the row of the trampoline.
LEMMA UnsignedLong ==
    ASSUME MeansInv, Done, NEW k \in Placed, Unsigned(k), LongForm(k), ~InCopy(Meant(k)),
           code[k + 1].kind \in DOMAIN Half, ~ByChance(k)
    PROVE  ~KeepsMeaning(k)
  <1> SUFFICES ASSUME KeepsMeaning(k)
               PROVE  FALSE
    OBVIOUS
  <1>0. PICK i, a, kind, t, r : /\ i = code[k + 1] /\ a = ins[k] /\ kind = i.kind
                                /\ t = Meant(k) /\ r = Refers(k)
    OBVIOUS
  <1>1. kind \notin Branches /\ i.off < 0
    BY <1>0, Zenon DEF Unsigned
  <1>2. /\ base \in Nat /\ tramp \in Nat /\ Out \in Nat /\ Out = tramp + Len(copy)
        /\ Out <= tramp + RowWords
    BY CopyTypes
  <1>3. /\ a \in tramp .. Out - 3
        /\ kind \in Tests => /\ a \in tramp .. Out - 6
                             /\ At(a) = Word(kind, 2) /\ At(a + 2) = Ldr17(2)
                             /\ At(a + 3) = Br17 /\ At(a + 4) = Word("data", r)
        /\ kind \in {"adr", "adrp"} => At(a) = Word("ldrx", 2) /\ At(a + 2) = Word("data", r)
        /\ kind \in Loads => /\ At(a) = Word(kind, 2)
                             /\ \A x \in 0 .. Size[kind] - 1 :
                                   At(a + 2 + x) = Word("contents", r + x)
    BY <1>0, LongSays
  <1>4. /\ t \in Int
        /\ kind \in Tests => r = t + 2 * Half[kind]
        /\ kind \in Loads \cup {"adr", "adrp"} => r = t + Wrap
    BY <1>0, <1>1, RefersBy
  <1>5. CASE kind \in Tests
    <2>0. /\ kind \notin Branches /\ kind \notin Loads
          /\ kind \notin {"adr", "adrp", "plain", "prfm"} /\ kind \in DOMAIN Half
      BY <1>0, <1>5 DEF Branches, Tests, Loads
    <2>1. r \in Int /\ r # t
      <3>1. Half[kind] \in Nat \ {0}
        BY <2>0 DEF Half, RowWords, A64_MAX_INSTRUCTIONS
      <3> QED
        BY <1>4, <1>5, <3>1
    <2>2. Land(a + 2) = r
      <3>1. PICK s : s = a + 2
        OBVIOUS
      <3>2. s \in tramp .. Out - 1 /\ a + 3 = s + 1 /\ a + 4 = s + 2
        <4>1. a \in tramp .. Out - 6
          BY <1>3, <1>5
        <4> QED
          BY <1>2, <3>1, <4>1
      <3>3. /\ At(s).op = "ldr17" /\ At(s).imm = 2 /\ At(s + 1).op = "br17"
            /\ At(s + 2) = Word("data", r)
        BY <1>3, <1>5, <3>1, <3>2 DEF Ldr17, Br17, Word
      <3>4. At(s + 1).op # "adr30"
        BY <3>3
      <3>5. Land(s) = r
        BY <3>2, <3>3, <3>4, LandsThere DEF MeansInv
      <3> QED
        BY <3>1, <3>5
    <2>3. At(a).imm = 2
      BY <1>3, <1>5 DEF Word
    <2>4. Land(a + At(a).imm) = Land(Image(t))
      BY <1>0, <1>5, <2>0, Zenon DEF KeepsMeaning
    <2>5. Land(Image(t)) = r
      BY <2>2, <2>3, <2>4
    <2>6. CASE InRange(t)
      <3>1. InCopy(r)
        BY <1>0, <1>5, <2>5, <2>6, Zenon DEF ByChance
      <3>2. ~InRow(r)
        BY <1>0, <1>5, Zenon DEF LongForm
      <3> QED
        BY <1>2, <2>1, <3>1, <3>2 DEF InCopy, InRow, RowWords, A64_MAX_INSTRUCTIONS
    <2>7. CASE ~InRange(t)
      <3>1. Image(t) = t /\ Land(t) = t
        BY <1>0, <2>7, LandsOutside DEF Image
      <3> QED
        BY <2>1, <2>5, <3>1
    <2> QED
      BY <2>6, <2>7
  <1>6. ASSUME kind \in Loads \cup {"adr", "adrp"}
        PROVE  r \in Int /\ r # t
    BY <1>4, <1>6
  <1>7. CASE kind \in Loads
    <2>0. /\ kind \notin Branches /\ kind \notin Tests
          /\ kind \notin {"adr", "adrp", "plain", "prfm"}
      BY <1>7 DEF Branches, Tests, Loads
    <2>1. At(a).imm = 2 /\ InCopy(a + At(a).imm)
      <3>1. At(a).imm = 2
        BY <1>3, <1>7 DEF Word
      <3> QED
        BY <1>2, <1>3, <3>1 DEF InCopy
    <2>2. \A x \in 0 .. Size[kind] - 1 : At(a + At(a).imm + x) = Word("contents", t + x)
      BY <1>0, <1>7, <2>0, <2>1, Zenon DEF KeepsMeaning
    <2>3. 0 \in 0 .. Size[kind] - 1
      BY <1>7 DEF Size, Loads
    <2>4. At(a + 2 + 0) = Word("contents", t + 0) /\ At(a + 2 + 0) = Word("contents", r + 0)
      BY <1>3, <1>7, <2>1, <2>2, <2>3
    <2>5. t + 0 = r + 0
      BY <2>4 DEF Word
    <2> QED
      BY <1>4, <1>6, <1>7, <2>5
  <1>8. CASE kind \in {"adr", "adrp"}
    <2>0. /\ kind \notin Branches /\ kind \notin Tests /\ kind \notin Loads
          /\ kind \notin {"plain", "prfm"} /\ (kind = "adr" => kind # "adrp")
      BY <1>8 DEF Branches, Tests, Loads
    <2>1. At(a).op = "ldrx" /\ At(a).imm = 2 /\ At(a).op # "adr" /\ At(a + 2) = Word("data", r)
      BY <1>3, <1>8 DEF Word
    <2>2. At(a + At(a).imm) = Word("data", t)
      <3>1. CASE kind = "adr"
        BY <1>0, <2>0, <2>1, <3>1, Zenon DEF KeepsMeaning
      <3>2. CASE kind = "adrp"
        <4>1. kind # "adr"
          BY <3>2
        <4> QED
          BY <1>0, <2>0, <3>2, <4>1, Zenon DEF KeepsMeaning
      <3> QED
        BY <1>8, <3>1, <3>2
    <2>3. t = r
      BY <2>1, <2>2 DEF Word
    <2> QED
      BY <1>6, <1>8, <2>3
  <1> QED
    BY <1>0, <1>1, <1>5, <1>7, <1>8 DEF Half, Branches, Tests, Loads

\* A flaw shows in what the copy does, but for the two ways that ByChance lists.
LEMMA FlawShows ==
    ASSUME MeansInv, Done, NEW k \in Placed, Flawed(k), ~InCopy(Meant(k)), ~ByChance(k)
    PROVE  ~KeepsMeaning(k)
  <1>0. PICK kind : kind = code[k + 1].kind
    OBVIOUS
  <1>1. Form(k)
    BY DEF MeansInv, FormInv
  <1>2. ASSUME kind \in DOMAIN Half, LongForm(k)
        PROVE  ~TooFar(k)
    <2>1. ends[k] # ins[k] + 1
      BY <1>0, <1>2, LongSays
    <2> QED
      BY <2>1, Zenon DEF TooFar, Short
  <1>3. CASE Stray(k)
    <2>1. /\ kind \in Loads \cup {"adr"} /\ At(ins[k]).stray
      BY <1>0, <1>3, Zenon DEF Stray
    <2>2. CASE kind \in Loads
      <3>1. /\ kind \notin Branches /\ kind \notin Tests
            /\ kind \notin {"adr", "adrp", "plain", "prfm"}
        BY <2>2 DEF Branches, Tests, Loads
      <3> QED
        BY <1>0, <2>1, <2>2, <3>1, Zenon DEF KeepsMeaning
    <2>3. CASE kind = "adr"
      <3>1. /\ kind \notin Branches /\ kind \notin Tests /\ kind \notin Loads
            /\ kind \notin {"adrp", "plain", "prfm"}
        BY <2>3 DEF Branches, Tests, Loads
      <3> QED
        BY <1>0, <2>1, <2>3, <3>1, Zenon DEF KeepsMeaning
    <2> QED
      BY <2>1, <2>2, <2>3
  <1>4. ASSUME kind = "adrp", Kept(k)
        PROVE  ~KeepsMeaning(k)
    <2>1. At(ins[k]).op # "ldrx"
      BY <1>0, <1>4 DEF Kept
    <2>2. /\ kind \notin Branches /\ kind \notin Tests /\ kind \notin Loads
          /\ kind \notin {"adr", "plain", "prfm"}
      BY <1>4 DEF Branches, Tests, Loads
    <2> QED
      BY <1>0, <1>4, <2>1, <2>2, Zenon DEF KeepsMeaning
  <1>5. CASE Unsigned(k)
    <2>1. kind \notin Branches \cup {"plain", "prfm"}
      BY <1>0, <1>5, Zenon DEF Unsigned
    <2>2. kind \in DOMAIN Half /\ kind \in Kinds
      <3>1. code[k + 1] \in Instrs
        BY CopyTypes
      <3> QED
        BY <1>0, <2>1, <3>1 DEF Instrs, Kinds, Half, Branches, Tests, Loads
    <2>3. CASE LongForm(k)
      BY <1>0, <1>5, <2>2, <2>3, UnsignedLong
    <2>4. CASE ShortForm(k) /\ kind \in Fielded /\ (kind \in Loads => ~InRange(Refers(k)))
      BY <1>0, <1>5, <2>4, UnsignedShort
    <2>5. \/ LongForm(k) \/ (kind = "adrp" /\ Kept(k))
          \/ ShortForm(k) /\ kind \in Fielded /\ (kind \in Loads => ~InRange(Refers(k)))
      <3>1. CASE kind \in Tests \cup {"adr"}
        <4>1. kind \in Branches \cup Tests \cup {"adr"} /\ kind \in Fielded /\ kind \notin Loads
          BY <3>1 DEF Fielded, Tests, Loads
        <4> QED
          BY <1>0, <1>1, <4>1, Zenon DEF Form
      <3>2. CASE kind \in Loads
        <4>1. kind \in Fielded
          BY <3>2 DEF Fielded
        <4> QED
          BY <1>0, <1>1, <3>2, <4>1, Zenon DEF Form
      <3>3. CASE kind = "adrp"
        BY <1>0, <1>1, <3>3, Zenon DEF Form
      <3> QED
        BY <2>1, <2>2, <3>1, <3>2, <3>3 DEF Kinds
    <2> QED
      BY <1>4, <2>3, <2>4, <2>5
  <1>6. CASE TooFar(k)
    <2>1. kind \in DOMAIN Half /\ kind # "adrp"
      BY <1>0, <1>6, Zenon DEF TooFar
    <2>2. kind \in Fielded
      BY <2>1 DEF Fielded, Half, Branches, Tests, Loads
    <2>3. ShortForm(k)
      <3>1. ~LongForm(k)
        BY <1>2, <1>6, <2>1
      <3> QED
        BY <1>0, <1>1, <2>2, <3>1, Zenon DEF Form, Fielded
    <2> QED
      BY <1>0, <1>6, <2>2, <2>3, TooFarShows
  <1>7. CASE SamePage(k) /\ ~Unsigned(k)
    <2>1. kind = "adrp" /\ InRange(Meant(k))
      BY <1>0, <1>7, Zenon DEF SamePage
    <2>2. kind \in DOMAIN Half /\ kind \notin Tests
      BY <2>1 DEF Half, Tests
    <2>3. Refers(k) = Meant(k)
      BY <1>0, <1>7, <2>2, RefersMeant
    <2>4. Kept(k)
      BY <1>0, <1>1, <2>1, <2>3, Zenon DEF Form
    <2> QED
      BY <1>4, <2>1, <2>4
  <1>8. CASE Snapshot(k)
    <2>1. /\ kind \in Loads /\ ~Short(k)
          /\ \E x \in 0 .. Size[kind] - 1 : Meant(k) + x \in Writable
      BY <1>0, <1>8, Zenon DEF Snapshot
    <2>2. /\ kind \in DOMAIN Half /\ kind \notin Branches /\ kind \notin Tests
          /\ kind \notin {"adr", "adrp", "plain", "prfm"}
      BY <2>1 DEF Half, Branches, Tests, Loads
    <2>3. LongForm(k)
      <3>1. ~ShortForm(k)
        BY <2>1, Zenon DEF ShortForm, Short
      <3> QED
        BY <1>0, <1>1, <2>1, <3>1, Zenon DEF Form
    <2>4. PICK a : a = ins[k]
      OBVIOUS
    <2>5. a \in tramp .. Out - 3 /\ At(a) = Word(kind, 2)
      BY <1>0, <2>1, <2>2, <2>3, <2>4, LongSays
    <2>6. At(a).imm = 2 /\ InCopy(a + At(a).imm)
      <3>1. At(a).imm = 2
        BY <2>5 DEF Word
      <3>2. tramp \in Nat /\ Out \in Nat /\ Out = tramp + Len(copy)
        BY CopyTypes
      <3> QED
        BY <2>5, <3>1, <3>2 DEF InCopy
    <2> QED
      BY <1>0, <2>1, <2>2, <2>4, <2>6, Zenon DEF KeepsMeaning
  <1> QED
    BY <1>3, <1>5, <1>6, <1>7, <1>8, Zenon DEF Flawed

\* The copies mean what the prologue means, but for the exceptions that Flawed lists and
\* not for others, for fields of any width, any mix of instructions, and wherever function
\* and trampoline lie (And64InlineHook.cpp:115-424).
THEOREM KeepsItsMeaning == Spec => []MeaningKept
  <1>1. MeansInv /\ FaultInv => MeaningKept
    BY UnflawedKeeps, FlawShows, Zenon DEF MeaningKept, FaultInv
  <1> QED
    BY <1>1, MeansAlways, FaultAlways, PTL
=============================================================================
