------------------------ MODULE RelocateValuesProofs ------------------------
(***************************************************************************)
(* The copy of every PC-relative instruction that relocate.c writes does   *)
(* what the instruction does, or is one of the listed flaws and does       *)
(* something else: for any function, any instructions with fields of the   *)
(* width they have, and addresses of 30 or 32 bits.                        *)
(***************************************************************************)
EXTENDS RelocateValues, TLAPS

-----------------------------------------------------------------------------
(* Arithmetic of addresses *)

Size(w) == 2 ^ w
Word == Size(WordBits)

\* The fifth bit from the top.
Fifth == 2 ^ (WordBits - 5)

\* The sizes of the address space, and of the part of it that five bits divide.
LEMMA WordSize ==
    /\ Word \in {2 ^ 30, 2 ^ 32}
    /\ Fifth \in {2 ^ 25, 2 ^ 27}
    /\ Word = 32 * Fifth
  <1>1. CASE WordBits = 30
    BY <1>1 DEF Word, Fifth, Size
  <1>2. CASE WordBits = 32
    BY <1>2 DEF Word, Fifth, Size
  <1> QED
    BY <1>1, <1>2, ValueAssumption DEF ValueAssumption

\* Sums that are apart, by less than the address space has, are different addresses.
LEMMA BitsApart ==
    ASSUME NEW a \in Int, NEW b \in Int, a # b, a - b < Word, b - a < Word
    PROVE  Bits(a) # Bits(b)
  <1>1. CASE Word = 2 ^ 30
    BY <1>1 DEF Bits, Word, Size
  <1>2. CASE Word = 2 ^ 32
    BY <1>2 DEF Bits, Word, Size
  <1> QED
    BY <1>1, <1>2, WordSize

\* A sign extension keeps the bits below it (relocate.c:183-198, 298-333, 515-532).
LEMMA SignExtendEven ==
    ASSUME NEW y \in Nat, NEW n \in {9, 12, 21, 25, 26}
    PROVE  /\ SignExtend(y, n) \in Int
           /\ y % 2 = 0 => SignExtend(y, n) % 2 = 0
           /\ y % 4 = 0 => SignExtend(y, n) % 4 = 0
  <1>1. CASE n = 9
    BY <1>1 DEF SignExtend
  <1>2. CASE n = 12
    BY <1>2 DEF SignExtend
  <1>3. CASE n = 21
    BY <1>3 DEF SignExtend
  <1>4. CASE n = 25
    BY <1>4 DEF SignExtend
  <1>5. CASE n = 26
    BY <1>5 DEF SignExtend
  <1> QED
    BY <1>1, <1>2, <1>3, <1>4, <1>5

\* The offsets of branches are even, so that they leave bit 0 of an address alone
\* (relocate.c:183-198, 298-333, 515-532).
LEMMA BranchOffsets ==
    ASSUME NEW i, i.s \in {0, 1}, i.j1 \in {0, 1}, i.j2 \in {0, 1}, i.x \in Nat
    PROVE  /\ Long(i) \in Int /\ Long(i) % 2 = 0
           /\ Short(i) \in Int /\ Short(i) % 2 = 0
           /\ \A n \in {9, 12} : /\ SignExtend(2 * i.x, n) \in Int
                                 /\ SignExtend(2 * i.x, n) % 2 = 0
           /\ /\ SignExtend(4 * i.x, 26) \in Int
              /\ SignExtend(4 * i.x, 26) % 4 = 0
           /\ /\ SignExtend(4 * i.x + 2 * i.s, 26) \in Int
              /\ SignExtend(4 * i.x + 2 * i.s, 26) % 2 = 0
  <1>1. Bool(i.j1 = i.s) \in {0, 1} /\ Bool(i.j2 = i.s) \in {0, 1}
    BY DEF Bool
  <1> DEFINE l  == 2 ^ 24 * i.s + 2 ^ 23 * Bool(i.j1 = i.s) + 2 ^ 22 * Bool(i.j2 = i.s)
                   + 2 * i.x
             sh == 2 ^ 20 * i.s + 2 ^ 19 * i.j2 + 2 ^ 18 * i.j1 + 2 * i.x
             x2 == 2 * i.x
             x4 == 4 * i.x
             y4 == 4 * i.x + 2 * i.s
  <1>2. /\ Long(i) = SignExtend(l, 25)
        /\ Short(i) = SignExtend(sh, 21)
    BY DEF Long, Short
  <1>3. /\ l \in Nat /\ l % 2 = 0
        /\ sh \in Nat /\ sh % 2 = 0
        /\ x2 \in Nat /\ x2 % 2 = 0
        /\ x4 \in Nat /\ x4 % 4 = 0
        /\ y4 \in Nat /\ y4 % 2 = 0
    <2>1. PICK s \in {0, 1}, j1 \in {0, 1}, j2 \in {0, 1}, x \in Nat,
               b1 \in {0, 1}, b2 \in {0, 1} :
            /\ s = i.s /\ j1 = i.j1 /\ j2 = i.j2 /\ x = i.x
            /\ b1 = Bool(i.j1 = i.s) /\ b2 = Bool(i.j2 = i.s)
      BY <1>1
    <2>2. /\ l = 2 ^ 24 * s + 2 ^ 23 * b1 + 2 ^ 22 * b2 + 2 * x
          /\ sh = 2 ^ 20 * s + 2 ^ 19 * j2 + 2 ^ 18 * j1 + 2 * x
          /\ x2 = 2 * x /\ x4 = 4 * x /\ y4 = 4 * x + 2 * s
      BY <2>1
    <2> HIDE DEF l, sh, x2, x4, y4
    <2> QED
      BY <2>2
  <1> HIDE DEF l, sh, x2, x4, y4
  <1>5. /\ SignExtend(l, 25) \in Int /\ SignExtend(l, 25) % 2 = 0
        /\ SignExtend(sh, 21) \in Int /\ SignExtend(sh, 21) % 2 = 0
        /\ \A n \in {9, 12} : SignExtend(x2, n) \in Int /\ SignExtend(x2, n) % 2 = 0
        /\ SignExtend(x4, 26) \in Int /\ SignExtend(x4, 26) % 4 = 0
        /\ SignExtend(y4, 26) \in Int /\ SignExtend(y4, 26) % 2 = 0
    BY <1>3, SignExtendEven
  <1> QED
    BY <1>2, <1>5, Zenon DEF x2, x4, y4

\* b rotated to the right by 2 r in words of w bits.
Rotate(w, r, b) == (b \div 2 ^ (2 * r)) + (b % 2 ^ (2 * r)) * 2 ^ (w - 2 * r)

\* Eight bits rotated are a word other than the twelve that encode them.
LEMMA Rotated ==
    ASSUME NEW r \in Nat, r # 0, r < 16, NEW b \in Nat, b < 256,
           NEW w \in Nat, w = 30 \/ w = 32
    PROVE  Rotate(w, r, b) \in 0 .. Size(w) - 1 /\ Rotate(w, r, b) # 256 * r + b
  <1>1. CASE r = 1 /\ w = 30
    BY <1>1 DEF Rotate, Size
  <1>2. CASE r = 1 /\ w = 32
    BY <1>2 DEF Rotate, Size
  <1>3. CASE r = 2 /\ w = 30
    BY <1>3 DEF Rotate, Size
  <1>4. CASE r = 2 /\ w = 32
    BY <1>4 DEF Rotate, Size
  <1>5. CASE r = 3 /\ w = 30
    BY <1>5 DEF Rotate, Size
  <1>6. CASE r = 3 /\ w = 32
    BY <1>6 DEF Rotate, Size
  <1>7. CASE r = 4 /\ w = 30
    BY <1>7 DEF Rotate, Size
  <1>8. CASE r = 4 /\ w = 32
    BY <1>8 DEF Rotate, Size
  <1>9. CASE r = 5 /\ w = 30
    BY <1>9 DEF Rotate, Size
  <1>10. CASE r = 5 /\ w = 32
    BY <1>10 DEF Rotate, Size
  <1>11. CASE r = 6 /\ w = 30
    BY <1>11 DEF Rotate, Size
  <1>12. CASE r = 6 /\ w = 32
    BY <1>12 DEF Rotate, Size
  <1>13. CASE r = 7 /\ w = 30
    BY <1>13 DEF Rotate, Size
  <1>14. CASE r = 7 /\ w = 32
    BY <1>14 DEF Rotate, Size
  <1>15. CASE r = 8 /\ w = 30
    BY <1>15 DEF Rotate, Size
  <1>16. CASE r = 8 /\ w = 32
    BY <1>16 DEF Rotate, Size
  <1>17. CASE r = 9 /\ w = 30
    BY <1>17 DEF Rotate, Size
  <1>18. CASE r = 9 /\ w = 32
    BY <1>18 DEF Rotate, Size
  <1>19. CASE r = 10 /\ w = 30
    BY <1>19 DEF Rotate, Size
  <1>20. CASE r = 10 /\ w = 32
    BY <1>20 DEF Rotate, Size
  <1>21. CASE r = 11 /\ w = 30
    BY <1>21 DEF Rotate, Size
  <1>22. CASE r = 11 /\ w = 32
    BY <1>22 DEF Rotate, Size
  <1>23. CASE r = 12 /\ w = 30
    BY <1>23 DEF Rotate, Size
  <1>24. CASE r = 12 /\ w = 32
    BY <1>24 DEF Rotate, Size
  <1>25. CASE r = 13 /\ w = 30
    BY <1>25 DEF Rotate, Size
  <1>26. CASE r = 13 /\ w = 32
    BY <1>26 DEF Rotate, Size
  <1>27. CASE r = 14 /\ w = 30
    BY <1>27 DEF Rotate, Size
  <1>28. CASE r = 14 /\ w = 32
    BY <1>28 DEF Rotate, Size
  <1>29. CASE r = 15 /\ w = 30
    BY <1>29 DEF Rotate, Size
  <1>30. CASE r = 15 /\ w = 32
    BY <1>30 DEF Rotate, Size
  <1> QED
    BY <1>1, <1>2, <1>3, <1>4, <1>5, <1>6, <1>7, <1>8, <1>9, <1>10, <1>11, <1>12, <1>13,
       <1>14, <1>15, <1>16, <1>17, <1>18, <1>19, <1>20, <1>21, <1>22, <1>23, <1>24,
       <1>25, <1>26, <1>27, <1>28, <1>29, <1>30

\* The immediate of an ARM instruction is the one the code takes it for exactly when
\* it has no rotation (relocate.c:567).
LEMMA ArmExpandMeans ==
    ASSUME NEW x \in Nat, x < 4096
    PROVE  /\ x <= 255 => ArmExpand(x) = x
           /\ x > 255 => ArmExpand(x) \in 0 .. Word - 1 /\ ArmExpand(x) # x
  <1> DEFINE r == x \div 256
             b == x % 256
  <1>1. /\ r \in 0 .. 15 /\ b \in Nat /\ b < 256 /\ x = 256 * r + b
        /\ x <= 255 => r = 0 /\ b = x
        /\ x > 255 => r # 0
    OBVIOUS
  <1>2. ArmExpand(x) = Rotate(WordBits, r, b)
    BY DEF ArmExpand, Rotate
  <1>3. WordBits \in {30, 32}
    BY ValueAssumption DEF ValueAssumption
  <1> HIDE DEF r, b
  <1>4. ASSUME r = 0
        PROVE  Rotate(WordBits, r, b) = b
    <2>1. CASE WordBits = 30
      BY <1>1, <1>4, <2>1 DEF Rotate
    <2>2. CASE WordBits = 32
      BY <1>1, <1>4, <2>2 DEF Rotate
    <2> QED
      BY <1>3, <2>1, <2>2
  <1>5. x <= 255 => ArmExpand(x) = x
    BY <1>1, <1>2, <1>4
  <1>6. ASSUME x > 255
        PROVE  ArmExpand(x) \in 0 .. Word - 1 /\ ArmExpand(x) # x
    <2>1. r \in Nat /\ r # 0 /\ r < 16
      BY <1>1, <1>6
    <2>2. /\ b \in Nat /\ b < 256
          /\ WordBits \in Nat
          /\ WordBits = 30 \/ WordBits = 32
      BY <1>1, <1>3
    <2>3. /\ Rotate(WordBits, r, b) \in 0 .. Size(WordBits) - 1
          /\ Rotate(WordBits, r, b) # 256 * r + b
      BY <1>3, <2>1, <2>2, Rotated
    <2> QED
      BY <1>1, <1>2, <2>3 DEF Word
  <1> QED
    BY <1>5, <1>6

\* Nothing but bits of the five highest.
High(v) == \E k \in 0 .. 31 : v = Fifth * k

\* The immediate of ADR.W as the code assembles it is some of the five highest bits
\* (relocate.c:353).
LEMMA AdrHigh ==
    ASSUME NEW x \in Nat, x < 4096
    PROVE  /\ x = 0 => AdrImmediate(x) = 0
           /\ High(AdrImmediate(x))
  <1> DEFINE imm8 == x % 256
             imm3 == (x \div 256) % 8
             bit3 == IF (imm8 \div 8) % 2 = 1 THEN 1 ELSE imm3 % 2
             low4 == IF (imm8 \div 16) % 2 = 1 THEN 1 ELSE (imm3 \div 2) % 2
             bit4 == IF x \div 2048 = 1 THEN 1 ELSE low4
             k == (imm8 % 8) + 8 * bit3 + 16 * bit4
  <1>1. AdrImmediate(x) = Fifth * k
    BY DEF AdrImmediate, Fifth
  <1>2. bit3 \in 0 .. 1 /\ bit4 \in 0 .. 1 /\ imm8 % 8 \in 0 .. 7
    <2>1. /\ imm8 \in Nat /\ imm3 \in Nat
      OBVIOUS
    <2> HIDE DEF imm8, imm3
    <2> QED
      BY <2>1
  <1>3. x = 0 => bit3 = 0 /\ bit4 = 0 /\ imm8 % 8 = 0
    OBVIOUS
  <1> HIDE DEF bit3, bit4, imm8
  <1>4. k \in 0 .. 31 /\ (x = 0 => k = 0)
    BY <1>2, <1>3
  <1> HIDE DEF k
  <1> QED
    BY <1>1, <1>4, WordSize DEF High

\* It is never the immediate meant, with the other sign, unless that is 0
\* (relocate.c:353-360).
LEMMA AdrApart ==
    ASSUME NEW x \in Nat, x # 0, x < 4096, NEW a \in Int
    PROVE  /\ Bits(a + AdrImmediate(x)) # Bits(a - x)
           /\ Bits(a - AdrImmediate(x)) # Bits(a + x)
  <1>1. PICK k \in 0 .. 31 : AdrImmediate(x) = Fifth * k
    <2>1. High(AdrImmediate(x))
      BY AdrHigh
    <2> QED
      BY <2>1 DEF High
  <1>2. PICK q \in {2 ^ 25, 2 ^ 27} : q = Fifth /\ Word = 32 * q
    BY WordSize
  <1>3. AdrImmediate(x) \in Nat /\ AdrImmediate(x) + x < Word
    <2>1. CASE q = 2 ^ 25
      BY <1>1, <1>2, <2>1
    <2>2. CASE q = 2 ^ 27
      BY <1>1, <1>2, <2>2
    <2> QED
      BY <2>1, <2>2
  <1> QED
    BY <1>2, <1>3, BitsApart

-----------------------------------------------------------------------------
(* Comparing effects *)

\* An effect, from its fields.
EffectOf(cond, reg, does, value, leads, kills) ==
    [cond |-> cond, reg |-> reg, does |-> does, value |-> value,
     leads |-> leads, kills |-> kills]

\* Two effects are the same if they are in each of the fields.
LEMMA SameEffect ==
    ASSUME NEW c, NEW r, NEW d, NEW v, NEW l, NEW k,
           NEW cc, NEW rr, NEW dd, NEW vv, NEW ll, NEW kk
    PROVE  EffectOf(c, r, d, v, l, k) = EffectOf(cc, rr, dd, vv, ll, kk)
             <=> c = cc /\ r = rr /\ d = dd /\ v = vv /\ l = ll /\ k = kk
  BY DEF EffectOf

\* An effect that is no branch.
LEMMA EffectMade ==
    ASSUME NEW c, NEW r, NEW d, NEW v
    PROVE  /\ Effect(c, r, d, v) = EffectOf(c, r, d, Bits(v), "there", {})
           /\ Effect(c, r, d, v).leads = "there"
           /\ Effect(c, r, d, v).does = d
  <1>1. Effect(c, r, d, v) = EffectOf(c, r, d, Bits(v), "there", {})
    BY DEF Effect, EffectOf
  <1>2. \A b, l, h : EffectOf(c, r, d, b, l, h).leads = l /\ EffectOf(c, r, d, b, l, h).does = d
    BY DEF EffectOf
  <1> QED
    BY <1>1, <1>2

\* An effect that destroys registers besides.
LEMMA EffectKills ==
    ASSUME NEW c, NEW r, NEW d, NEW v, NEW k
    PROVE  [Effect(c, r, d, v) EXCEPT !.kills = k] = EffectOf(c, r, d, Bits(v), "there", k)
  <1>1. Effect(c, r, d, v) = EffectOf(c, r, d, Bits(v), "there", {})
    BY EffectMade
  <1>2. \A b, l, h :
          [EffectOf(c, r, d, b, l, h) EXCEPT !.kills = k] = EffectOf(c, r, d, b, l, k)
    BY DEF EffectOf
  <1> QED
    BY <1>1, <1>2

\* Where a branch to address v of the original leads.
Leads(v) == IF Bits(v) \in Entry .. Entry + Length - 1 THEN "copy" ELSE "there"

\* A branch, in its fields.
LEMMA GoToMade ==
    ASSUME NEW c, NEW d, NEW v
    PROVE  /\ GoTo(c, d, v) = EffectOf(c, 15, d, Bits(v), Leads(v), {})
           /\ GoTo(c, d, v).leads = Leads(v)
  <1>1. \A b, l, ll, h :
          [EffectOf(c, 15, d, b, l, h) EXCEPT !.leads = ll] = EffectOf(c, 15, d, b, ll, h)
    BY DEF EffectOf
  <1>2. \A b, l, h : EffectOf(c, 15, d, b, l, h).leads = l
    BY DEF EffectOf
  <1>3. GoTo(c, d, v) = [Effect(c, 15, d, v) EXCEPT !.leads = Leads(v)]
    BY Zenon DEF GoTo, Leads
  <1>4. Effect(c, 15, d, v) = EffectOf(c, 15, d, Bits(v), "there", {})
    BY EffectMade
  <1> QED
    BY <1>1, <1>2, <1>3, <1>4

\* Writing an address, in its fields.
LEMMA WriteMade ==
    ASSUME NEW c, NEW r, NEW v
    PROVE  \E l \in {"there", "copy"} :
              /\ Write(c, r, v) = EffectOf(c, r, "value", Bits(v), l, {})
              /\ Write(c, r, v).leads = l
  <1> DEFINE l == IF r = 15 /\ Bits(v) \in Entry .. Entry + Length - 1 THEN "copy" ELSE "there"
  <1>1. \A b, k, h :
          [EffectOf(c, r, "value", b, k, h) EXCEPT !.leads = l] = EffectOf(c, r, "value", b, l, h)
    BY DEF EffectOf
  <1>2. \A b, k, h : EffectOf(c, r, "value", b, k, h).leads = k
    BY DEF EffectOf
  <1>3. Write(c, r, v) = [Effect(c, r, "value", v) EXCEPT !.leads = l]
    BY Zenon DEF Write
  <1>4. Effect(c, r, "value", v) = EffectOf(c, r, "value", Bits(v), "there", {})
    BY EffectMade
  <1>5. l \in {"there", "copy"}
    OBVIOUS
  <1> HIDE DEF l
  <1> QED
    BY <1>1, <1>2, <1>3, <1>4, <1>5

\* The condition that the copy of a branch, an ADR, a MOV or an LDR has
\* (relocate.c:506-534, 558-592).
CondOf(i) == IF i.type \in TypesArm THEN "al" ELSE i.cond

\* The register that the copy of an ADR, MOV or LDR sets (relocate.c:234-252, 380-393).
RegOf(i) == IF i.type \in TypesArm THEN i.reg ELSE i.reg % 8

\* The copy of a branch: the state is taken from bit 0 of the literal
\* (relocate.c:181-213, 298-338, 506-540).
LEMMA BranchCopied ==
    ASSUME NEW i, NEW p, i.type \in Branch16 \cup Branch32 \cup BranchArm, ~Misread(i)
    PROVE  Copied(i, p) =
             IF Value(i, p) % 2 = 1
             THEN EffectOf(CondOf(i), 15, "thumb", Bits(Value(i, p) - 1), "there", {})
             ELSE EffectOf(CondOf(i), 15, "arm", Bits(Value(i, p)), "there", {})
  <1>2. /\ i.type \notin Tables /\ i.type \notin Adds
        /\ i.type \notin Loads /\ i.type \notin Moves \cup Adrs
        /\ i.type # "UNDEFINE" /\ i.type # "UNDEFINE_PC" /\ i.type # "IT"
    BY DEF Tables, Adds, Loads, Moves, Adrs, Branch16, Branch32, BranchArm
  <1>3. Copied(i, p) =
          IF Value(i, p) % 2 = 1
          THEN Effect(CondOf(i), 15, "thumb", Value(i, p) - 1)
          ELSE Effect(CondOf(i), 15, "arm", Value(i, p))
    BY <1>2, Zenon DEF Copied, CondOf
  <1> QED
    BY <1>3, Zenon DEF Effect, EffectOf

\* The copies of ADR, MOV and LDR (relocate.c:232-252, 339-393, 558-592).
LEMMA ValueCopied ==
    ASSUME NEW i, NEW p, i.type \in Adrs \cup Loads \cup Moves,
           Misread(i) => i.type \notin NoBranch
    PROVE  Copied(i, p) =
             EffectOf(CondOf(i), RegOf(i),
                      IF i.type \in Loads THEN Read(Value(i, p)) ELSE "value",
                      Bits(Value(i, p)), "there", {})
  <1>1. /\ i.type \notin Branch16 \cup Branch32 \cup BranchArm
        /\ i.type \notin Tables
        /\ i.type \notin Adds
        /\ i.type # "UNDEFINE" /\ i.type # "UNDEFINE_PC" /\ i.type # "IT"
        /\ i.type \in Loads => i.type \notin Moves \cup Adrs
    BY DEF Tables, Adds, Branch16, Branch32, BranchArm, Adrs, Loads, Moves
  <1>2. CASE i.type \in Loads
    <2>1. i.type \notin Moves \cup Adrs
      BY <1>1, <1>2
    <2>2. Copied(i, p) = Effect(CondOf(i), RegOf(i), Read(Value(i, p)), Value(i, p))
      BY <1>1, <1>2, <2>1, Zenon DEF Copied, CondOf, RegOf
    <2> QED
      BY <1>2, <2>2, EffectMade
  <1>3. CASE i.type \notin Loads
    <2>1. i.type \in Moves \cup Adrs
      BY <1>3
    <2>2. Copied(i, p) = Effect(CondOf(i), RegOf(i), "value", Value(i, p))
      BY <1>1, <1>3, <2>1, Zenon DEF Copied, CondOf, RegOf
    <2> QED
      BY <1>3, <2>2, EffectMade
  <1> QED
    BY <1>2, <1>3

\* Whether a branch and its copy do the same is a matter of the condition, the state
\* and the address, unless the prologue contains the address.
LEMMA BranchSame ==
    ASSUME NEW i, NEW p, NEW at, NEW c, NEW state, NEW to,
           i.type \in Branch16 \cup Branch32 \cup BranchArm, ~Misread(i),
           Original(i, at) = GoTo(c, state, to)
    PROVE  /\ Value(i, p) % 2 = 1 =>
                (Copied(i, p) = Original(i, at) <=>
                   /\ CondOf(i) = c
                   /\ "thumb" = state /\ Bits(Value(i, p) - 1) = Bits(to)
                   /\ Original(i, at).leads # "copy")
           /\ Value(i, p) % 2 # 1 =>
                (Copied(i, p) = Original(i, at) <=>
                   /\ CondOf(i) = c
                   /\ "arm" = state /\ Bits(Value(i, p)) = Bits(to)
                   /\ Original(i, at).leads # "copy")
  <1>1. /\ Original(i, at) = EffectOf(c, 15, state, Bits(to), Leads(to), {})
        /\ Original(i, at).leads = Leads(to)
    BY GoToMade
  <1>2. "there" = Leads(to) <=> Leads(to) # "copy"
    BY DEF Leads
  <1>3. \A d, v : EffectOf(CondOf(i), 15, d, v, "there", {})
                    = EffectOf(c, 15, state, Bits(to), Leads(to), {})
                  <=> CondOf(i) = c /\ d = state /\ v = Bits(to) /\ "there" = Leads(to)
    BY SameEffect
  <1>4. Value(i, p) % 2 = 1 =>
          Copied(i, p) = EffectOf(CondOf(i), 15, "thumb", Bits(Value(i, p) - 1), "there", {})
    BY BranchCopied
  <1>5. Value(i, p) % 2 # 1 =>
          Copied(i, p) = EffectOf(CondOf(i), 15, "arm", Bits(Value(i, p)), "there", {})
    BY BranchCopied
  <1> QED
    BY <1>1, <1>2, <1>3, <1>4, <1>5

\* Whether an ADR or a MOV and its copy do the same is a matter of the condition, the
\* register and the value, unless it is a branch into the prologue.
LEMMA WriteSame ==
    ASSUME NEW i, NEW p, NEW at, NEW c, NEW r, NEW w,
           i.type \in Adrs \cup Moves, ~Misread(i),
           Original(i, at) = Write(c, r, w)
    PROVE  Copied(i, p) = Original(i, at) <=>
             /\ CondOf(i) = c /\ RegOf(i) = r /\ Bits(Value(i, p)) = Bits(w)
             /\ Original(i, at).leads # "copy"
  <1>1. PICK l \in {"there", "copy"} :
          /\ Original(i, at) = EffectOf(c, r, "value", Bits(w), l, {})
          /\ Original(i, at).leads = l
    BY WriteMade
  <1>2. i.type \notin Loads
    BY DEF Adrs, Moves, Loads
  <1>3. Copied(i, p) = EffectOf(CondOf(i), RegOf(i), "value", Bits(Value(i, p)), "there", {})
    BY <1>2, ValueCopied
  <1> QED
    BY <1>1, <1>3, SameEffect

\* Whether an LDR and its copy do the same is a matter of the condition, the register,
\* the address, and of whether what is there stays as it was.
LEMMA LoadSame ==
    ASSUME NEW i, NEW p, NEW at, NEW c, NEW r, NEW w, i.type \in Loads, ~Misread(i),
           Original(i, at) = Effect(c, r, "load", w)
    PROVE  /\ Original(i, at).leads = "there"
           /\ Copied(i, p) = Original(i, at) <=>
                /\ CondOf(i) = c /\ RegOf(i) = r /\ Bits(Value(i, p)) = Bits(w)
                /\ Bits(Value(i, p)) \notin Writable
  <1>1. /\ Original(i, at) = EffectOf(c, r, "load", Bits(w), "there", {})
        /\ Original(i, at).leads = "there"
    BY EffectMade
  <1>2. Copied(i, p) =
          EffectOf(CondOf(i), RegOf(i), Read(Value(i, p)), Bits(Value(i, p)), "there", {})
    BY ValueCopied
  <1>3. Read(Value(i, p)) = "load" <=> Bits(Value(i, p)) \notin Writable
    BY DEF Read
  <1> QED
    BY <1>1, <1>2, <1>3, SameEffect

-----------------------------------------------------------------------------
(* The places of copies *)

\* i is an instruction of the function, at address at.
Site(i, at) ==
    /\ target \in Targets
    /\ i \in IF IsThumb THEN Thumb16 \cup Thumb32 ELSE Arm
    /\ \E off \in 0 .. Length - 1 :
         /\ at = Entry + off
         /\ off % (IF IsThumb THEN 2 ELSE 4) = 0

\* What the fields of an instruction can be.
Encoded(i) ==
    /\ i.reg \in 0 .. 15
    /\ i.s \in {0, 1} /\ i.j1 \in {0, 1} /\ i.j2 \in {0, 1}
    /\ i.x \in Nat
    /\ i.x < 2 ^ 24
    /\ i.type \in Always => i.cond = "al"
    /\ Misread(i) => i.type \in NoBranch \/ (i.type \in NoAccess /\ i.cond = Svc)
    /\ i.type \in {"ADR_THUMB16", "LDR_THUMB16"} => i.reg < 8
    /\ i.type \in Adrs => i.x < 4096

\* The encodings have fields of these widths (relocate.c:168-180).
LEMMA EncodingsEncoded ==
    ASSUME NEW types, NEW i \in Encodings(types)
    PROVE  i.type \in types /\ Encoded(i)
  <1>1. i \in [type : types, cond : STRING, reg : 0 .. 15, rm : 0 .. 15,
               s : {0, 1}, j1 : {0, 1},
               j2 : {0, 1}, add : BOOLEAN, x : 0 .. 2 ^ 24 - 1]
    BY DEF Encodings
  <1>2. /\ i.type \in types
        /\ i.reg \in 0 .. 15
        /\ i.s \in {0, 1} /\ i.j1 \in {0, 1} /\ i.j2 \in {0, 1}
        /\ i.x \in 0 .. 2 ^ 24 - 1
    BY <1>1
  <1>3. i.x \in Nat /\ i.x < 2 ^ 24
    BY <1>2
  <1>4. /\ i.type \in Always => i.cond = "al"
        /\ Misread(i) => i.type \in NoBranch \/ (i.type \in NoAccess /\ i.cond = Svc)
        /\ i.type \in {"ADR_THUMB16", "LDR_THUMB16"} => i.reg < 8
        /\ i.type \in Adrs => i.x < 4096
    BY DEF Encodings
  <1> QED
    BY <1>2, <1>3, <1>4 DEF Encoded

\* An instruction has one of the types of its instruction set, and ARM functions are
\* aligned.
LEMMA SiteFacts ==
    ASSUME NEW i, NEW at, Site(i, at)
    PROVE  /\ Encoded(i)
           /\ IsThumb => i.type \in TypesThumb16 \cup TypesThumb32
           /\ ~IsThumb => i.type \in TypesArm
           /\ at \in Nat /\ at % 2 = 0 /\ at + 12 < Word
           /\ ~IsThumb => at % 4 = 0
  <1>1. PICK t \in Targets : t = target
    BY DEF Site
  <1>2. t \in Nat /\ t + 31 < Word /\ t % 4 # 2
    <2>1. Targets \subseteq 1 .. Word - 32
      BY ValueAssumption DEF ValueAssumption, Word, Size
    <2>2. t % 4 # 2
      BY <1>1, ValueAssumption DEF ValueAssumption
    <2>3. PICK w \in Nat : w = Word
      BY WordSize
    <2> QED
      BY <2>1, <2>2, <2>3
  <1>3. PICK off \in 0 .. Length - 1 :
          /\ at = Entry + off
          /\ off % (IF IsThumb THEN 2 ELSE 4) = 0
    BY DEF Site
  <1>4. /\ at \in Nat /\ at % 2 = 0 /\ at + 12 < Word
        /\ ~IsThumb => at % 4 = 0
    <2>1. PICK w \in Nat : w = Word
      BY WordSize
    <2>2. CASE IsThumb
      BY <1>1, <1>2, <1>3, <2>1, <2>2 DEF IsThumb, Entry, Length
    <2>3. CASE ~IsThumb
      BY <1>1, <1>2, <1>3, <2>1, <2>3 DEF IsThumb, Entry, Length
    <2> QED
      BY <2>2, <2>3
  <1>5. /\ Thumb16 \subseteq Encodings(TypesThumb16)
        /\ Thumb32 \subseteq Encodings(TypesThumb32)
        /\ Arm \subseteq Encodings(TypesArm)
    BY ValueAssumption, Zenon DEF ValueAssumption
  <1>6. i \in Arm => i.type \in TypesArm /\ Encoded(i)
    BY <1>5, EncodingsEncoded
  <1>7. i \in Thumb16 \cup Thumb32 => i.type \in TypesThumb16 \cup TypesThumb32 /\ Encoded(i)
    BY <1>5, EncodingsEncoded
  <1>9. i \in IF IsThumb THEN Thumb16 \cup Thumb32 ELSE Arm
    BY DEF Site
  <1> QED
    BY <1>4, <1>6, <1>7, <1>9

-----------------------------------------------------------------------------
(* Thumb *)

\* The copy of i, which is at address at, does what i does if and only if it is none
\* of the flawed ones.
Right(i, at) ==
    ~Unpredictable(i, at) => (Copied(i, at + Ahead) = Original(i, at) <=> ~Flawed(i, at))

\* Instructions that have no condition of their own (relocate.c:75-166).
LEMMA AlwaysTypes ==
    {"B2_THUMB16", "BLX_THUMB32", "BL_THUMB32", "B2_THUMB32", "ADR_THUMB16", "LDR_THUMB16",
     "ADR1_THUMB32", "ADR2_THUMB32", "BLX_ARM"} \subseteq Always
  BY DEF Always, TypesThumb16, TypesThumb32, CondThumb, Undefine, Branch16, Branch32, Tables

\* Branches and calls (relocate.c:181-213, 298-338).
LEMMA ThumbBranchRight ==
    ASSUME NEW i, NEW at, Site(i, at), IsThumb, i.type \in Branch16 \cup Branch32,
           ~Misread(i)
    PROVE  Right(i, at)
  <1> DEFINE p == at + 4
  <1>1. /\ i.type \notin TypesArm /\ CondOf(i) = i.cond /\ Ahead = 4 /\ IsThumb
        /\ i.type \in Always => i.cond = "al"
        /\ ~Misread(i)
    <2>1. i.type \notin TypesArm
      BY DEF TypesArm, BranchArm, Undefine, Branch16, Branch32
    <2>2. i.type \in Always => i.cond = "al"
      BY SiteFacts DEF Encoded
    <2> QED
      BY <2>1, <2>2 DEF CondOf, Ahead
  <1>2. /\ p \in Nat /\ p % 2 = 0 /\ p = at + 4 /\ i.x \in Nat
        /\ Long(i) \in Int /\ Long(i) % 2 = 0
        /\ Short(i) \in Int /\ Short(i) % 2 = 0
        /\ SignExtend(2 * i.x, 9) \in Int /\ SignExtend(2 * i.x, 9) % 2 = 0
        /\ SignExtend(2 * i.x, 12) \in Int /\ SignExtend(2 * i.x, 12) % 2 = 0
    <2>1. at \in Nat /\ at % 2 = 0 /\ Encoded(i)
      BY SiteFacts
    <2>2. p \in Nat /\ p % 2 = 0
      BY <2>1
    <2> QED
      BY <2>1, <2>2, BranchOffsets DEF Encoded
  <1> HIDE DEF p
  <1>3. CASE i.type = "B1_THUMB16"
    <2>1. Value(i, p) = p + SignExtend(2 * i.x, 9)
      BY <1>1, <1>2, <1>3 DEF Value, Adds, Moves, Tables
    <2>2. Original(i, at) = GoTo(i.cond, "thumb", p + SignExtend(2 * i.x, 9))
      BY <1>1, <1>2, <1>3 DEF Original, Adds, Moves, Tables, Loads
    <2>3. Flawed(i, at) <=> TRUE
      BY <1>1, <1>2, <1>3 DEF Flawed, Adds, Tables, Loads, Undefine
    <2>4. Value(i, p) % 2 # 1
      BY <1>2, <2>1
    <2> QED
      BY <1>1, <1>2, <1>3, <2>2, <2>3, <2>4, BranchSame, AlwaysTypes DEF Right
  <1>4. CASE i.type = "B2_THUMB16"
    <2>1. Value(i, p) = p + SignExtend(2 * i.x, 12)
      BY <1>1, <1>2, <1>4 DEF Value, Adds, Moves, Tables
    <2>2. Original(i, at) = GoTo("al", "thumb", p + SignExtend(2 * i.x, 12))
      BY <1>1, <1>2, <1>4 DEF Original, Adds, Moves, Tables, Loads
    <2>3. Flawed(i, at) <=> TRUE
      BY <1>1, <1>2, <1>4 DEF Flawed, Adds, Tables, Loads, Undefine
    <2>4. Value(i, p) % 2 # 1
      BY <1>2, <2>1
    <2> QED
      BY <1>1, <1>2, <1>4, <2>2, <2>3, <2>4, BranchSame, AlwaysTypes DEF Right
  <1>5. CASE i.type = "CB_THUMB16"
    <2>1. Value(i, p) = p + 2 * i.x + 1
      BY <1>1, <1>2, <1>5 DEF Value, Adds, Moves, Tables
    <2>2. Original(i, at) = GoTo(i.cond, "thumb", p + 2 * i.x)
      BY <1>1, <1>2, <1>5 DEF Original, Adds, Moves, Tables, Loads
    <2>3. Flawed(i, at) <=> Original(i, at).leads = "copy"
      BY <1>1, <1>2, <1>5 DEF Flawed, Adds, Tables, Loads, Undefine
    <2>4. Value(i, p) % 2 = 1 /\ Value(i, p) - 1 = p + 2 * i.x
      BY <1>2, <2>1
    <2> QED
      BY <1>1, <1>2, <1>5, <2>2, <2>3, <2>4, BranchSame, AlwaysTypes DEF Right
  <1>6. CASE i.type = "B1_THUMB32"
    <2>1. Value(i, p) = p + Short(i) + 1
      BY <1>1, <1>2, <1>6 DEF Value, Adds, Moves, Tables
    <2>2. Original(i, at) = GoTo(i.cond, "thumb", p + Short(i))
      BY <1>1, <1>2, <1>6 DEF Original, Adds, Moves, Tables, Loads
    <2>3. Flawed(i, at) <=> Original(i, at).leads = "copy"
      BY <1>1, <1>2, <1>6 DEF Flawed, Adds, Tables, Loads, Undefine
    <2>4. Value(i, p) % 2 = 1 /\ Value(i, p) - 1 = p + Short(i)
      BY <1>2, <2>1
    <2> QED
      BY <1>1, <1>2, <1>6, <2>2, <2>3, <2>4, BranchSame, AlwaysTypes DEF Right
  <1>7. CASE i.type = "BL_THUMB32"
    <2>1. Value(i, p) = p + Long(i) + 1
      BY <1>1, <1>2, <1>7 DEF Value, Adds, Moves, Tables
    <2>2. Original(i, at) = GoTo("al", "thumb", p + Long(i))
      BY <1>1, <1>2, <1>7 DEF Original, Adds, Moves, Tables, Loads
    <2>3. Flawed(i, at) <=> Original(i, at).leads = "copy"
      BY <1>1, <1>2, <1>7 DEF Flawed, Adds, Tables, Loads, Undefine
    <2>4. Value(i, p) % 2 = 1 /\ Value(i, p) - 1 = p + Long(i)
      BY <1>2, <2>1
    <2> QED
      BY <1>1, <1>2, <1>7, <2>2, <2>3, <2>4, BranchSame, AlwaysTypes DEF Right
  <1>8. CASE i.type = "B2_THUMB32"
    <2>1. Value(i, p) = p + Long(i) + 1
      BY <1>1, <1>2, <1>8 DEF Value, Adds, Moves, Tables
    <2>2. Original(i, at) = GoTo("al", "thumb", p + Long(i))
      BY <1>1, <1>2, <1>8 DEF Original, Adds, Moves, Tables, Loads
    <2>3. Flawed(i, at) <=> Original(i, at).leads = "copy"
      BY <1>1, <1>2, <1>8 DEF Flawed, Adds, Tables, Loads, Undefine
    <2>4. Value(i, p) % 2 = 1 /\ Value(i, p) - 1 = p + Long(i)
      BY <1>2, <2>1
    <2> QED
      BY <1>1, <1>2, <1>8, <2>2, <2>3, <2>4, BranchSame, AlwaysTypes DEF Right
  <1>9. CASE i.type = "BX_THUMB16"
    <2>1. Value(i, p) = p
      BY <1>1, <1>2, <1>9 DEF Value, Adds, Moves, Tables
    <2>2. Original(i, at) = GoTo(i.cond, "arm", p)
      BY <1>1, <1>2, <1>9 DEF Original, Adds, Moves, Tables, Loads
    <2>3. Flawed(i, at) <=> Original(i, at).leads = "copy"
      BY <1>1, <1>2, <1>9 DEF Flawed, Adds, Tables, Loads, Undefine
    <2>4. Value(i, p) % 2 # 1
      BY <1>2, <2>1
    <2> QED
      BY <1>1, <1>2, <1>9, <2>1, <2>2, <2>3, <2>4, BranchSame DEF Right
  <1>10. CASE i.type = "BLX_THUMB32"
    <2>1. Value(i, p) = p + Long(i)
      BY <1>1, <1>2, <1>10 DEF Value, Adds, Moves, Tables
    <2>2. Original(i, at) = GoTo("al", "arm", ALIGN_PC(p) + Long(i))
      BY <1>1, <1>2, <1>10 DEF Original, Adds, Moves, Tables, Loads
    <2>3. Flawed(i, at) <=> (at % 4) # 0 \/ Original(i, at).leads = "copy"
      BY <1>1, <1>2, <1>10 DEF Flawed, Adds, Tables, Loads, Undefine
    <2>4. Value(i, p) % 2 # 1
      BY <1>2, <2>1
    <2>5. Bits(p + Long(i)) = Bits(ALIGN_PC(p) + Long(i)) <=> at % 4 = 0
      <3>1. at \in Nat /\ at % 2 = 0
        BY SiteFacts
      <3>2. PICK w \in Nat : w = Word /\ w > 4
        BY WordSize
      <3>3. at % 4 = 0 => ALIGN_PC(p) = p
        BY <1>2, <3>1 DEF ALIGN_PC
      <3>4. at % 4 # 0 => ALIGN_PC(p) = p - 2
        BY <1>2, <3>1 DEF ALIGN_PC
      <3> QED
        BY <1>2, <3>2, <3>3, <3>4, BitsApart
    <2> QED
      BY <1>1, <1>2, <1>10, <2>1, <2>2, <2>3, <2>4, <2>5, BranchSame, AlwaysTypes DEF Right
  <1> QED
    BY <1>3, <1>4, <1>5, <1>6, <1>7, <1>8, <1>9, <1>10 DEF Branch16, Branch32

\* ADR, MOV and LDR (relocate.c:232-252, 339-393).
LEMMA ThumbValueRight ==
    ASSUME NEW i, NEW at, Site(i, at), IsThumb,
           i.type \in {"MOV_THUMB16", "ADR_THUMB16", "LDR_THUMB16", "ADR1_THUMB32",
                       "ADR2_THUMB32", "LDR_THUMB32"},
           ~Misread(i)
    PROVE  Right(i, at)
  <1> DEFINE p == at + 4
  <1>1. /\ i.type \notin TypesArm /\ CondOf(i) = i.cond /\ Ahead = 4 /\ IsThumb
        /\ i.type \in Always => i.cond = "al"
        /\ RegOf(i) = i.reg % 8
        /\ i.reg % 8 = i.reg <=> i.reg <= 7
        /\ i.reg > 7 <=> ~(i.reg <= 7)
        /\ ~Misread(i)
    <2>1. i.type \notin TypesArm
      BY DEF TypesArm, BranchArm, Undefine
    <2>2. (i.type \in Always => i.cond = "al") /\ i.reg \in 0 .. 15
      BY SiteFacts DEF Encoded
    <2> QED
      BY <2>1, <2>2 DEF CondOf, RegOf, Ahead
  <1>2. /\ p \in Nat /\ p = at + 4 /\ i.x \in Nat
        /\ i.type \in {"ADR_THUMB16", "LDR_THUMB16"} => i.reg <= 7
        /\ i.type \in Adrs => i.x < 4096
        /\ ALIGN_PC(p) \in Nat /\ ALIGN_PC(p) > 0 /\ ALIGN_PC(p) < Word
    <2>1. at \in Nat /\ at + 12 < Word /\ Encoded(i)
      BY SiteFacts
    <2>2. PICK w \in Nat : w = Word
      BY WordSize
    <2>3. /\ p \in Nat /\ p = at + 4
          /\ ALIGN_PC(p) \in Nat /\ ALIGN_PC(p) > 0 /\ ALIGN_PC(p) < Word
      BY <2>1, <2>2 DEF ALIGN_PC
    <2>4. i.reg \in 0 .. 15 /\ i.x \in Nat
      BY <2>1 DEF Encoded
    <2>5. i.type \in {"ADR_THUMB16", "LDR_THUMB16"} => i.reg <= 7
      BY <2>1, <2>4 DEF Encoded
    <2> QED
      BY <2>1, <2>3, <2>4, <2>5 DEF Encoded
  <1> HIDE DEF p
  <1>3. CASE i.type = "MOV_THUMB16"
    <2>1. Value(i, p) = p
      BY <1>1, <1>2, <1>3 DEF Value, Adds, Moves, Tables
    <2>2. Original(i, at) = Write(i.cond, i.reg, p)
      BY <1>1, <1>2, <1>3 DEF Original, Adds, Moves, Tables, Loads
    <2>3. Flawed(i, at) <=> i.reg > 7 \/ Original(i, at).leads = "copy"
      BY <1>1, <1>2, <1>3 DEF Flawed, Adds, Tables, Loads, Undefine
    <2>4. i.type \in Adrs \cup Moves
      BY <1>3 DEF Adrs, Moves
    <2>8. Copied(i, p) = Original(i, at) <=>
             /\ CondOf(i) = i.cond /\ RegOf(i) = i.reg
             /\ Bits(Value(i, p)) = Bits(p)
             /\ Original(i, at).leads # "copy"
      BY <1>1, <2>2, <2>4, WriteSame
    <2> QED
      BY <1>1, <1>2, <1>3, <2>1, <2>3, <2>8 DEF Right
  <1>4. CASE i.type = "ADR_THUMB16"
    <2>1. Value(i, p) = 4 * (ALIGN_PC(p) + i.x)
      BY <1>1, <1>2, <1>4 DEF Value, Adds, Moves, Tables
    <2>2. Original(i, at) = Write("al", i.reg, ALIGN_PC(p) + 4 * i.x)
      BY <1>1, <1>2, <1>4 DEF Original, Adds, Moves, Tables, Loads
    <2>3. Flawed(i, at) <=> TRUE
      BY <1>1, <1>2, <1>4 DEF Flawed, Adds, Tables, Loads, Undefine
    <2>4. i.type \in Adrs \cup Moves
      BY <1>4 DEF Adrs, Moves
    <2>5. Bits(4 * (ALIGN_PC(p) + i.x)) # Bits(ALIGN_PC(p) + 4 * i.x)
      <3>1. PICK a \in Nat, x \in Nat : a = ALIGN_PC(p) /\ x = i.x
        BY <1>2
      <3>2. Bits(4 * (a + x)) # Bits(a + 4 * x)
        <4>1. CASE Word = 2 ^ 30
          BY <1>2, <3>1, <4>1 DEF Bits, Word, Size
        <4>2. CASE Word = 2 ^ 32
          BY <1>2, <3>1, <4>2 DEF Bits, Word, Size
        <4> QED
          BY <4>1, <4>2, WordSize
      <3> QED
        BY <3>1, <3>2
    <2>6. CondOf(i) = "al"
      BY <1>1, <1>4, AlwaysTypes
    <2>7. RegOf(i) = i.reg
      BY <1>1, <1>2, <1>4
    <2>8. Copied(i, p) = Original(i, at) <=>
             /\ CondOf(i) = "al"
             /\ RegOf(i) = i.reg
             /\ Bits(Value(i, p)) = Bits(ALIGN_PC(p) + 4 * i.x)
             /\ Original(i, at).leads # "copy"
      BY <1>1, <2>2, <2>4, WriteSame
    <2> QED
      BY <1>1, <1>2, <1>4, <2>1, <2>3, <2>5, <2>6, <2>7, <2>8 DEF Right
  <1>5. CASE i.type = "LDR_THUMB16"
    <2>1. Value(i, p) = ALIGN_PC(p) + 4 * i.x
      BY <1>1, <1>2, <1>5 DEF Value, Adds, Moves, Tables
    <2>2. Original(i, at) = Effect("al", i.reg, "load", ALIGN_PC(p) + 4 * i.x)
      BY <1>1, <1>2, <1>5 DEF Original, Adds, Moves, Tables, Loads
    <2>3. Flawed(i, at) <=> Original(i, at).leads = "copy"
                      \/ Bits(Value(i, p)) \in Writable
      BY <1>1, <1>2, <1>5 DEF Flawed, Adds, Tables, Loads, Undefine
    <2>4. i.type \in Loads
      BY <1>5 DEF Loads
    <2>6. CondOf(i) = "al"
      BY <1>1, <1>5, AlwaysTypes
    <2>7. RegOf(i) = i.reg
      BY <1>1, <1>2, <1>5
    <2>8. /\ Original(i, at).leads = "there"
          /\ Copied(i, p) = Original(i, at) <=>
               /\ CondOf(i) = "al"
               /\ RegOf(i) = i.reg
               /\ Bits(Value(i, p)) = Bits(ALIGN_PC(p) + 4 * i.x)
               /\ Bits(Value(i, p)) \notin Writable
      BY <1>1, <2>2, <2>4, LoadSame
    <2> QED
      BY <1>1, <1>2, <1>5, <2>1, <2>3, <2>6, <2>7, <2>8 DEF Right
  <1>6. CASE i.type = "ADR1_THUMB32"
    <2>1. Value(i, p) = ALIGN_PC(p) + AdrImmediate(i.x)
      BY <1>1, <1>2, <1>6 DEF Value, Adds, Moves, Tables
    <2>2. Original(i, at) = Write("al", i.reg, ALIGN_PC(p) - i.x)
      BY <1>1, <1>2, <1>6 DEF Original, Adds, Moves, Tables, Loads
    <2>3. Flawed(i, at) <=> i.x # 0 \/ i.reg > 7 \/ Original(i, at).leads = "copy"
      BY <1>1, <1>2, <1>6 DEF Flawed, Adds, Tables, Loads, Undefine
    <2>4. i.type \in Adrs \cup Moves
      BY <1>6 DEF Adrs, Moves
    <2>5. Bits(ALIGN_PC(p) + AdrImmediate(i.x)) = Bits(ALIGN_PC(p) - i.x) <=> i.x = 0
      <3>1. PICK a \in Nat, x \in Nat : a = ALIGN_PC(p) /\ x = i.x /\ x < 4096
        BY <1>2, <1>6 DEF Adrs
      <3>2. x # 0 => Bits(a + AdrImmediate(x)) # Bits(a - x)
        BY <3>1, AdrApart
      <3>3. x = 0 => a + AdrImmediate(x) = a - x
        BY <3>1, AdrHigh
      <3> QED
        BY <3>1, <3>2, <3>3
    <2>6. CondOf(i) = "al"
      BY <1>1, <1>6, AlwaysTypes
    <2>8. Copied(i, p) = Original(i, at) <=>
             /\ CondOf(i) = "al"
             /\ RegOf(i) = i.reg
             /\ Bits(Value(i, p)) = Bits(ALIGN_PC(p) - i.x)
             /\ Original(i, at).leads # "copy"
      BY <1>1, <2>2, <2>4, WriteSame
    <2> QED
      BY <1>1, <1>2, <1>6, <2>1, <2>3, <2>5, <2>6, <2>8 DEF Right
  <1>7. CASE i.type = "ADR2_THUMB32"
    <2>1. Value(i, p) = ALIGN_PC(p) - AdrImmediate(i.x)
      BY <1>1, <1>2, <1>7 DEF Value, Adds, Moves, Tables
    <2>2. Original(i, at) = Write("al", i.reg, ALIGN_PC(p) + i.x)
      BY <1>1, <1>2, <1>7 DEF Original, Adds, Moves, Tables, Loads
    <2>3. Flawed(i, at) <=> i.x # 0 \/ i.reg > 7 \/ Original(i, at).leads = "copy"
      BY <1>1, <1>2, <1>7 DEF Flawed, Adds, Tables, Loads, Undefine
    <2>4. i.type \in Adrs \cup Moves
      BY <1>7 DEF Adrs, Moves
    <2>5. Bits(ALIGN_PC(p) - AdrImmediate(i.x)) = Bits(ALIGN_PC(p) + i.x) <=> i.x = 0
      <3>1. PICK a \in Nat, x \in Nat : a = ALIGN_PC(p) /\ x = i.x /\ x < 4096
        BY <1>2, <1>7 DEF Adrs
      <3>2. x # 0 => Bits(a - AdrImmediate(x)) # Bits(a + x)
        BY <3>1, AdrApart
      <3>3. x = 0 => a - AdrImmediate(x) = a + x
        BY <3>1, AdrHigh
      <3> QED
        BY <3>1, <3>2, <3>3
    <2>6. CondOf(i) = "al"
      BY <1>1, <1>7, AlwaysTypes
    <2>8. Copied(i, p) = Original(i, at) <=>
             /\ CondOf(i) = "al"
             /\ RegOf(i) = i.reg
             /\ Bits(Value(i, p)) = Bits(ALIGN_PC(p) + i.x)
             /\ Original(i, at).leads # "copy"
      BY <1>1, <2>2, <2>4, WriteSame
    <2> QED
      BY <1>1, <1>2, <1>7, <2>1, <2>3, <2>5, <2>6, <2>8 DEF Right
  <1>8. CASE i.type = "LDR_THUMB32"
    <2>1. Value(i, p) = ALIGN_PC(p) + (IF i.add THEN i.x ELSE -i.x)
      BY <1>1, <1>2, <1>8 DEF Value, Adds, Moves, Tables
    <2>2. Original(i, at) = Effect(i.cond, i.reg, "load",
                                   IF i.add THEN ALIGN_PC(p) + i.x ELSE ALIGN_PC(p) - i.x)
      BY <1>1, <1>2, <1>8 DEF Original, Adds, Moves, Tables, Loads
    <2>3. Flawed(i, at) <=> i.reg > 7 \/ Original(i, at).leads = "copy"
                      \/ Bits(Value(i, p)) \in Writable
      BY <1>1, <1>2, <1>8 DEF Flawed, Adds, Tables, Loads, Undefine
    <2>4. i.type \in Loads
      BY <1>8 DEF Loads
    <2>5. ALIGN_PC(p) + (IF i.add THEN i.x ELSE -i.x)
            = IF i.add THEN ALIGN_PC(p) + i.x ELSE ALIGN_PC(p) - i.x
      BY <1>2
    <2>8. /\ Original(i, at).leads = "there"
          /\ Copied(i, p) = Original(i, at) <=>
               /\ CondOf(i) = i.cond
               /\ RegOf(i) = i.reg
               /\ Bits(Value(i, p)) = Bits(IF i.add THEN ALIGN_PC(p) + i.x ELSE ALIGN_PC(p) - i.x)
               /\ Bits(Value(i, p)) \notin Writable
      BY <1>1, <2>2, <2>4, LoadSame
    <2> QED
      BY <1>1, <1>2, <1>8, <2>1, <2>3, <2>5, <2>8 DEF Right
  <1> QED
    BY <1>3, <1>4, <1>5, <1>6, <1>7, <1>8

-----------------------------------------------------------------------------
(* Both instruction sets *)

\* An ADD does the same unless it uses SP, which is at another place in the copy, or
\* the PC of the copy, or is a branch, which jumps over the pop (relocate.c:214-231,
\* 541-557).
LEMMA AddRight ==
    ASSUME NEW i, NEW at, Site(i, at), i.type \in Adds
    PROVE  Right(i, at)
  <1> DEFINE p == at + Ahead
             lower  == IF Operand(i) = 13 THEN 4 ELSE 0
             higher == IF i.reg = 13 THEN 4 ELSE 0
             kills  == IF i.reg = 15 THEN {Scratch(i), 13}
                       ELSE IF i.reg = 13 THEN {Scratch(i)} ELSE {}
             does   == IF Operand(i) = 15 THEN "add_copy" ELSE "add"
  <1>1. Value(i, p) = p
    BY DEF Value, Adds, Moves, Tables
  <1>2. ~Misread(i)
    BY SiteFacts DEF Encoded, Adds, NoBranch, NoAccess
  <1>3. /\ Original(i, at) = EffectOf(i.cond, i.reg, "add", Bits(p), "there", {})
        /\ Original(i, at).leads = "there"
    <2>1. Original(i, at) = Effect(i.cond, i.reg, "add", p)
      BY <1>2 DEF Original, Adds, Moves, Tables, Loads
    <2> QED
      BY <2>1, EffectMade
  <1>4. Copied(i, p) = EffectOf(i.cond, i.reg, does, Bits(p - lower + higher), "there", kills)
    <2>1. /\ i.type \notin Branch16 \cup Branch32 \cup BranchArm
          /\ i.type \notin Tables
          /\ i.type \notin Loads /\ i.type \notin Moves \cup Adrs
          /\ i.type # "UNDEFINE" /\ i.type # "UNDEFINE_PC" /\ i.type # "IT"
      BY DEF Tables, Adds, Branch16, Branch32, BranchArm, Loads, Moves, Adrs
    <2>2. Copied(i, p) = CopiedAdd(i, Value(i, p))
      BY <1>2, <2>1, Zenon DEF Copied
    <2>3. CopiedAdd(i, p) =
            [Effect(i.cond, i.reg, does, p - lower + higher) EXCEPT !.kills = kills]
      BY Zenon DEF CopiedAdd
    <2> HIDE DEF does, kills, p, lower, higher
    <2> QED
      BY <1>1, <2>2, <2>3, EffectKills
  <1>5. Flawed(i, at) <=> Operand(i) \in {13, 15} \/ i.reg \in {13, 15}
    <2>1. i.type \notin TypesArm \ ({"ADD_ARM"} \cup Undefine)
      BY DEF Adds, TypesArm, BranchArm, Undefine
    <2> QED
      BY <1>2, <1>3, <2>1 DEF Flawed, Adds, Tables, Loads
  <1>6. /\ kills = {} <=> i.reg \notin {13, 15}
        /\ does = "add" <=> Operand(i) # 15
    OBVIOUS
  <1>7. i.reg # 13 => (Bits(p - lower + higher) = Bits(p) <=> Operand(i) # 13)
    <2>1. PICK q \in Nat : q = p
      BY SiteFacts DEF Ahead
    <2>2. PICK w \in Nat : w = Word /\ w > 4
      BY WordSize
    <2>3. Bits(q - 4) # Bits(q)
      BY <2>2, BitsApart
    <2>4. i.reg # 13 /\ Operand(i) = 13 => p - lower + higher = q - 4
      BY <2>1
    <2>5. i.reg # 13 /\ Operand(i) # 13 => p - lower + higher = q
      BY <2>1
    <2> QED
      BY <2>1, <2>3, <2>4, <2>5
  <1> HIDE DEF p, kills, does, lower, higher
  <1>8. Copied(i, p) = Original(i, at) <=>
          does = "add" /\ Bits(p - lower + higher) = Bits(p) /\ kills = {}
    BY <1>3, <1>4, SameEffect
  <1>9. Copied(i, p) = Original(i, at) <=> ~(Operand(i) \in {13, 15} \/ i.reg \in {13, 15})
    BY <1>6, <1>7, <1>8
  <1> QED
    BY <1>5, <1>9 DEF Right, p

\* A register of a table branch is lost (relocate.c:394-436).
LEMMA TableRight ==
    ASSUME NEW i, NEW at, Site(i, at), i.type \in Tables
    PROVE  Right(i, at)
  <1> DEFINE p == at + Ahead
  <1>1. ~Misread(i)
    BY SiteFacts DEF Encoded, Tables, NoBranch, NoAccess
  <1>2. /\ i.type \notin Branch16 \cup Branch32 \cup BranchArm
        /\ i.type \notin Adds
        /\ i.type \notin Loads /\ i.type \notin Moves \cup Adrs
        /\ i.type # "UNDEFINE" /\ i.type # "UNDEFINE_PC" /\ i.type # "IT"
    BY DEF Tables, Adds, Branch16, Branch32, BranchArm, Loads, Moves, Adrs
  <1>3. Copied(i, p) = [Effect("al", 15, "table", Value(i, p)) EXCEPT !.kills = {Scratch(i)}]
    BY <1>1, <1>2, Zenon DEF Copied
  <1>4. Copied(i, p) = EffectOf("al", 15, "table", Bits(Value(i, p)), "there", {Scratch(i)})
    BY <1>3, EffectKills
  <1>5. Original(i, at) = Effect("al", 15, "table", p)
    BY <1>1 DEF Original, Adds, Moves, Tables, Loads
  <1>6. Original(i, at) = EffectOf("al", 15, "table", Bits(p), "there", {})
    BY <1>5, EffectMade
  <1>7. Flawed(i, at)
    BY DEF Flawed
  <1>8. {Scratch(i)} # {}
    OBVIOUS
  <1> QED
    BY <1>4, <1>6, <1>7, <1>8, SameEffect DEF Right

\* What the classifier knows no type for is copied as it is, and goes wrong where it
\* uses the PC; an IT applies to the NOP behind it (relocate.c:167, 270-271, 430-431, 595).
LEMMA UndefineRight ==
    ASSUME NEW i, NEW at, Site(i, at), i.type \in Undefine \cup {"IT"}
    PROVE  Right(i, at)
  <1> DEFINE p == at + Ahead
  <1>1. ~Misread(i)
    BY SiteFacts DEF Encoded, Undefine, NoBranch, NoAccess
  <1>2. /\ i.type \notin Branch16 \cup Branch32 \cup BranchArm
        /\ i.type \notin Tables /\ i.type \notin Adds
        /\ i.type \notin Loads /\ i.type \notin Moves \cup Adrs
    BY DEF Tables, Adds, Branch16, Branch32, BranchArm, Loads, Moves, Adrs, Undefine
  <1>3. CASE i.type = "UNDEFINE"
    <2>1. i.type # "UNDEFINE_PC" /\ i.type # "IT"
      BY <1>3
    <2>2. Copied(i, p) = Effect(i.cond, i.reg, "other", 0)
      BY <1>1, <1>2, <1>3, <2>1, Zenon DEF Copied
    <2>3. Original(i, at) = Effect(i.cond, i.reg, "other", 0)
      BY <1>1, <1>3 DEF Original, Adds, Moves, Tables, Loads
    <2>4. Original(i, at).leads = "there"
      BY <2>3, EffectMade
    <2>5. ~Flawed(i, at)
      <3>1. i.type \notin TypesArm \ ({"ADD_ARM"} \cup Undefine)
        BY <1>3 DEF Undefine
      <3> QED
        BY <1>1, <1>2, <1>3, <2>4, <3>1 DEF Flawed
    <2> QED
      BY <2>2, <2>3, <2>5 DEF Right
  <1>4. CASE i.type = "UNDEFINE_PC"
    <2>1. i.type # "UNDEFINE" /\ i.type # "IT"
      BY <1>4
    <2>2. Copied(i, p) = Effect(i.cond, i.reg, "relative_copy", 0)
      BY <1>1, <1>2, <1>4, <2>1, Zenon DEF Copied
    <2>3. Original(i, at) = Effect(i.cond, i.reg, "relative", p)
      BY <1>1, <1>4 DEF Original, Adds, Moves, Tables, Loads
    <2>4. Flawed(i, at)
      BY <1>4 DEF Flawed
    <2>5. Copied(i, p).does # Original(i, at).does
      <3>1. Copied(i, p).does = "relative_copy"
        BY <2>2, EffectMade
      <3>2. Original(i, at).does = "relative"
        BY <2>3, EffectMade
      <3> QED
        BY <3>1, <3>2
    <2> QED
      BY <2>4, <2>5 DEF Right
  <1>5. CASE i.type = "IT"
    <2>1. i.type # "UNDEFINE" /\ i.type # "UNDEFINE_PC"
      BY <1>5
    <2>2. Copied(i, p) = Effect("al", 0, "if_then_nop", i.x)
      BY <1>1, <1>2, <1>5, <2>1, Zenon DEF Copied
    <2>3. Original(i, at) = Effect("al", 0, "if_then", i.x)
      BY <1>1, <1>5 DEF Original, Adds, Moves, Tables, Loads
    <2>4. Flawed(i, at)
      BY <1>5 DEF Flawed
    <2>5. Copied(i, p).does # Original(i, at).does
      <3>1. Copied(i, p).does = "if_then_nop"
        BY <2>2, EffectMade
      <3>2. Original(i, at).does = "if_then"
        BY <2>3, EffectMade
      <3> QED
        BY <3>1, <3>2
    <2> QED
      BY <2>4, <2>5 DEF Right
  <1> QED
    BY <1>3, <1>4, <1>5 DEF Undefine

\* What the classifier takes for something else is copied as that; only UDF #0 and
\* SVC #0 come out as they were (relocate.c:77, 112, 153-159, 187, 309).
LEMMA MisreadRight ==
    ASSUME NEW i, NEW at, Site(i, at), Misread(i)
    PROVE  Right(i, at)
  <1> DEFINE p == at + Ahead
             other == IF i.type = "B1_THUMB16" THEN i.cond ELSE "another"
  <1>1. /\ i.type \in NoBranch \/ (i.type \in NoAccess /\ i.cond = Svc)
        /\ i.x \in Nat /\ i.x < 2 ^ 24
        /\ i.cond \in {"1110", "1111"}
    BY SiteFacts DEF Encoded, Misread, NoCond, Udf, Svc
  <1>2. Original(i, at) = Effect("al", 0, other, i.x)
    BY DEF Original
  <1>3. /\ Original(i, at) = EffectOf("al", 0, other, Bits(i.x), "there", {})
        /\ Original(i, at).leads = "there"
    BY <1>2, EffectMade
  <1>4. CASE i.type \in NoBranch
    <2>1. Copied(i, p) = Effect("al", 0, i.cond, 0)
      BY <1>4 DEF Copied
    <2>2. Copied(i, p) = EffectOf("al", 0, i.cond, Bits(0), "there", {})
      BY <2>1, EffectMade
    <2>3. Copied(i, p) = Original(i, at) <=> i.cond = other /\ Bits(0) = Bits(i.x)
      BY <1>3, <2>2, SameEffect
    <2>4. i.cond = other <=> i.type = "B1_THUMB16"
      BY <1>1, <1>4 DEF NoBranch
    <2>5. Bits(0) = Bits(i.x) <=> i.x = 0
      <3>1. PICK x \in Nat : x = i.x /\ x < 2 ^ 24
        BY <1>1
      <3>2. PICK w \in Nat : w = Word /\ w > 2 ^ 24
        BY WordSize
      <3>3. x # 0 => Bits(0) # Bits(x)
        BY <3>1, <3>2, BitsApart
      <3> QED
        BY <3>1, <3>3
    <2>6. Flawed(i, at) <=> ~(i.type = "B1_THUMB16" /\ i.x = 0)
      BY <1>3, <1>4 DEF Flawed, NoBranch, Adds, Tables, Loads, TypesArm, BranchArm, Undefine
    <2> QED
      BY <2>3, <2>4, <2>5, <2>6 DEF Right
  <1>5. CASE i.type \in NoAccess
    <2>1. i.type \in Adrs \cup Loads \cup Moves /\ i.type \notin NoBranch
      BY <1>5 DEF NoAccess, NoBranch, Adrs, Loads
    <2>2. Copied(i, p) =
            EffectOf(CondOf(i), RegOf(i),
                     IF i.type \in Loads THEN Read(Value(i, p)) ELSE "value",
                     Bits(Value(i, p)), "there", {})
      BY <2>1, ValueCopied
    <2>3. other = "another"
      BY <1>5 DEF NoAccess
    <2>4. (IF i.type \in Loads THEN Read(Value(i, p)) ELSE "value") # "another"
      BY DEF Read
    <2>5. Copied(i, p) # Original(i, at)
      BY <1>3, <2>2, <2>3, <2>4, SameEffect
    <2>6. Flawed(i, at)
      BY <1>5 DEF Flawed, NoAccess
    <2> QED
      BY <2>5, <2>6 DEF Right
  <1> QED
    BY <1>1, <1>4, <1>5

-----------------------------------------------------------------------------
(* ARM *)

\* Branches and calls (relocate.c:504-540).
LEMMA ArmBranchRight ==
    ASSUME NEW i, NEW at, Site(i, at), ~IsThumb, i.type \in BranchArm, ~Misread(i)
    PROVE  Right(i, at)
  <1> DEFINE p == at + 8
  <1>1. /\ i.type \in TypesArm /\ CondOf(i) = "al" /\ Ahead = 8 /\ ~IsThumb
        /\ i.type \in Always => i.cond = "al"
        /\ ~Misread(i)
    BY SiteFacts DEF CondOf, Ahead, Encoded
  <1>2. /\ p \in Nat /\ p % 2 = 0 /\ p = at + 8
        /\ SignExtend(4 * i.x, 26) \in Int /\ SignExtend(4 * i.x, 26) % 2 = 0
        /\ SignExtend(4 * i.x + 2 * i.s, 26) \in Int
        /\ SignExtend(4 * i.x + 2 * i.s, 26) % 2 = 0
    <2>1. at \in Nat /\ at % 4 = 0 /\ Encoded(i)
      BY SiteFacts
    <2>2. p \in Nat /\ p % 2 = 0
      BY <2>1
    <2>3. /\ SignExtend(4 * i.x, 26) \in Int /\ SignExtend(4 * i.x, 26) % 4 = 0
          /\ SignExtend(4 * i.x + 2 * i.s, 26) \in Int
          /\ SignExtend(4 * i.x + 2 * i.s, 26) % 2 = 0
      BY <2>1, BranchOffsets DEF Encoded
    <2>4. SignExtend(4 * i.x, 26) % 2 = 0
      BY <2>3
    <2> QED
      BY <2>2, <2>3, <2>4
  <1> HIDE DEF p
  <1>3. CASE i.type = "BLX_ARM"
    <2>1. Value(i, p) = p + SignExtend(4 * i.x + 2 * i.s, 26) + 1
      BY <1>1, <1>2, <1>3 DEF Value, Adds, Moves, Tables
    <2>2. Original(i, at) = GoTo("al", "thumb", p + SignExtend(4 * i.x + 2 * i.s, 26))
      BY <1>1, <1>2, <1>3 DEF Original, Adds, Moves, Tables, Loads
    <2>3. Flawed(i, at) <=> i.cond # "al" \/ Original(i, at).leads = "copy"
      BY <1>1, <1>2, <1>3 DEF Flawed, Adds, Tables, Loads, Undefine
    <2>4. Value(i, p) % 2 = 1 /\ Value(i, p) - 1 = p + SignExtend(4 * i.x + 2 * i.s, 26)
      BY <1>2, <2>1
    <2> QED
      BY <1>1, <1>2, <1>3, <2>2, <2>3, <2>4, BranchSame, AlwaysTypes DEF Right
  <1>4. CASE i.type = "BL_ARM"
    <2>1. Value(i, p) = p + SignExtend(4 * i.x, 26)
      BY <1>1, <1>2, <1>4 DEF Value, Adds, Moves, Tables
    <2>2. Original(i, at) = GoTo(i.cond, "arm", p + SignExtend(4 * i.x, 26))
      BY <1>1, <1>2, <1>4 DEF Original, Adds, Moves, Tables, Loads
    <2>3. Flawed(i, at) <=> i.cond # "al" \/ Original(i, at).leads = "copy"
      BY <1>1, <1>2, <1>4 DEF Flawed, Adds, Tables, Loads, Undefine
    <2>4. Value(i, p) % 2 # 1
      BY <1>2, <2>1
    <2> QED
      BY <1>1, <1>2, <1>4, <2>1, <2>2, <2>3, <2>4, BranchSame, AlwaysTypes DEF Right
  <1>5. CASE i.type = "B_ARM"
    <2>1. Value(i, p) = p + SignExtend(4 * i.x, 26)
      BY <1>1, <1>2, <1>5 DEF Value, Adds, Moves, Tables
    <2>2. Original(i, at) = GoTo(i.cond, "arm", p + SignExtend(4 * i.x, 26))
      BY <1>1, <1>2, <1>5 DEF Original, Adds, Moves, Tables, Loads
    <2>3. Flawed(i, at) <=> i.cond # "al" \/ Original(i, at).leads = "copy"
      BY <1>1, <1>2, <1>5 DEF Flawed, Adds, Tables, Loads, Undefine
    <2>4. Value(i, p) % 2 # 1
      BY <1>2, <2>1
    <2> QED
      BY <1>1, <1>2, <1>5, <2>1, <2>2, <2>3, <2>4, BranchSame, AlwaysTypes DEF Right
  <1>6. CASE i.type = "BX_ARM"
    <2>1. Value(i, p) = p
      BY <1>1, <1>2, <1>6 DEF Value, Adds, Moves, Tables
    <2>2. Original(i, at) = GoTo(i.cond, "arm", p)
      BY <1>1, <1>2, <1>6 DEF Original, Adds, Moves, Tables, Loads
    <2>3. Flawed(i, at) <=> i.cond # "al" \/ Original(i, at).leads = "copy"
      BY <1>1, <1>2, <1>6 DEF Flawed, Adds, Tables, Loads, Undefine
    <2>4. Value(i, p) % 2 # 1
      BY <1>2, <2>1
    <2> QED
      BY <1>1, <1>2, <1>6, <2>1, <2>2, <2>3, <2>4, BranchSame, AlwaysTypes DEF Right
  <1> QED
    BY <1>3, <1>4, <1>5, <1>6 DEF BranchArm

\* ADR, MOV and LDR (relocate.c:558-592).
LEMMA ArmValueRight ==
    ASSUME NEW i, NEW at, Site(i, at), ~IsThumb,
           i.type \in {"ADR1_ARM", "ADR2_ARM", "MOV_ARM", "LDR_ARM"},
           ~Misread(i)
    PROVE  Right(i, at)
  <1> DEFINE p == at + 8
  <1>1. /\ i.type \in TypesArm /\ CondOf(i) = "al" /\ RegOf(i) = i.reg
        /\ Ahead = 8 /\ ~IsThumb
        /\ ~Misread(i)
    BY SiteFacts DEF CondOf, RegOf, Ahead
  <1>2. /\ p \in Nat /\ p = at + 8 /\ i.x \in Nat
        /\ i.type \in Adrs => i.x < 4096
    BY SiteFacts DEF Encoded
  <1> HIDE DEF p
  <1>3. CASE i.type = "ADR1_ARM"
    <2>1. Value(i, p) = p + i.x
      BY <1>1, <1>2, <1>3 DEF Value, Adds, Moves, Tables
    <2>2. Original(i, at) = Write(i.cond, i.reg, p + ArmExpand(i.x))
      BY <1>1, <1>2, <1>3 DEF Original, Adds, Moves, Tables, Loads
    <2>3. Flawed(i, at) <=> i.x > 255 \/ i.cond # "al" \/ Original(i, at).leads = "copy"
      BY <1>1, <1>2, <1>3 DEF Flawed, Adds, Tables, Loads, Undefine
    <2>4. i.type \in Adrs \cup Moves
      BY <1>3 DEF Adrs, Moves
    <2>5. Bits(p + i.x) = Bits(p + ArmExpand(i.x)) <=> ~(i.x > 255)
      <3>1. PICK x \in Nat : x = i.x /\ x < 4096
        BY <1>2, <1>3 DEF Adrs
      <3>2. PICK w \in Nat : w = Word /\ w > 4096
        BY WordSize
      <3>3. ASSUME x > 255
            PROVE  Bits(p + x) # Bits(p + ArmExpand(x))
        <4>1. ArmExpand(x) \in 0 .. w - 1 /\ ArmExpand(x) # x
          BY <3>1, <3>2, <3>3, ArmExpandMeans
        <4> QED
          BY <1>2, <3>1, <3>2, <4>1, BitsApart
      <3>4. ASSUME ~(x > 255)
            PROVE  ArmExpand(x) = x
        BY <3>1, <3>4, ArmExpandMeans
      <3> QED
        BY <3>1, <3>3, <3>4
    <2>8. Copied(i, p) = Original(i, at) <=>
             /\ CondOf(i) = i.cond
             /\ RegOf(i) = i.reg
             /\ Bits(Value(i, p)) = Bits(p + ArmExpand(i.x))
             /\ Original(i, at).leads # "copy"
      BY <1>1, <2>2, <2>4, WriteSame
    <2> QED
      BY <1>1, <1>2, <1>3, <2>1, <2>3, <2>5, <2>8 DEF Right
  <1>4. CASE i.type = "ADR2_ARM"
    <2>1. Value(i, p) = p - i.x
      BY <1>1, <1>2, <1>4 DEF Value, Adds, Moves, Tables
    <2>2. Original(i, at) = Write(i.cond, i.reg, p - ArmExpand(i.x))
      BY <1>1, <1>2, <1>4 DEF Original, Adds, Moves, Tables, Loads
    <2>3. Flawed(i, at) <=> i.x > 255 \/ i.cond # "al" \/ Original(i, at).leads = "copy"
      BY <1>1, <1>2, <1>4 DEF Flawed, Adds, Tables, Loads, Undefine
    <2>4. i.type \in Adrs \cup Moves
      BY <1>4 DEF Adrs, Moves
    <2>5. Bits(p - i.x) = Bits(p - ArmExpand(i.x)) <=> ~(i.x > 255)
      <3>1. PICK x \in Nat : x = i.x /\ x < 4096
        BY <1>2, <1>4 DEF Adrs
      <3>2. PICK w \in Nat : w = Word /\ w > 4096
        BY WordSize
      <3>3. ASSUME x > 255
            PROVE  Bits(p - x) # Bits(p - ArmExpand(x))
        <4>1. ArmExpand(x) \in 0 .. w - 1 /\ ArmExpand(x) # x
          BY <3>1, <3>2, <3>3, ArmExpandMeans
        <4> QED
          BY <1>2, <3>1, <3>2, <4>1, BitsApart
      <3>4. ASSUME ~(x > 255)
            PROVE  ArmExpand(x) = x
        BY <3>1, <3>4, ArmExpandMeans
      <3> QED
        BY <3>1, <3>3, <3>4
    <2>8. Copied(i, p) = Original(i, at) <=>
             /\ CondOf(i) = i.cond
             /\ RegOf(i) = i.reg
             /\ Bits(Value(i, p)) = Bits(p - ArmExpand(i.x))
             /\ Original(i, at).leads # "copy"
      BY <1>1, <2>2, <2>4, WriteSame
    <2> QED
      BY <1>1, <1>2, <1>4, <2>1, <2>3, <2>5, <2>8 DEF Right
  <1>5. CASE i.type = "MOV_ARM"
    <2>1. Value(i, p) = p
      BY <1>1, <1>2, <1>5 DEF Value, Adds, Moves, Tables
    <2>2. Flawed(i, at) <=> i.s = 1 \/ i.cond # "al" \/ Original(i, at).leads = "copy"
      BY <1>1, <1>2, <1>5 DEF Flawed, Adds, Tables, Loads, Undefine
    <2>3. CASE i.s = 1
      <3>1. Original(i, at) = Effect(i.cond, i.reg, "value_flags", p)
        BY <1>1, <1>2, <1>5, <2>3 DEF Original, Adds, Moves, Tables, Loads
      <3>2. Original(i, at) = EffectOf(i.cond, i.reg, "value_flags", Bits(p), "there", {})
        BY <3>1, EffectMade
      <3>3. i.type \in Adrs \cup Loads \cup Moves /\ i.type \notin Loads
        BY <1>5 DEF Loads, Moves
      <3>4. Copied(i, p) = EffectOf(CondOf(i), RegOf(i), "value", Bits(Value(i, p)), "there", {})
        BY <1>1, <3>3, ValueCopied
      <3>5. "value" # "value_flags"
        OBVIOUS
      <3>6. Copied(i, p) # Original(i, at)
        BY <3>2, <3>4, <3>5, SameEffect
      <3> QED
        BY <1>1, <1>2, <2>2, <2>3, <3>6 DEF Right
    <2>4. CASE i.s # 1
      <3>1. Original(i, at) = Write(i.cond, i.reg, p)
        BY <1>1, <1>2, <1>5, <2>4 DEF Original, Adds, Moves, Tables, Loads
      <3>2. i.type \in Adrs \cup Moves
        BY <1>5 DEF Moves
      <3>3. Copied(i, p) = Original(i, at) <=>
              /\ CondOf(i) = i.cond /\ RegOf(i) = i.reg /\ Bits(Value(i, p)) = Bits(p)
              /\ Original(i, at).leads # "copy"
        BY <1>1, <3>1, <3>2, WriteSame
      <3> QED
        BY <1>1, <1>2, <2>1, <2>2, <2>4, <3>3 DEF Right
    <2> QED
      BY <2>3, <2>4
  <1>6. CASE i.type = "LDR_ARM"
    <2>1. Value(i, p) = p + (IF i.add THEN i.x ELSE -i.x)
      BY <1>1, <1>2, <1>6 DEF Value, Adds, Moves, Tables
    <2>2. Original(i, at) = Effect(i.cond, i.reg, "load", IF i.add THEN p + i.x ELSE p - i.x)
      BY <1>1, <1>2, <1>6 DEF Original, Adds, Moves, Tables, Loads
    <2>3. Flawed(i, at) <=> i.cond # "al" \/ Original(i, at).leads = "copy"
                      \/ Bits(Value(i, p)) \in Writable
      BY <1>1, <1>2, <1>6 DEF Flawed, Adds, Tables, Loads, Undefine
    <2>4. i.type \in Loads
      BY <1>6 DEF Loads
    <2>5. p + (IF i.add THEN i.x ELSE -i.x) = IF i.add THEN p + i.x ELSE p - i.x
      BY <1>2
    <2>8. /\ Original(i, at).leads = "there"
          /\ Copied(i, p) = Original(i, at) <=>
               /\ CondOf(i) = i.cond
               /\ RegOf(i) = i.reg
               /\ Bits(Value(i, p)) = Bits(IF i.add THEN p + i.x ELSE p - i.x)
               /\ Bits(Value(i, p)) \notin Writable
      BY <1>1, <2>2, <2>4, LoadSame
    <2> QED
      BY <1>1, <1>2, <1>6, <2>1, <2>3, <2>5, <2>8 DEF Right
  <1> QED
    BY <1>3, <1>4, <1>5, <1>6

-----------------------------------------------------------------------------
(* Every copy *)

\* The copy of an instruction of any type, at any address of any function, does what
\* the instruction does if and only if it is none of the flawed ones
\* (relocate.c:168-436, 504-597).
LEMMA EveryCopyRight ==
    ASSUME NEW i, NEW at, Site(i, at)
    PROVE  Right(i, at)
  <1>1. CASE Misread(i)
    BY <1>1, MisreadRight
  <1>2. CASE ~Misread(i) /\ i.type \in Undefine \cup {"IT"}
    BY <1>2, UndefineRight
  <1>3. CASE ~Misread(i) /\ IsThumb /\ i.type \notin Undefine \cup {"IT"}
    <2>1. i.type \in TypesThumb16 \cup TypesThumb32
      BY <1>3, SiteFacts
    <2>2. \/ i.type \in Branch16 \cup Branch32
          \/ i.type \in {"MOV_THUMB16", "ADR_THUMB16", "LDR_THUMB16", "ADR1_THUMB32",
                         "ADR2_THUMB32", "LDR_THUMB32"}
          \/ i.type \in Adds
          \/ i.type \in Tables
      BY <1>3, <2>1 DEF TypesThumb16, TypesThumb32, Adds
    <2> QED
      BY <1>3, <2>2, ThumbBranchRight, ThumbValueRight, AddRight, TableRight
  <1>4. CASE ~Misread(i) /\ ~IsThumb /\ i.type \notin Undefine \cup {"IT"}
    <2>1. i.type \in TypesArm
      BY <1>4, SiteFacts
    <2>2. \/ i.type \in BranchArm
          \/ i.type \in {"ADR1_ARM", "ADR2_ARM", "MOV_ARM", "LDR_ARM"}
          \/ i.type \in Adds
      BY <1>4, <2>1 DEF TypesArm, Adds
    <2> QED
      BY <1>4, <2>2, ArmBranchRight, ArmValueRight, AddRight
  <1> QED
    BY <1>1, <1>2, <1>3, <1>4

-----------------------------------------------------------------------------
(* The loop *)

\* i at address at, and what its copy does.
CopyOf(i, at) == [ins |-> i, at |-> at, effect |-> Copied(i, at + Ahead)]

\* The loop's pc is that of the next instruction, and what was copied last is an
\* instruction of the function, copied for its own address (relocate.c:438-474, 482-600).
LoopInv ==
    /\ target \in Targets
    /\ pos \in Nat
    /\ pos % (IF IsThumb THEN 2 ELSE 4) = 0
    /\ pc = Entry + pos + Ahead
    /\ last = Nothing \/ \E i, at : Site(i, at) /\ last = CopyOf(i, at)

\* Before the first copy the pc is that of the function's first instruction.
LEMMA InitLoop == Init => LoopInv
  <1> SUFFICES ASSUME Init
               PROVE  LoopInv
    OBVIOUS
  <1>1. target \in Targets /\ pos \in Nat /\ pos = 0 /\ last = Nothing
    BY DEF Init
  <1>2. target \in Int
    <2>1. Targets \subseteq 1 .. Word - 32
      BY ValueAssumption DEF ValueAssumption, Word, Size
    <2> QED
      BY <1>1, <2>1
  <1>3. Entry \in Int /\ Ahead \in Int
    BY <1>2 DEF Entry, Ahead
  <1>4. pc = Entry + pos + Ahead
    BY <1>1, <1>3 DEF Init
  <1>5. pos % (IF IsThumb THEN 2 ELSE 4) = 0
    BY <1>1
  <1> QED
    BY <1>1, <1>4, <1>5 DEF LoopInv

\* What depends on the function alone stays as it is.
LEMMA SameFunction ==
    ASSUME UNCHANGED target
    PROVE  /\ (IsThumb' <=> IsThumb) /\ Entry' = Entry /\ Length' = Length /\ Ahead' = Ahead
           /\ \A i, at : Site(i, at)' <=> Site(i, at)
           /\ \A i, at : CopyOf(i, at)' = CopyOf(i, at)
  <1>1. (IsThumb' <=> IsThumb) /\ Entry' = Entry
    BY DEF IsThumb, Entry
  <1>2. Length' = Length /\ Ahead' = Ahead
    BY <1>1 DEF Length, Ahead
  <1> QED
    BY <1>1, <1>2 DEF Site, CopyOf

\* One iteration copies an instruction of the function for its own address
\* (relocate.c:447-474, 492-597).
LEMMA CopyLoop ==
    ASSUME LoopInv, NEW i, NEW bytes \in {2, 4}, Copy(i, bytes),
           i \in IF IsThumb THEN Thumb16 \cup Thumb32 ELSE Arm,
           ~IsThumb => bytes = 4
    PROVE  LoopInv'
  <1>1. UNCHANGED target
    BY DEF Copy
  <1>2. /\ target \in Targets /\ pos \in Nat
        /\ pos % (IF IsThumb THEN 2 ELSE 4) = 0
        /\ pc = Entry + pos + Ahead
    BY DEF LoopInv
  <1>3. Entry \in Int /\ Ahead \in Int /\ Length \in Nat
    <2>1. Targets \subseteq 1 .. Word - 32
      BY ValueAssumption DEF ValueAssumption, Word, Size
    <2>2. PICK t \in Int : t = target
      BY <1>2, <2>1
    <2> QED
      BY <2>2 DEF Entry, Ahead, Length
  <1>4. /\ pos + bytes <= Length
        /\ pos' = pos + bytes
        /\ pc' = pc + bytes
        /\ last' = [ins |-> i, at |-> Entry + pos, effect |-> Copied(i, pc)]
    BY DEF Copy
  <1>5. Site(i, Entry + pos)
    <2>1. pos \in 0 .. Length - 1
      BY <1>2, <1>3, <1>4
    <2> QED
      BY <1>2, <2>1 DEF Site
  <1>6. last' = CopyOf(i, Entry + pos)
    BY <1>2, <1>4 DEF CopyOf
  <1>7. \E j, at : Site(j, at)' /\ last' = CopyOf(j, at)'
    BY <1>1, <1>5, <1>6, SameFunction
  <1>8. /\ pos' \in Nat
        /\ pos' % (IF IsThumb THEN 2 ELSE 4) = 0
        /\ pc' = Entry + pos' + Ahead
    BY <1>2, <1>3, <1>4
  <1>9. /\ target' \in Targets /\ pos' \in Nat
        /\ pos' % (IF IsThumb' THEN 2 ELSE 4) = 0
        /\ pc' = Entry' + pos' + Ahead'
    <2>1. target' \in Targets
      BY <1>1, <1>2
    <2>2. (IsThumb' <=> IsThumb) /\ Entry' = Entry /\ Ahead' = Ahead
      BY <1>1, SameFunction
    <2>3. pos' % (IF IsThumb' THEN 2 ELSE 4) = 0
      <3>1. CASE IsThumb
        BY <1>8, <2>2, <3>1
      <3>2. CASE ~IsThumb
        BY <1>8, <2>2, <3>2
      <3> QED
        BY <3>1, <3>2
    <2> QED
      BY <1>8, <2>1, <2>2, <2>3
  <1> QED
    BY <1>7, <1>9 DEF LoopInv

\* Every iteration keeps the pc with the instruction it reads (relocate.c:447, 460, 466, 492, 597).
LEMMA StepLoop == LoopInv /\ [Next]_vars => LoopInv'
  <1> SUFFICES ASSUME LoopInv, [Next]_vars
               PROVE  LoopInv'
    OBVIOUS
  <1>1. CASE UNCHANGED vars
    <2>1. UNCHANGED <<target, pos, pc, last>>
      BY <1>1 DEF vars
    <2>2. /\ target \in Targets /\ pos \in Nat
          /\ pos % (IF IsThumb THEN 2 ELSE 4) = 0
          /\ pc = Entry + pos + Ahead
      BY DEF LoopInv
    <2>3. CASE last = Nothing
      BY <2>1, <2>2, <2>3, SameFunction DEF LoopInv, Nothing, Effect, Bits
    <2>4. CASE \E i, at : Site(i, at) /\ last = CopyOf(i, at)
      <3>1. \E i, at : Site(i, at)' /\ last' = CopyOf(i, at)'
        BY <2>1, <2>4, SameFunction
      <3> QED
        BY <2>1, <2>2, <3>1, SameFunction DEF LoopInv
    <2> QED
      BY <2>3, <2>4 DEF LoopInv
  <1>2. ASSUME IsThumb, NEW i \in Thumb16, Copy(i, 2)
        PROVE  LoopInv'
    BY <1>2, CopyLoop
  <1>3. ASSUME IsThumb, NEW i \in Thumb32, Copy(i, 4)
        PROVE  LoopInv'
    BY <1>3, CopyLoop
  <1>4. ASSUME ~IsThumb, NEW i \in Arm, Copy(i, 4)
        PROVE  LoopInv'
    BY <1>4, CopyLoop
  <1> QED
    BY <1>1, <1>2, <1>3, <1>4 DEF Next

\* The loop's pc never leaves the instruction it is at (relocate.c:447, 460, 466, 492, 597).
THEOREM LoopInvariant == Spec => []LoopInv
  BY InitLoop, StepLoop, PTL DEF Spec

\* Every copy the loop makes does exactly what the instruction copied does, but for the
\* cases of Flawed, and each of those does something else (relocate.c:168-436, 504-597).
THEOREM CopiesDoTheSame == Spec => []CopyDoesTheSame
  <1>1. LoopInv => CopyDoesTheSame
    <2> SUFFICES ASSUME LoopInv, last # Nothing, ~Unpredictable(last.ins, last.at)
                 PROVE  last.effect = Original(last.ins, last.at) <=> ~Flawed(last.ins, last.at)
      BY DEF CopyDoesTheSame
    <2>1. PICK i, at : Site(i, at) /\ last = CopyOf(i, at)
      BY DEF LoopInv
    <2>2. last.ins = i /\ last.at = at /\ last.effect = Copied(i, at + Ahead)
      BY <2>1 DEF CopyOf
    <2>3. Right(i, at)
      BY <2>1, EveryCopyRight
    <2> QED
      BY <2>2, <2>3 DEF Right
  <1> QED
    BY <1>1, LoopInvariant, PTL

=============================================================================
