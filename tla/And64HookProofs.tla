--------------------------- MODULE And64HookProofs ---------------------------
(***************************************************************************)
(* What the 64-bit hook guarantees for any number of callers, threads,     *)
(* functions, calls and rows, and wherever mprotect fails: a trampoline is *)
(* written once; hooking a function once by a branch in reach harms no     *)
(* thread whose cache knows the trampoline; and, for a patch of any of the *)
(* three lengths, a function is hooked whole or not at all, and the only   *)
(* threads harmed are those that were inside it while the patch was        *)
(* written, or whose cache does not know the trampoline.                   *)
(***************************************************************************)
EXTENDS And64Hook, TLAPS

USE SymbolAssumption, BoundAssumption

\* A place of a thread, as At makes it (And64InlineHook.cpp:542-572).
Placed(l) == DOMAIN l = {"at", "fun", "word", "row", "x17"}

\* The shape of the variables, as far as the proofs need it
\* (And64InlineHook.cpp:494-596).
Shape ==
    /\ index \in Int /\ index >= -1
    /\ DOMAIN pool = Rows
    /\ DOMAIN code = Symbols /\ DOMAIN cached = Symbols /\ DOMAIN old = Symbols
    /\ pc \in [Callers -> {"idle", "fix", "protect", "patch"}]
    /\ DOMAIN sym = Callers /\ DOMAIN row = Callers /\ DOMAIN stores = Callers
    /\ \A c \in Callers : pc[c] # "idle" => sym[c] \in Symbols /\ row[c] \in Rows
    /\ calls \in [Symbols -> Nat]
    /\ DOMAIN loc = Threads
    /\ \A t \in Threads : Placed(loc[t])

HookInv == Shape /\ PoolInv /\ NearInv

\* A call begins without a store of the one before: TypeOK, which speaks of the
\* calls in progress only, needs this of the others (And64InlineHook.cpp:542-572).
Stored == \A c \in Callers : pc[c] # "patch" => stores[c] = {}

TypeInv == TypeOK /\ Stored

LEMMA AtPlaces ==
    ASSUME NEW place, NEW f, NEW k, NEW r, NEW x
    PROVE  /\ Placed(At(place, f, k, r, x))
           /\ At(place, f, k, r, x).at = place /\ At(place, f, k, r, x).fun = f
           /\ At(place, f, k, r, x).word = k /\ At(place, f, k, r, x).row = r
  BY DEF Placed, At

\* A thread that executes a word stays with its function or gets outside.
LEMMA AfterPlaces ==
    ASSUME NEW l, Placed(l), NEW w
    PROVE  /\ Placed(After(l, w))
           /\ After(l, w).fun = l.fun \/ After(l, w) = Out
  <1> DEFINE next == [l EXCEPT !.word = @ + 1]
  <1>1. Placed(next) /\ next.fun = l.fun
    BY DEF Placed
  <1>2. ASSUME NEW x
        PROVE  Placed([next EXCEPT !.x17 = x]) /\ [next EXCEPT !.x17 = x].fun = l.fun
    BY <1>1 DEF Placed
  <1>3. /\ Placed(Out) /\ Placed(New(l.fun)) /\ Placed(Lost(l.fun))
        /\ New(l.fun).fun = l.fun /\ Lost(l.fun).fun = l.fun
    BY DEF Placed, Out, New, Lost, At
  <1> HIDE DEF next
  <1>4. \/ After(l, w) \in {next, Out, New(l.fun), Lost(l.fun)}
        \/ \E x : After(l, w) = [next EXCEPT !.x17 = x]
    BY DEF After, next
  <1> QED
    BY <1>1, <1>2, <1>3, <1>4

LEMMA InitShape == Init => Shape
  BY AtPlaces DEF Init, Shape, Rows, Out

LEMMA InitPool == Init => PoolInv
  BY DEF Init, PoolInv, Rows

LEMMA InitNear == Init => NearInv
  <1> SUFFICES ASSUME Init, NEW f \in Symbols, Near(f)
               PROVE  /\ ~Busy(f) /\ Whole(f)
                      /\ DOMAIN code[f] = {1} /\ DOMAIN cached[f] = {1}
                      /\ code[f][1] = "own" /\ cached[f][1] = "own"
                      /\ \A c \in Callers : pc[c] = "idle"
                      /\ \A t \in Threads : loc[t].at = "out"
    BY DEF NearInv, NearAt, Busy
  <1>1. code[f] = [k \in 1 .. 1 |-> "own"] /\ cached[f] = code[f]
    BY DEF Init, Original, Near
  <1>2. 1 .. 1 = {1}
    OBVIOUS
  <1>3. \A t \in Threads : loc[t].at = "out"
    BY DEF Init, Out, At
  <1> QED
    BY <1>1, <1>2, <1>3 DEF Init, Busy, Whole

LEMMA InitHook == Init => HookInv
  BY InitShape, InitPool, InitNear DEF HookInv

-----------------------------------------------------------------------------
LEMMA StepShape ==
    ASSUME Shape, [Next]_vars
    PROVE  Shape'
  <1>1. ASSUME NEW c \in Callers, NEW f \in Symbols, Allocate(c, f)
        PROVE  Shape'
    <2>1. index' \in Int /\ index' >= -1 /\ index' = index + 1
      BY <1>1 DEF Allocate, Shape
    <2>2. index' < MAX_BACKUPS => index' \in Rows
      BY <2>1 DEF Rows, Shape
    <2> QED
      BY <1>1, <2>1, <2>2 DEF Allocate, Shape
  <1>2. ASSUME NEW c \in Callers, Fix(c)
        PROVE  Shape'
    BY <1>2 DEF Fix, Shape
  <1>3. ASSUME NEW c \in Callers, Protect(c)
        PROVE  Shape'
    BY <1>3 DEF Protect, Shape
  <1>4. ASSUME NEW c \in Callers, Patch(c)
        PROVE  Shape'
    BY <1>4 DEF Patch, Shape
  <1>5. ASSUME NEW c \in Callers, Flush(c)
        PROVE  Shape'
    BY <1>5 DEF Flush, Shape
  <1>6. ASSUME NEW t \in Threads, Enter(t) \/ Run(t)
        PROVE  Shape'
    <2>1. UNCHANGED <<index, memory, caller, calls>>
      BY <1>6 DEF Enter, Run, Fetch, CallOld, FetchCopy
    <2>2. PICK l : loc' = [loc EXCEPT ![t] = l] /\ Placed(l)
      BY <1>6, AtPlaces, AfterPlaces
      DEF Enter, Run, Fetch, CallOld, FetchCopy, First, Lost, Shape
    <2> QED
      BY <2>1, <2>2 DEF Shape, memory, caller
  <1>7. CASE UNCHANGED vars
    BY <1>7 DEF Shape, vars, memory, caller
  <1> QED
    BY <1>1, <1>2, <1>3, <1>4, <1>5, <1>6, <1>7 DEF Next, Call

\* A new row lies behind all others, and is written by its caller alone.
LEMMA StepPool ==
    ASSUME Shape, PoolInv, [Next]_vars
    PROVE  PoolInv' /\ \A r \in Rows : pool[r] # <<>> => pool'[r] = pool[r]
  <1>1. ASSUME NEW c \in Callers, NEW f \in Symbols, Allocate(c, f)
        PROVE  PoolInv' /\ UNCHANGED pool
    <2>1. UNCHANGED pool /\ index' = index + 1 /\ index \in Int
      BY <1>1 DEF Allocate, Shape
    <2>2. CASE /\ index' < MAX_BACKUPS
               /\ pc' = [pc EXCEPT ![c] = "fix"] /\ row' = [row EXCEPT ![c] = index']
      <3>1. index' \in Rows /\ pool[index'] = <<>>
        BY <2>1, <2>2 DEF Shape, PoolInv, Rows
      <3> QED
        BY <2>1, <2>2, <3>1 DEF Shape, PoolInv, Rows
    <2>3. CASE UNCHANGED <<pc, row>>
      BY <2>1, <2>3 DEF Shape, PoolInv, Rows
    <2> QED
      BY <1>1, <2>1, <2>2, <2>3 DEF Allocate
  <1>2. ASSUME NEW c \in Callers, Fix(c)
        PROVE  PoolInv' /\ \A r \in Rows : pool[r] # <<>> => pool'[r] = pool[r]
    <2>1. /\ pc[c] = "fix" /\ pc' = [pc EXCEPT ![c] = "protect"]
          /\ row[c] \in Rows /\ row[c] <= index /\ pool[row[c]] = <<>>
          /\ \A r \in Rows : r # row[c] => pool'[r] = pool[r]
          /\ UNCHANGED <<index, row>>
      BY <1>2 DEF Fix, Shape, PoolInv
    <2> QED
      BY <2>1 DEF Shape, PoolInv
  <1>3. ASSUME NEW c \in Callers, Protect(c) \/ Patch(c) \/ Flush(c)
        PROVE  PoolInv' /\ UNCHANGED pool
    <2>1. /\ UNCHANGED <<index, pool, row>>
          /\ \A d \in Callers : pc'[d] = "fix" => pc[d] = "fix"
      BY <1>3 DEF Protect, Patch, Flush, Shape
    <2> QED
      BY <2>1 DEF PoolInv
  <1>4. ASSUME NEW t \in Threads, Enter(t) \/ Run(t)
        PROVE  PoolInv' /\ UNCHANGED pool
    BY <1>4 DEF Enter, Run, Fetch, CallOld, FetchCopy, PoolInv, memory, caller
  <1>5. CASE UNCHANGED vars
    BY <1>5 DEF PoolInv, vars, memory, caller
  <1> QED
    BY <1>1, <1>2, <1>3, <1>4, <1>5 DEF Next, Call

-----------------------------------------------------------------------------
\* A patch has the words it overwrites (And64InlineHook.cpp:542-572).
LEMMA PatchTyped ==
    ASSUME NEW f \in Symbols
    PROVE  PatchOf(f) \in [1 .. Patched[f] -> Words]
  <1>1. CASE Patched[f] = 1
    <2>1. PatchOf(f) = <<"b">>
      BY <1>1 DEF PatchOf
    <2> QED
      BY <1>1, <2>1 DEF Words
  <1>2. CASE Patched[f] = 4
    <2>1. PatchOf(f) = <<"ldr", "br", "addr", "addr">>
      BY <1>2 DEF PatchOf
    <2> QED
      BY <1>2, <2>1 DEF Words
  <1>3. CASE Patched[f] = 5
    <2>1. PatchOf(f) = <<"nop", "ldr", "br", "addr", "addr">>
      BY <1>3 DEF PatchOf
    <2> QED
      BY <1>3, <2>1 DEF Words
  <1> QED
    BY <1>1, <1>2, <1>3

\* A copy is as long as the prologue it is made of.
LEMMA CopiedWords ==
    ASSUME NEW f \in Symbols, code[f] \in [1 .. Patched[f] -> Words]
    PROVE  Copy(f) \in [1 .. Patched[f] -> CopyWords]
  <1>1. DOMAIN code[f] = 1 .. Patched[f]
    OBVIOUS
  <1>2. ASSUME NEW k \in 1 .. Patched[f]
        PROVE  (IF code[f][k] # "ldr" THEN code[f][k]
                ELSE IF AddressIn(f) THEN "ldr new" ELSE "ldr junk") \in CopyWords
    BY DEF CopyWords, Words
  <1> QED
    BY <1>1, <1>2 DEF Copy

\* A thread goes on where it is, or to one of the places outside.
LEMMA AfterAt ==
    ASSUME NEW l, Placed(l), NEW w
    PROVE  After(l, w).at \in {l.at, "out", "new", "lost"}
  <1> DEFINE next == [l EXCEPT !.word = @ + 1]
  <1>1. Placed(next) /\ next.at = l.at
    BY DEF Placed
  <1>2. ASSUME NEW x
        PROVE  [next EXCEPT !.x17 = x].at = l.at
    BY <1>1 DEF Placed
  <1>3. Out.at = "out" /\ New(l.fun).at = "new" /\ Lost(l.fun).at = "lost"
    BY DEF Out, New, Lost, At
  <1> HIDE DEF next
  <1>4. \/ After(l, w) \in {next, Out, New(l.fun), Lost(l.fun)}
        \/ \E x : After(l, w) = [next EXCEPT !.x17 = x]
    BY DEF After, next
  <1> QED
    BY <1>1, <1>2, <1>3, <1>4

\* The types of the words, rows and histories, one by one.
LEMMA InitType == Init => TypeOK
  <1> SUFFICES ASSUME Init
               PROVE  TypeOK
    OBVIOUS
  <1>1. \A f \in Symbols : Original(f) \in [1 .. Patched[f] -> Words]
    BY DEF Original, Words
  <1>2. \A f \in Symbols : code[f] = Original(f) /\ cached[f] = Original(f)
    BY DEF Init
  <1>3. \A t \in Threads : loc[t].at = "out"
    BY DEF Init, Out, At
  <1>4. calls \in [Symbols -> 0 .. Times]
    BY DEF Init
  <1> QED
    BY <1>1, <1>2, <1>3, <1>4 DEF Init, TypeOK, Rows

\* A patch ends with its last store.
LEMMA StepStored ==
    ASSUME TypeOK, Shape, Stored, [Next]_vars
    PROVE  Stored'
  <1>1. ASSUME NEW c \in Callers, NEW f \in Symbols, Allocate(c, f)
        PROVE  Stored'
    BY <1>1 DEF Allocate, Stored, Shape
  <1>2. ASSUME NEW c \in Callers, Fix(c) \/ Protect(c)
        PROVE  Stored'
    BY <1>2 DEF Fix, Protect, Stored, Shape
  <1>3. ASSUME NEW c \in Callers, Patch(c) \/ Flush(c)
        PROVE  Stored'
    BY <1>3 DEF Patch, Flush, Stored, Shape
  <1>4. ASSUME NEW t \in Threads, Enter(t) \/ Run(t)
        PROVE  Stored'
    BY <1>4 DEF Enter, Run, Fetch, CallOld, FetchCopy, Stored, caller
  <1>5. CASE UNCHANGED vars
    BY <1>5 DEF Stored, vars, caller
  <1> QED
    BY <1>1, <1>2, <1>3, <1>4, <1>5 DEF Next, Call

LEMMA StepType ==
    ASSUME TypeOK, Shape, Stored, [Next]_vars
    PROVE  TypeOK'
  <1>1. ASSUME NEW c \in Callers, NEW f \in Symbols, Allocate(c, f)
        PROVE  TypeOK'
    <2>1. /\ UNCHANGED <<pool, code, cached, stores, loc>> /\ pc[c] = "idle"
          /\ calls' = [calls EXCEPT ![f] = @ + 1] /\ calls[f] < Times
          /\ index' = index + 1 /\ index' \in Int /\ index' >= 0
      BY <1>1 DEF Allocate, TypeOK
    <2>2. calls' \in [Symbols -> 0 .. Times]
      BY <2>1 DEF TypeOK
    <2>3. CASE /\ index' < MAX_BACKUPS
               /\ old' = [old EXCEPT ![f] = index']
               /\ pc' = [pc EXCEPT ![c] = "fix"]
               /\ sym' = [sym EXCEPT ![c] = f]
               /\ row' = [row EXCEPT ![c] = index']
      <3>1. index' \in Rows
        BY <2>1, <2>3 DEF Rows
      <3>2. /\ old' \in [Symbols -> Rows \cup {NULL}]
            /\ pc' \in [Callers -> {"idle", "fix", "protect", "patch"}]
            /\ sym' \in [Callers -> Symbols \cup {NoSymbol}]
            /\ row' \in [Callers -> Rows \cup {NULL}]
        BY <2>3, <3>1 DEF TypeOK
      <3>3. ASSUME NEW d \in Callers, pc'[d] # "idle"
            PROVE  sym'[d] \in Symbols /\ row'[d] \in Rows /\ (d # c => sym'[d] = sym[d] /\ pc[d] # "idle")
        BY <2>3, <3>1, <3>3 DEF TypeOK
      <3>4. \A d \in Callers : pc'[d] # "idle" =>
               /\ sym'[d] \in Symbols /\ row'[d] \in Rows
               /\ stores'[d] \subseteq StoresOf(sym'[d])
        <4> SUFFICES ASSUME NEW d \in Callers, pc'[d] # "idle"
                     PROVE  stores'[d] \subseteq StoresOf(sym'[d])
          BY <3>3
        <4>1. CASE d # c
          BY <2>1, <3>3, <4>1 DEF TypeOK
        <4>2. CASE d = c
          BY <2>1, <4>2 DEF Stored
        <4> QED
          BY <4>1, <4>2
      <3> QED
        BY <2>1, <2>2, <3>2, <3>4 DEF TypeOK
    <2>4. CASE old' = [old EXCEPT ![f] = NULL] /\ UNCHANGED <<pc, sym, row>>
      BY <2>1, <2>2, <2>4 DEF TypeOK
    <2> QED
      BY <1>1, <2>3, <2>4 DEF Allocate
  <1>2. ASSUME NEW c \in Callers, Fix(c)
        PROVE  TypeOK'
    <2>1. /\ row[c] \in Rows /\ sym[c] \in Symbols
          /\ pool' = [pool EXCEPT ![row[c]] = Copy(sym[c])] /\ DOMAIN pool = Rows
          /\ pc[c] = "fix" /\ pc' = [pc EXCEPT ![c] = "protect"]
          /\ UNCHANGED <<index, code, cached, old, sym, row, stores, calls, loc>>
      BY <1>2 DEF Fix, TypeOK, Shape
    <2>2. \A r \in Rows : pool'[r] = <<>> \/ \E f \in Symbols :
                             pool'[r] \in [1 .. Patched[f] -> CopyWords]
      <3>1. Copy(sym[c]) \in [1 .. Patched[sym[c]] -> CopyWords]
        BY <2>1, CopiedWords DEF TypeOK
      <3> QED
        BY <2>1, <3>1 DEF TypeOK
    <2> QED
      BY <2>1, <2>2 DEF TypeOK
  <1>3. ASSUME NEW c \in Callers, Protect(c)
        PROVE  TypeOK'
    <2>1. /\ pc[c] = "protect" /\ sym[c] \in Symbols
          /\ UNCHANGED <<index, pool, code, cached, sym, row, calls, loc>>
      BY <1>3 DEF Protect, TypeOK
    <2>2. CASE /\ pc' = [pc EXCEPT ![c] = "patch"]
               /\ stores' = [stores EXCEPT ![c] = StoresOf(sym[c])]
               /\ UNCHANGED old
      <3>1. \A d \in Callers : /\ pc'[d] # "idle" => pc[d] # "idle"
                              /\ stores'[d] = IF d = c THEN StoresOf(sym[d]) ELSE stores[d]
        BY <2>1, <2>2 DEF TypeOK, Shape
      <3> QED
        BY <2>1, <2>2, <3>1 DEF TypeOK
    <2>3. CASE /\ pc' = [pc EXCEPT ![c] = "idle"]
               /\ old' = [old EXCEPT ![sym[c]] = NULL]
               /\ UNCHANGED stores
      BY <2>1, <2>3 DEF TypeOK
    <2> QED
      BY <1>3, <2>2, <2>3 DEF Protect
  <1>4. ASSUME NEW c \in Callers, Patch(c)
        PROVE  TypeOK'
    <2>1. PICK s \in stores[c] :
             /\ code' = [code EXCEPT ![sym[c]] =
                   [k \in DOMAIN @ |-> IF k \in s THEN PatchOf(sym[c])[k] ELSE @[k]]]
             /\ stores' = [stores EXCEPT ![c] = @ \ {s}]
      BY <1>4 DEF Patch
    <2>2. /\ sym[c] \in Symbols /\ DOMAIN code = Symbols /\ DOMAIN stores = Callers
          /\ UNCHANGED <<index, pool, cached, old, pc, sym, row, calls, loc>>
      BY <1>4 DEF Patch, TypeOK, Shape
    <2>3. \A f \in Symbols : code'[f] \in [1 .. Patched[f] -> Words]
      <3>1. code'[sym[c]] \in [1 .. Patched[sym[c]] -> Words]
        BY <2>1, <2>2, PatchTyped DEF TypeOK
      <3> QED
        BY <2>1, <2>2, <3>1 DEF TypeOK
    <2>4. \A d \in Callers : stores'[d] \subseteq stores[d]
      BY <2>1, <2>2
    <2> QED
      BY <2>2, <2>3, <2>4 DEF TypeOK
  <1>5. ASSUME NEW c \in Callers, Flush(c)
        PROVE  TypeOK'
    BY <1>5 DEF Flush, TypeOK, Shape
  <1>6. ASSUME NEW t \in Threads, Enter(t) \/ Run(t)
        PROVE  TypeOK'
    <2>1. UNCHANGED <<index, memory, caller, calls>>
      BY <1>6 DEF Enter, Run, Fetch, CallOld, FetchCopy
    <2>2. PICK l : /\ loc' = [loc EXCEPT ![t] = l]
                   /\ l.at \in {"out", "code", "new", "row", "lost"}
      <3>0. \A f : First(f).at = "code" /\ Lost(f).at = "lost"
        BY AtPlaces DEF First, Lost
      <3>1. CASE Enter(t)
        <4>1. PICK f \in Symbols : loc' = [loc EXCEPT ![t] = First(f)]
          BY <3>1 DEF Enter
        <4> QED
          BY <4>1, <3>0
      <3>2. CASE Fetch(t)
        <4>1. PICK w : loc' = [loc EXCEPT ![t] = After(loc[t], w)] /\ loc[t].at = "code"
          BY <3>2 DEF Fetch
        <4>2. After(loc[t], w).at \in {"out", "code", "new", "lost"}
          BY <4>1, AfterAt DEF Shape
        <4> QED
          BY <4>1, <4>2
      <3>3. CASE CallOld(t)
        <4> DEFINE there == At("row", loc[t].fun, 1, old[loc[t].fun], "own")
        <4>1. there.at = "row"
          BY AtPlaces
        <4>2. loc' = [loc EXCEPT ![t] = Lost(loc[t].fun)] \/ loc' = [loc EXCEPT ![t] = there]
          BY <3>3 DEF CallOld
        <4> HIDE DEF there
        <4> QED
          BY <4>1, <4>2, <3>0
      <3>4. CASE FetchCopy(t)
        <4>1. \/ loc' = [loc EXCEPT ![t] = Lost(loc[t].fun)]
              \/ loc' = [loc EXCEPT ![t] = After(loc[t], pool[loc[t].row][loc[t].word])]
          BY <3>4 DEF FetchCopy
        <4>2. After(loc[t], pool[loc[t].row][loc[t].word]).at \in {"out", "row", "new", "lost"}
          BY <3>4, AfterAt DEF FetchCopy, Shape
        <4> QED
          BY <4>1, <4>2, <3>0
      <3> QED
        BY <1>6, <3>1, <3>2, <3>3, <3>4 DEF Run
    <2>3. \A u \in Threads : loc'[u].at \in {"out", "code", "new", "row", "lost"}
      BY <2>2 DEF TypeOK, Shape
    <2> QED
      BY <2>1, <2>3 DEF TypeOK, memory, caller
  <1>7. CASE UNCHANGED vars
    BY <1>7 DEF TypeOK, vars, memory, caller
  <1> QED
    BY <1>1, <1>2, <1>3, <1>4, <1>5, <1>6, <1>7 DEF Next, Call

-----------------------------------------------------------------------------
LEMMA NearOne ==
    ASSUME NEW f \in Symbols, Patched[f] = 1
    PROVE  /\ PatchOf(f) = <<"b">>
           /\ StoresOf(f) \subseteq {{1}}
  <1>1. PatchOf(f) = <<"b">>
    BY DEF PatchOf
  <1>2. 1 .. Patched[f] = {1}
    OBVIOUS
  <1>3. {k \in 1 .. Patched[f] : PatchOf(f)[k] = "addr"} = {}
    BY <1>1, <1>2
  <1>4. StoresOf(f) = {{k} : k \in {1}} \cup ({{}} \ {{}})
    BY <1>2, <1>3 DEF StoresOf
  <1> QED
    BY <1>1, <1>4

\* The one call begins, or another function's.
LEMMA AllocateNear ==
    ASSUME HookInv, NEW f \in Symbols, Near(f)', NEW c \in Callers, NEW g \in Symbols,
           Allocate(c, g)
    PROVE  NearAt(f)'
  <1>1. /\ UNCHANGED <<pool, code, cached, stores, loc, cold>>
        /\ pc[c] = "idle" /\ calls' = [calls EXCEPT ![g] = @ + 1]
        /\ calls[f] \in Nat /\ calls[g] \in Nat
    BY DEF Allocate, HookInv, Shape
  <1>2. Near(f)
    BY <1>1 DEF Near, Single, HookInv, Shape
  <1>3. NearAt(f)
    BY <1>2 DEF HookInv, NearInv
  <1>4. CASE g # f
    <2>1. old'[f] = old[f] /\ calls'[f] = calls[f]
      BY <1>1, <1>4 DEF Allocate, HookInv, Shape
    <2>2. \A d \in Callers : (pc'[d] # "idle" /\ sym'[d] = f)
              => pc[d] # "idle" /\ sym[d] = f /\ pc'[d] = pc[d] /\ row'[d] = row[d]
      BY <1>1, <1>4 DEF Allocate, HookInv, Shape
    <2>3. calls'[f] = 0 => ~Busy(f)' /\ Whole(f)'
      BY <1>1, <1>3, <2>1, <2>2 DEF NearAt, Busy, Whole
    <2>4. \A d \in Callers : (pc'[d] # "idle" /\ sym'[d] = f) =>
             /\ old'[f] = row'[d]
             /\ pc'[d] # "fix" => Copied(row[d])
             /\ IF pc'[d] = "patch" THEN stores[d] \subseteq {{1}} ELSE Whole(f)
      BY <1>3, <2>1, <2>2 DEF NearAt
    <2> QED
      BY <1>1, <1>3, <2>1, <2>2, <2>3, <2>4 DEF NearAt, Whole, Copied
  <1>5. CASE g = f
    <2>1. calls[f] = 0 /\ calls'[f] = 1
      BY <1>1, <1>5 DEF Near, Single, HookInv, Shape
    <2>2. Whole(f) /\ Whole(f)' /\ \A d \in Callers : ~(pc[d] # "idle" /\ sym[d] = f)
      BY <1>1, <1>3, <2>1 DEF NearAt, Busy, Whole
    <2>3. \A d \in Callers : (pc'[d] # "idle" /\ sym'[d] = f)
              => d = c /\ pc'[d] = "fix" /\ old'[f] = row'[d]
      BY <1>1, <1>5, <2>2 DEF Allocate, HookInv, Shape
    <2> QED
      BY <1>1, <1>3, <2>1, <2>2, <2>3 DEF NearAt, Whole
  <1> QED
    BY <1>4, <1>5

\* The row is filled with the copy; those of other functions are other rows.
LEMMA FixNear ==
    ASSUME HookInv, NEW f \in Symbols, Near(f), NEW c \in Callers, Fix(c)
    PROVE  NearAt(f)'
  <1>1. NearAt(f)
    BY DEF HookInv, NearInv
  <1>2. /\ pc[c] = "fix" /\ pc' = [pc EXCEPT ![c] = "protect"]
        /\ row[c] \in Rows /\ pool[row[c]] = <<>>
        /\ pool' = [pool EXCEPT ![row[c]] = Copy(sym[c])]
        /\ UNCHANGED <<index, code, cached, old, sym, row, stores, calls, loc, cold>>
    BY DEF Fix, HookInv, Shape, PoolInv
  <1>3. \A r \in Rows : Copied(r) => r # row[c] /\ Copied(r)'
    <2>1. DOMAIN <<>> # {1}
      OBVIOUS
    <2> QED
      BY <1>2, <2>1 DEF Copied, HookInv, Shape
  <1>4. \A d \in Callers : pc'[d] # "idle" => /\ pc[d] # "idle" /\ row[d] \in Rows
                                              /\ d # c => pc'[d] = pc[d]
    BY <1>2 DEF HookInv, Shape
  <1>5. CASE sym[c] = f
    <2>1. Whole(f) /\ DOMAIN code[f] = {1}
      BY <1>1, <1>2, <1>5 DEF NearAt
    <2>2. Copied(row[c])'
      BY <1>2, <1>5, <2>1 DEF Copied, Copy, Whole, HookInv, Shape
    <2>3. pc'[c] = "protect"
      BY <1>2 DEF HookInv, Shape
    <2> QED
      BY <1>1, <1>2, <1>3, <1>4, <1>5, <2>1, <2>2, <2>3 DEF NearAt, Busy, Whole
  <1>6. CASE sym[c] # f
    BY <1>1, <1>2, <1>3, <1>4, <1>6 DEF NearAt, Busy, Whole
  <1> QED
    BY <1>5, <1>6

\* When mprotect fails the function is whole and nobody needs its old pointer.
LEMMA ProtectNear ==
    ASSUME HookInv, NEW f \in Symbols, Near(f), NEW c \in Callers, Protect(c)
    PROVE  NearAt(f)'
  <1>1. NearAt(f)
    BY DEF HookInv, NearInv
  <1>2. /\ pc[c] = "protect" /\ sym[c] \in Symbols
        /\ \A d \in Callers : d # c => pc'[d] = pc[d] /\ stores'[d] = stores[d]
        /\ UNCHANGED <<pool, code, cached, sym, row, calls, loc, cold>>
        /\ \A g \in Symbols : g # sym[c] => old'[g] = old[g]
    BY DEF Protect, HookInv, Shape
  <1>3. CASE sym[c] = f
    <2>1. /\ Whole(f) /\ Copied(row[c]) /\ old[f] = row[c]
          /\ \A d \in Callers : (pc[d] # "idle" /\ sym[d] = f) => d = c
      BY <1>1, <1>2, <1>3 DEF NearAt
    <2>2. \/ pc'[c] = "patch" /\ stores'[c] \subseteq {{1}} /\ old'[f] = old[f]
          \/ pc'[c] = "idle"
      BY <1>2, <1>3, NearOne DEF Protect, Near, HookInv, Shape
    <2> QED
      BY <1>1, <1>2, <1>3, <2>1, <2>2 DEF NearAt, Busy, Whole, Copied
  <1>4. CASE sym[c] # f
    <2>1. old'[f] = old[f]
      BY <1>2, <1>4
    <2>2. \A d \in Callers : (pc'[d] # "idle" /\ sym[d] = f) => d # c
      BY <1>4
    <2> QED
      BY <1>1, <1>2, <1>4, <2>1, <2>2 DEF NearAt, Busy, Whole, Copied
  <1> QED
    BY <1>3, <1>4

\* The single store, and the flush, find the row filled.
LEMMA PatchNear ==
    ASSUME HookInv, NEW f \in Symbols, Near(f), NEW c \in Callers, Patch(c)
    PROVE  NearAt(f)'
  <1>1. NearAt(f)
    BY DEF HookInv, NearInv
  <1>2. /\ pc[c] = "patch" /\ sym[c] \in Symbols /\ row[c] \in Rows
        /\ \A d \in Callers : d # c => stores'[d] = stores[d]
        /\ stores'[c] \subseteq stores[c]
        /\ UNCHANGED <<pool, cached, old, pc, sym, row, calls, loc, cold>>
        /\ \A g \in Symbols : g # sym[c] => code'[g] = code[g]
    BY DEF Patch, HookInv, Shape
  <1>3. CASE sym[c] = f
    <2>1. PICK s \in stores[c] :
             code'[f] = [k \in DOMAIN code[f] |-> IF k \in s THEN PatchOf(f)[k] ELSE code[f][k]]
      BY <1>3 DEF Patch, HookInv, Shape
    <2>2. /\ stores[c] \subseteq {{1}} /\ old[f] = row[c] /\ Copied(row[c])
          /\ DOMAIN code[f] = {1}
          /\ \A d \in Callers : (pc[d] # "idle" /\ sym[d] = f) => d = c
      BY <1>1, <1>2, <1>3 DEF NearAt
    <2>3. DOMAIN code'[f] = {1} /\ code'[f][1] = "b"
      BY <2>1, <2>2, NearOne DEF Near
    <2> QED
      BY <1>1, <1>2, <1>3, <2>2, <2>3 DEF NearAt, Busy, Whole, Copied
  <1>4. CASE sym[c] # f
    <2>1. \A d \in Callers : sym[d] = f => d # c
      BY <1>4
    <2> QED
      BY <1>1, <1>2, <1>4, <2>1 DEF NearAt, Busy, Whole, Copied
  <1> QED
    BY <1>3, <1>4

LEMMA FlushNear ==
    ASSUME HookInv, NEW f \in Symbols, Near(f), NEW c \in Callers, Flush(c)
    PROVE  NearAt(f)'
  <1>1. NearAt(f)
    BY DEF HookInv, NearInv
  <1>2. /\ pc[c] = "patch" /\ sym[c] \in Symbols
        /\ pc' = [pc EXCEPT ![c] = "idle"]
        /\ UNCHANGED <<pool, code, old, sym, row, stores, calls, loc, cold>>
        /\ cached'[f] = IF sym[c] = f THEN code[f] ELSE cached[f]
    BY DEF Flush, HookInv, Shape
  <1>3. \A d \in Callers : pc'[d] # "idle" => d # c /\ pc'[d] = pc[d] /\ pc[d] # "idle"
    BY <1>2 DEF HookInv, Shape
  <1>4. CASE sym[c] = f
    <2>1. /\ old[f] = row[c] /\ Copied(row[c]) /\ row[c] \in Rows
          /\ \A d \in Callers : (pc[d] # "idle" /\ sym[d] = f) => d = c
      BY <1>1, <1>2, <1>4 DEF NearAt, HookInv, Shape
    <2>2. \A t \in Threads : (loc[t].fun = f /\ loc[t].at \in {"new", "row"}) => ~Whole(f)'
      <3>1. Whole(f)' => Whole(f)
        BY <1>1, <1>2, <1>4 DEF NearAt, Whole
      <3> QED
        BY <1>1, <3>1 DEF NearAt
    <2> QED
      BY <1>1, <1>2, <1>3, <1>4, <2>1, <2>2 DEF NearAt, Busy, Whole, Copied
  <1>5. CASE sym[c] # f
    BY <1>1, <1>2, <1>3, <1>5 DEF NearAt, Busy, Whole, Copied
  <1> QED
    BY <1>4, <1>5

-----------------------------------------------------------------------------
\* The word of a near patch, and the one it replaces, executed from the start.
LEMMA AfterNear ==
    ASSUME NEW l, Placed(l), l.word = 1, Patched[l.fun] = 1, NEW w
    PROVE  /\ w = "own" => After(l, w) = Out
           /\ w = "b" => After(l, w) = New(l.fun)
  <1>1. ~(l.word < Patched[l.fun])
    OBVIOUS
  <1>2. CASE w = "own"
    BY <1>1, <1>2 DEF After
  <1>3. CASE w = "b"
    BY <1>3 DEF After
  <1> QED
    BY <1>2, <1>3

\* Threads of f fetch the old word or the branch, and find the copy behind it.
LEMMA ThreadNear ==
    ASSUME HookInv, NEW f \in Symbols, Near(f), NEW t \in Threads, Enter(t) \/ Run(t)
    PROVE  NearAt(f)'
  <1> DEFINE l == loc[t]
  <1>1. NearAt(f) /\ Patched[f] = 1 /\ Placed(l) /\ f # NoSymbol
    BY DEF HookInv, NearInv, Near, Shape
  <1>2. UNCHANGED <<pool, code, cached, old, pc, sym, row, stores, calls>>
    BY DEF Enter, Run, Fetch, CallOld, FetchCopy, memory, caller
  <1>3. Whole(f)' <=> Whole(f)
    BY <1>2 DEF Whole
  <1> DEFINE Good(m) == /\ m.at = "lost" => t \in cold'
                        /\ m.at \in {"code", "row"} => m.word = 1
                        /\ m.at = "row" => m.row = old[f]
                        /\ m.at \in {"new", "row"} => ~Whole(f)
  <1>4. SUFFICES ASSUME NEW m, loc' = [loc EXCEPT ![t] = m], m.fun = f
                 PROVE  Good(m)
    <2>1. PICK m : loc' = [loc EXCEPT ![t] = m]
      BY DEF Enter, Run, Fetch, CallOld, FetchCopy
    <2>2. \A u \in Threads : loc[u].fun = f =>
             /\ loc[u].at = "lost" => u \in cold'
             /\ loc[u].at \in {"code", "row"} => loc[u].word = 1
             /\ loc[u].at = "row" => loc[u].row = old[f]
             /\ loc[u].at \in {"new", "row"} => ~Whole(f)
      <3>1. cold \subseteq cold'
        BY DEF Enter, Run, Fetch, CallOld, FetchCopy
      <3> QED
        BY <1>1, <3>1 DEF NearAt
    <2>3. \A u \in Threads : loc'[u] = IF u = t THEN m ELSE loc[u]
      BY <2>1 DEF HookInv, Shape
    <2>4. m.fun = f => Good(m)
      BY <2>1, <1>4
    <2>5. \A u \in Threads : loc'[u].fun = f =>
             /\ loc'[u].at = "lost" => u \in cold'
             /\ loc'[u].at \in {"code", "row"} => loc'[u].word = 1
             /\ loc'[u].at = "row" => loc'[u].row = old[f]
             /\ loc'[u].at \in {"new", "row"} => ~Whole(f)
      BY <2>2, <2>3, <2>4
    <2>6. \A u \in Threads : loc'[u].fun = f =>
             /\ loc'[u].at = "lost" => u \in cold'
             /\ loc'[u].at \in {"code", "row"} => loc'[u].word = 1
             /\ loc'[u].at = "row" => loc'[u].row = old'[f]
             /\ loc'[u].at \in {"new", "row"} => ~Whole(f)'
      BY <2>5, <1>2, <1>3
    <2> QED
      BY <1>1, <1>2, <1>3, <2>6 DEF NearAt, Busy, Copied
  <1>5. m = loc'[t]
    BY <1>4 DEF HookInv, Shape
  <1>6. CASE Enter(t)
    BY <1>4, <1>5, <1>6, AtPlaces DEF Enter, First, HookInv, Shape
  <1>7. CASE Fetch(t)
    <2>1. PICK w \in {code[l.fun][l.word], cached[l.fun][l.word]} : m = After(l, w)
      BY <1>5, <1>7 DEF Fetch, HookInv, Shape
    <2>2. l.fun = f
      BY <1>1, <1>4, <2>1, AfterPlaces, AtPlaces DEF Out
    <2>3. l.word = 1 /\ w \in {"own", "b"} /\ (w = "b" => ~Whole(f))
      BY <1>1, <1>7, <2>1, <2>2 DEF Fetch, NearAt, Whole
    <2>4. m = Out \/ (m = New(f) /\ ~Whole(f))
      BY <1>1, <2>1, <2>2, <2>3, AfterNear
    <2> QED
      BY <2>4, AtPlaces DEF Out, New
  <1>8. CASE CallOld(t)
    <2>1. m = IF old[l.fun] = NULL THEN Lost(l.fun) ELSE At("row", l.fun, 1, old[l.fun], "own")
      BY <1>5, <1>8 DEF CallOld, HookInv, Shape
    <2>2. l.fun = f
      BY <1>4, <2>1, AtPlaces DEF Lost
    <2>3. ~Whole(f) /\ old[f] \in Rows
      BY <1>1, <1>8, <2>2 DEF CallOld, NearAt
    <2>4. m = At("row", f, 1, old[f], "own")
      BY <2>1, <2>2, <2>3 DEF Rows, NULL
    <2> QED
      BY <2>3, <2>4, AtPlaces
  <1>9. CASE FetchCopy(t)
    <2>1. \/ m = IF l.word \notin DOMAIN pool[l.row] THEN Lost(l.fun)
                 ELSE After(l, pool[l.row][l.word])
          \/ m = Lost(l.fun) /\ t \in cold'
      BY <1>5, <1>9 DEF FetchCopy, HookInv, Shape
    <2>2. CASE m = Lost(l.fun) /\ t \in cold'
      BY <2>2, AtPlaces DEF Lost
    <2>3. CASE m = IF l.word \notin DOMAIN pool[l.row] THEN Lost(l.fun)
                   ELSE After(l, pool[l.row][l.word])
      <3>1. l.fun = f
        BY <1>1, <1>4, <2>3, AfterPlaces, AtPlaces DEF Lost, Out
      <3>2. l.word = 1 /\ l.row = old[f] /\ Copied(old[f])
        BY <1>1, <1>9, <3>1 DEF FetchCopy, NearAt
      <3>3. m = After(l, "own")
        BY <2>3, <3>2 DEF Copied
      <3> QED
        BY <1>1, <3>1, <3>2, <3>3, AfterNear, AtPlaces DEF Out
    <2> QED
      BY <2>1, <2>2, <2>3
  <1> QED
    BY <1>6, <1>7, <1>8, <1>9 DEF Run

LEMMA StepNear ==
    ASSUME HookInv, [Next]_vars
    PROVE  NearInv'
  <1> SUFFICES ASSUME NEW f \in Symbols, Near(f)'
               PROVE  NearAt(f)'
    BY DEF NearInv
  <1>1. ASSUME NEW c \in Callers, NEW g \in Symbols, Allocate(c, g)
        PROVE  NearAt(f)'
    BY <1>1, AllocateNear
  <1>2. ASSUME NEW c \in Callers, Fix(c) \/ Protect(c) \/ Patch(c) \/ Flush(c)
        PROVE  NearAt(f)'
    <2>1. Near(f)
      BY <1>2 DEF Near, Single, Fix, Protect, Patch, Flush
    <2> QED
      BY <1>2, <2>1, FixNear, ProtectNear, PatchNear, FlushNear
  <1>3. ASSUME NEW t \in Threads, Enter(t) \/ Run(t)
        PROVE  NearAt(f)'
    <2>1. Near(f)
      BY <1>3 DEF Near, Single, Enter, Run, Fetch, CallOld, FetchCopy
    <2> QED
      BY <1>3, <2>1, ThreadNear
  <1>4. CASE UNCHANGED vars
    <2>1. Near(f) /\ UNCHANGED <<pool, code, cached, old, pc, sym, row, stores, calls, loc, cold>>
      BY <1>4 DEF vars, memory, caller, Near, Single
    <2> QED
      BY <2>1 DEF HookInv, NearInv, NearAt, Busy, Whole, Copied
  <1> QED
    BY <1>1, <1>2, <1>3, <1>4 DEF Next, Call

LEMMA StepHook ==
    ASSUME HookInv, [Next]_vars
    PROVE  HookInv'
  BY StepShape, StepPool, StepNear DEF HookInv

\* Type and ownership facts of every state: rows are filled once, by the
\* caller that took them, and a near hook is whole until its row is filled
\* (And64InlineHook.cpp:510-521, 558-572).
THEOREM HookInvariant == Spec => []HookInv
  BY InitHook, StepHook, PTL DEF Spec

\* A prologue keeps its length, a row is empty or the whole copy of one, and a
\* call's stores are those of its function's patch, for any number of callers,
\* functions, calls and rows (And64InlineHook.cpp:494-596).
THEOREM TypeCorrect == Spec => []TypeOK
  <1>1. Init => TypeInv
    BY InitType DEF TypeInv, Stored, Init
  <1>2. TypeInv /\ HookInv /\ [Next]_vars => TypeInv'
    BY StepType, StepStored DEF HookInv, TypeInv
  <1>3. TypeInv => TypeOK
    BY DEF TypeInv
  <1> QED
    BY <1>1, <1>2, <1>3, HookInvariant, PTL DEF Spec

\* A trampoline is never written again, for any number of rows, calls and
\* functions (And64InlineHook.cpp:510-521, 563, 593).
THEOREM RowsKept == Spec => RowKept
  <1>1. HookInv /\ [Next]_vars => [\A r \in Rows : pool[r] # <<>> => pool'[r] = pool[r]]_vars
    BY StepPool DEF HookInv
  <1> QED
    BY <1>1, HookInvariant, PTL DEF Spec, RowKept

\* Hooking a function once by a branch in reach harms no thread, however many
\* there are and wherever they are, but those that execute the trampoline as it
\* was before it was filled (And64InlineHook.cpp:558-572).
THEOREM NearSafe == Spec => []NearIsSafe
  <1>1. HookInv => NearIsSafe
    BY DEF HookInv, NearInv, Near, NearAt, NearIsSafe
  <1> QED
    BY <1>1, HookInvariant, PTL

-----------------------------------------------------------------------------
(* The patch and its stores *)

\* The words of f of which some stores are still missing.
Partly(f, missing) ==
    [k \in 1 .. Patched[f] |->
        IF \E s \in StoresOf(f) \ missing : k \in s THEN PatchOf(f)[k] ELSE "own"]

\* The patch covers its words and leaves none as it was
\* (And64InlineHook.cpp:542-550, 568).
LEMMA PatchWords ==
    ASSUME NEW f \in Symbols
    PROVE  /\ Patched[f] \in {1, 4, 5}
           /\ PatchOf(f) \in [1 .. Patched[f] -> Words \ {"own"}]
           /\ PatchOf(f)[1] \in {"nop", "ldr", "b"}
           /\ PatchOf(f)[Patched[f]] \in {"b", "addr"}
  <1>1. CASE Patched[f] = 1
    <2>1. PatchOf(f) = <<"b">>
      BY <1>1 DEF PatchOf
    <2> QED
      BY <1>1, <2>1 DEF Words
  <1>2. CASE Patched[f] = 4
    <2>1. PatchOf(f) = <<"ldr", "br", "addr", "addr">>
      BY <1>2 DEF PatchOf
    <2> QED
      BY <1>2, <2>1 DEF Words
  <1>3. CASE Patched[f] = 5
    <2>1. PatchOf(f) = <<"nop", "ldr", "br", "addr", "addr">>
      BY <1>3 DEF PatchOf
    <2> QED
      BY <1>3, <2>1 DEF Words
  <1> QED
    BY <1>1, <1>2, <1>3

\* Every store writes words of the patch, and every word is stored.
LEMMA StoresCover ==
    ASSUME NEW f \in Symbols
    PROVE  /\ \A s \in StoresOf(f) : s # {} /\ s \subseteq 1 .. Patched[f]
           /\ \A k \in 1 .. Patched[f] : \E s \in StoresOf(f) : k \in s
  <1> DEFINE data == {k \in 1 .. Patched[f] : PatchOf(f)[k] = "addr"}
             single == {{k} : k \in (1 .. Patched[f]) \ data}
  <1>1. StoresOf(f) = single \cup ({data} \ {{}})
    BY DEF StoresOf
  <1>2. ASSUME NEW k \in 1 .. Patched[f]
        PROVE  \E s \in StoresOf(f) : k \in s
    <2>1. CASE k \in data
      <3>1. data \in StoresOf(f)
        BY <1>1, <2>1
      <3> QED
        BY <2>1, <3>1
    <2>2. CASE k \notin data
      <3>1. {k} \in StoresOf(f)
        BY <1>1, <2>2
      <3> QED
        BY <3>1
    <2> QED
      BY <2>1, <2>2
  <1>3. ASSUME NEW s \in StoresOf(f)
        PROVE  s # {} /\ s \subseteq 1 .. Patched[f]
    <2>1. (s = data /\ data # {}) \/ \E k \in 1 .. Patched[f] : s = {k}
      BY <1>1
    <2> QED
      BY <2>1
  <1> QED
    BY <1>2, <1>3

\* No store is there, all are, or one more is.
LEMMA PartlyPatched ==
    ASSUME NEW f \in Symbols
    PROVE  /\ Partly(f, StoresOf(f)) = Original(f)
           /\ Partly(f, {}) = PatchOf(f)
           /\ \A missing \in SUBSET StoresOf(f), s \in StoresOf(f) :
                 [k \in DOMAIN Partly(f, missing) |->
                     IF k \in s THEN PatchOf(f)[k] ELSE Partly(f, missing)[k]]
                   = Partly(f, missing \ {s})
           /\ \A missing \in SUBSET StoresOf(f) :
                 Partly(f, missing) = Original(f) => missing = StoresOf(f)
           /\ PatchOf(f) # Original(f)
  <1>1. Partly(f, StoresOf(f)) = Original(f)
    BY DEF Partly, Original
  <1>2. Partly(f, {}) = PatchOf(f)
    <2>1. Partly(f, {}) = [k \in 1 .. Patched[f] |-> PatchOf(f)[k]]
      BY StoresCover DEF Partly
    <2> QED
      BY <2>1, PatchWords
  <1>3. ASSUME NEW missing \in SUBSET StoresOf(f), NEW s \in StoresOf(f)
        PROVE  [k \in DOMAIN Partly(f, missing) |->
                   IF k \in s THEN PatchOf(f)[k] ELSE Partly(f, missing)[k]]
                 = Partly(f, missing \ {s})
    <2>1. ASSUME NEW k \in 1 .. Patched[f]
          PROVE  (\E r \in StoresOf(f) \ (missing \ {s}) : k \in r)
                    <=> (k \in s \/ \E r \in StoresOf(f) \ missing : k \in r)
      BY <1>3
    <2> QED
      BY <2>1 DEF Partly
  <1>4. ASSUME NEW missing \in SUBSET StoresOf(f), missing # StoresOf(f)
        PROVE  Partly(f, missing) # Original(f)
    <2>1. PICK s \in StoresOf(f) \ missing : TRUE
      BY <1>4
    <2>2. PICK k \in 1 .. Patched[f] : k \in s
      BY <2>1, StoresCover
    <2>3. Partly(f, missing)[k] = PatchOf(f)[k] /\ Original(f)[k] = "own"
      BY <2>1, <2>2 DEF Partly, Original
    <2> QED
      BY <2>2, <2>3, PatchWords
  <1>5. PatchOf(f) # Original(f)
    <2>1. StoresOf(f) # {}
      BY StoresCover, PatchWords
    <2> QED
      BY <1>2, <1>4, <2>1
  <1> QED
    BY <1>1, <1>2, <1>3, <1>4, <1>5

-----------------------------------------------------------------------------
(* The invariants *)

\* Nothing of the patch is visible; all of it is, in memory and in the cache.
Fresh(f)  == code[f] = Original(f) /\ cached[f] = Original(f)
Hooked(f) == code[f] = PatchOf(f) /\ cached[f] = PatchOf(f)

Working(c, f) == pc[c] # "idle" /\ sym[c] = f

\* The one call for f: the old pointer is its row, the row is filled before
\* the first store, and the cache is stale until the flush
\* (And64InlineHook.cpp:542-596).
CallAt(f) ==
    /\ calls[f] = 0 => ~Busy(f) /\ Fresh(f) /\ old[f] = NULL
    /\ \A c, d \in Callers : Working(c, f) /\ Working(d, f) => c = d
    /\ \A c \in Callers : Working(c, f) =>
          /\ old[f] = row[c]
          /\ cached[f] = Original(f)
          /\ pc[c] # "fix" => pool[row[c]] = Original(f)
          /\ IF pc[c] = "patch"
               THEN stores[c] \subseteq StoresOf(f) /\ code[f] = Partly(f, stores[c])
               ELSE code[f] = Original(f)
    /\ \/ Busy(f)
       \/ Fresh(f) /\ old[f] = NULL
       \/ Hooked(f) /\ old[f] \in Rows /\ pool[old[f]] = Original(f)

\* A thread in the finished patch has the replacement's address when it needs it.
OnPath(f, l) ==
    /\ PatchOf(f)[l.word] # "addr"
    /\ PatchOf(f)[l.word] = "br" => l.x17 = "new"

\* Where a thread of f can be that was not inside while the patch was written.
Sound(f, l) ==
    /\ l.at # "lost"
    /\ l.at \in {"code", "row"} => l.word \in 1 .. Patched[f]
    /\ l.at = "code" => l.word = 1 \/ Fresh(f) \/ (Hooked(f) /\ OnPath(f, l))
    /\ l.at \in {"new", "row"} => code[f] # Original(f)
    /\ l.at = "row" => l.row = old[f]

\* Every thread of f that was not exposed is where the finished patch leads it.
ThreadAt(f) ==
    \A t \in Threads :
        loc[t].fun = f /\ t \notin exposed \cup cold => Sound(f, loc[t])

FunInv == \A t \in Threads : loc[t].at # "out" => loc[t].fun \in Symbols

OnceInv  == \A f \in Symbols : Single(f) => CallAt(f) /\ ThreadAt(f)
PatchInv == HookInv /\ FunInv /\ OnceInv

\* Nobody has called yet.
LEMMA InitPatch == Init => PatchInv
  <1> SUFFICES ASSUME Init PROVE FunInv /\ OnceInv
    BY InitHook DEF PatchInv
  <1>1. \A t \in Threads : loc[t].at = "out"
    BY DEF Init, Out, At
  <1>2. \A f \in Symbols : Fresh(f) /\ old[f] = NULL
    BY DEF Init, Fresh
  <1>3. \A c \in Callers : pc[c] = "idle"
    BY DEF Init
  <1> QED
    BY <1>1, <1>2, <1>3 DEF FunInv, OnceInv, CallAt, ThreadAt, Sound, Busy, Working

\* Once the first store is there, the old pointer leads to the copy.
LEMMA CopyBehind ==
    ASSUME HookInv, NEW f \in Symbols, CallAt(f), code[f] # Original(f)
    PROVE  old[f] \in Rows /\ pool[old[f]] = Original(f)
  <1>1. CASE Busy(f)
    <2>1. PICK c \in Callers : Working(c, f)
      BY <1>1 DEF Busy, Working
    <2>2. pc[c] = "patch" /\ old[f] = row[c] /\ pool[row[c]] = Original(f)
      BY <2>1 DEF CallAt
    <2> QED
      BY <2>1, <2>2 DEF HookInv, Shape, Working
  <1>2. CASE ~Busy(f)
    BY <1>2 DEF CallAt, Fresh
  <1> QED
    BY <1>1, <1>2

-----------------------------------------------------------------------------
(* The steps of callers *)

\* The one call for f begins, or another function's.
LEMMA AllocateOnce ==
    ASSUME PatchInv, NEW f \in Symbols, Single(f)', NEW c \in Callers, NEW g \in Symbols,
           Allocate(c, g)
    PROVE  CallAt(f)' /\ ThreadAt(f)'
  <1>1. /\ UNCHANGED <<pool, code, cached, stores, loc, exposed, cold>>
        /\ pc[c] = "idle" /\ calls' = [calls EXCEPT ![g] = @ + 1]
        /\ calls[f] \in Nat /\ calls[g] \in Nat
    BY DEF Allocate, PatchInv, HookInv, Shape
  <1>2. Single(f)
    BY <1>1 DEF Single, PatchInv, HookInv, Shape
  <1>3. CallAt(f) /\ ThreadAt(f)
    BY <1>2 DEF PatchInv, OnceInv
  <1>4. CASE g # f
    <2>1. old'[f] = old[f] /\ calls'[f] = calls[f]
      BY <1>1, <1>4 DEF Allocate, PatchInv, HookInv, Shape
    <2>2. \A d \in Callers : /\ Working(d, f)' <=> Working(d, f)
                             /\ Working(d, f) => pc'[d] = pc[d] /\ row'[d] = row[d]
      BY <1>1, <1>4 DEF Allocate, PatchInv, HookInv, Shape, Working
    <2>3. Busy(f)' <=> Busy(f)
      BY <2>2 DEF Busy, Working
    <2>4. \A d \in Callers : Working(d, f)' =>
             /\ old'[f] = row'[d]
             /\ cached[f] = Original(f)
             /\ pc'[d] # "fix" => pool[row'[d]] = Original(f)
             /\ IF pc'[d] = "patch"
                  THEN stores[d] \subseteq StoresOf(f) /\ code[f] = Partly(f, stores[d])
                  ELSE code[f] = Original(f)
      BY <1>3, <2>1, <2>2 DEF CallAt
    <2>5. CallAt(f)'
      BY <1>1, <1>3, <2>1, <2>2, <2>3, <2>4 DEF CallAt, Fresh, Hooked, Partly
    <2> QED
      BY <1>1, <1>3, <2>1, <2>5 DEF ThreadAt, Sound, Fresh, Hooked
  <1>5. CASE g = f
    <2>1. calls[f] = 0 /\ calls'[f] = 1
      BY <1>1, <1>5 DEF Single, PatchInv, HookInv, Shape
    <2>2. Fresh(f) /\ \A d \in Callers : ~Working(d, f)
      BY <1>3, <2>1 DEF CallAt, Busy, Working
    <2>3. \A d \in Callers : Working(d, f)' => d = c /\ pc'[d] = "fix" /\ old'[f] = row'[d]
      BY <1>1, <1>5, <2>2 DEF Allocate, PatchInv, HookInv, Shape, Working
    <2>4. Busy(f)' \/ old'[f] = NULL
      BY <1>1, <1>5 DEF Allocate, Busy, PatchInv, HookInv, Shape
    <2>5. CallAt(f)'
      BY <1>1, <2>1, <2>2, <2>3, <2>4 DEF CallAt, Fresh
    <2>6. ThreadAt(f)'
      BY <1>1, <1>3, <2>2 DEF ThreadAt, Sound, Fresh
    <2> QED
      BY <2>5, <2>6
  <1> QED
    BY <1>4, <1>5

\* The copy is made of the function as it was; other rows stay as they are.
LEMMA FixOnce ==
    ASSUME PatchInv, NEW f \in Symbols, Single(f), NEW c \in Callers, Fix(c)
    PROVE  CallAt(f)' /\ ThreadAt(f)'
  <1>1. CallAt(f) /\ ThreadAt(f)
    BY DEF PatchInv, OnceInv
  <1>2. /\ pc[c] = "fix" /\ pc' = [pc EXCEPT ![c] = "protect"]
        /\ row[c] \in Rows /\ pool[row[c]] = <<>>
        /\ pool' = [pool EXCEPT ![row[c]] = Copy(sym[c])]
        /\ UNCHANGED <<index, code, cached, old, sym, row, stores, calls, loc, exposed, cold>>
    BY DEF Fix, PatchInv, HookInv, Shape, PoolInv
  <1>3. <<>> # Original(f)
    BY PatchWords DEF Original
  <1>4. \A r \in Rows : pool[r] = Original(f) => pool'[r] = Original(f)
    BY <1>2, <1>3 DEF PatchInv, HookInv, Shape
  <1>5. \A d \in Callers : /\ Working(d, f)' <=> Working(d, f)
                           /\ pc'[d] = IF d = c THEN "protect" ELSE pc[d]
                           /\ Working(d, f) => row[d] \in Rows
    BY <1>2 DEF PatchInv, HookInv, Shape, Working
  <1>6. Busy(f)' <=> Busy(f)
    BY <1>5 DEF Busy, Working
  <1>7. sym[c] = f => pool'[row[c]] = Original(f)
    <2>1. sym[c] = f => code[f] = Original(f)
      BY <1>1, <1>2 DEF CallAt, Working
    <2>2. code[f] = Original(f) => Copy(f) = Original(f)
      BY DEF Copy, Original
    <2> QED
      BY <1>2, <2>1, <2>2 DEF PatchInv, HookInv, Shape
  <1>8. \A d \in Callers : Working(d, f)' =>
           /\ old[f] = row[d]
           /\ cached[f] = Original(f)
           /\ pc'[d] # "fix" => pool'[row[d]] = Original(f)
           /\ IF pc'[d] = "patch"
                THEN stores[d] \subseteq StoresOf(f) /\ code[f] = Partly(f, stores[d])
                ELSE code[f] = Original(f)
    <2> SUFFICES ASSUME NEW d \in Callers, Working(d, f)
                 PROVE  /\ old[f] = row[d]
                        /\ cached[f] = Original(f)
                        /\ pc'[d] # "fix" => pool'[row[d]] = Original(f)
                        /\ IF pc'[d] = "patch"
                             THEN stores[d] \subseteq StoresOf(f) /\ code[f] = Partly(f, stores[d])
                             ELSE code[f] = Original(f)
      BY <1>5
    <2>1. CASE d = c
      BY <1>1, <1>2, <1>5, <1>7, <2>1 DEF CallAt, Working
    <2>2. CASE d # c
      <3>1. pc'[d] = pc[d] /\ row[d] \in Rows
        BY <1>5, <2>2
      <3> QED
        BY <1>1, <1>4, <3>1 DEF CallAt
    <2> QED
      BY <2>1, <2>2
  <1>9. CallAt(f)'
    BY <1>1, <1>2, <1>4, <1>5, <1>6, <1>8 DEF CallAt, Fresh, Hooked, Partly
  <1>10. ThreadAt(f)'
    BY <1>1, <1>2 DEF ThreadAt, Sound, Fresh, Hooked
  <1> QED
    BY <1>9, <1>10

\* When mprotect fails the function is as it was, and nobody needs its old pointer.
LEMMA ProtectOnce ==
    ASSUME PatchInv, NEW f \in Symbols, Single(f), NEW c \in Callers, Protect(c)
    PROVE  CallAt(f)' /\ ThreadAt(f)'
  <1>1. CallAt(f) /\ ThreadAt(f)
    BY DEF PatchInv, OnceInv
  <1>2. /\ pc[c] = "protect" /\ sym[c] \in Symbols
        /\ \A d \in Callers : d # c => pc'[d] = pc[d] /\ stores'[d] = stores[d]
        /\ UNCHANGED <<pool, code, cached, sym, row, calls, loc, exposed, cold>>
        /\ \A g \in Symbols : g # sym[c] => old'[g] = old[g]
    BY DEF Protect, PatchInv, HookInv, Shape
  <1>3. CASE sym[c] = f
    <2>1. /\ Working(c, f) /\ Fresh(f) /\ old[f] = row[c] /\ pool[row[c]] = Original(f)
          /\ \A d \in Callers : Working(d, f) => d = c
          /\ calls[f] # 0
      BY <1>1, <1>2, <1>3 DEF CallAt, Working, Fresh, Busy
    <2>2. \/ pc'[c] = "patch" /\ stores'[c] = StoresOf(f) /\ old'[f] = old[f]
          \/ pc'[c] = "idle" /\ old'[f] = NULL
      BY <1>2, <1>3 DEF Protect, PatchInv, HookInv, Shape
    <2>3. \A d \in Callers : Working(d, f)' => d = c /\ pc'[c] = "patch"
      BY <1>2, <2>1, <2>2 DEF Working
    <2>4. Busy(f)' \/ (pc'[c] = "idle" /\ old'[f] = NULL)
      BY <1>2, <1>3, <2>2 DEF Busy
    <2>5. code[f] = Partly(f, StoresOf(f))
      BY <2>1, PartlyPatched DEF Fresh
    <2>6. \A d \in Callers : Working(d, f)' =>
             /\ old'[f] = row[d]
             /\ cached[f] = Original(f)
             /\ pool[row[d]] = Original(f)
             /\ pc'[d] = "patch" /\ stores'[d] \subseteq StoresOf(f)
             /\ code[f] = Partly(f, stores'[d])
      BY <2>1, <2>2, <2>3, <2>5 DEF Fresh
    <2>7. CallAt(f)'
      BY <1>2, <2>1, <2>3, <2>4, <2>6 DEF CallAt, Fresh, Partly
    <2>8. ThreadAt(f)'
      BY <1>1, <1>2, <2>1 DEF ThreadAt, Sound, Fresh
    <2> QED
      BY <2>7, <2>8
  <1>4. CASE sym[c] # f
    <2>1. old'[f] = old[f]
      BY <1>2, <1>4
    <2>2. \A d \in Callers : /\ Working(d, f)' <=> Working(d, f)
                             /\ Working(d, f) => pc'[d] = pc[d] /\ stores'[d] = stores[d]
      BY <1>2, <1>4 DEF Working
    <2>3. Busy(f)' <=> Busy(f)
      BY <2>2 DEF Busy, Working
    <2>4. \A d \in Callers : Working(d, f)' =>
             /\ old'[f] = row[d]
             /\ cached[f] = Original(f)
             /\ pc'[d] # "fix" => pool[row[d]] = Original(f)
             /\ IF pc'[d] = "patch"
                  THEN stores'[d] \subseteq StoresOf(f) /\ code[f] = Partly(f, stores'[d])
                  ELSE code[f] = Original(f)
      BY <1>1, <2>1, <2>2 DEF CallAt
    <2>5. CallAt(f)'
      BY <1>1, <1>2, <2>1, <2>2, <2>3, <2>4 DEF CallAt, Fresh, Hooked, Partly
    <2>6. ThreadAt(f)'
      BY <1>1, <1>2, <2>1 DEF ThreadAt, Sound, Fresh, Hooked
    <2> QED
      BY <2>5, <2>6
  <1> QED
    BY <1>3, <1>4

\* A store: whoever is inside is exposed, whoever is at the beginning is not.
LEMMA PatchOnce ==
    ASSUME PatchInv, NEW f \in Symbols, Single(f), NEW c \in Callers, Patch(c)
    PROVE  CallAt(f)' /\ ThreadAt(f)'
  <1>1. CallAt(f) /\ ThreadAt(f)
    BY DEF PatchInv, OnceInv
  <1>2. /\ pc[c] = "patch" /\ sym[c] \in Symbols /\ row[c] \in Rows
        /\ \A d \in Callers : d # c => stores'[d] = stores[d]
        /\ UNCHANGED <<pool, cached, old, pc, sym, row, calls, loc, cold>>
        /\ \A g \in Symbols : g # sym[c] => code'[g] = code[g]
        /\ exposed' = exposed \cup Inside(sym[c])
    BY DEF Patch, PatchInv, HookInv, Shape
  <1>3. /\ \A d \in Callers : Working(d, f)' <=> Working(d, f)
        /\ Busy(f)' <=> Busy(f)
    BY <1>2 DEF Working, Busy
  <1>4. CASE sym[c] = f
    <2>1. PICK s \in stores[c] :
             /\ code'[f] = [k \in DOMAIN code[f] |-> IF k \in s THEN PatchOf(f)[k] ELSE code[f][k]]
             /\ stores'[c] = stores[c] \ {s}
      BY <1>4 DEF Patch, PatchInv, HookInv, Shape
    <2>2. /\ Working(c, f) /\ Busy(f)
          /\ stores[c] \subseteq StoresOf(f) /\ code[f] = Partly(f, stores[c])
          /\ cached[f] = Original(f) /\ old[f] = row[c] /\ pool[row[c]] = Original(f)
          /\ \A d \in Callers : Working(d, f) => d = c
          /\ calls[f] # 0
      BY <1>1, <1>2, <1>4 DEF CallAt, Working, Busy
    <2>3. /\ code'[f] = Partly(f, stores'[c])
          /\ stores'[c] \subseteq StoresOf(f) /\ stores'[c] # StoresOf(f)
      BY <2>1, <2>2, PartlyPatched
    <2>4. code'[f] # Original(f)
      BY <2>3, PartlyPatched
    <2>5. CallAt(f)'
      BY <1>2, <1>3, <2>2, <2>3 DEF CallAt, Partly
    <2>6. ASSUME NEW t \in Threads, loc[t].fun = f, t \notin exposed' \cup cold
          PROVE  Sound(f, loc[t])'
      <3>1. Sound(f, loc[t])
        BY <1>1, <1>2, <2>6 DEF ThreadAt
      <3>2. loc[t].at = "code" => loc[t].word = 1
        <4>1. loc[t].at = "code" => ~(loc[t].word > 1) /\ loc[t].word \in 1 .. Patched[f]
          BY <1>2, <1>4, <2>6, <3>1 DEF Inside, Sound
        <4> QED
          BY <4>1, PatchWords
      <3> QED
        BY <1>2, <2>4, <3>1, <3>2 DEF Sound
    <2>7. ThreadAt(f)'
      BY <1>2, <2>6 DEF ThreadAt
    <2> QED
      BY <2>5, <2>7
  <1>5. CASE sym[c] # f
    <2>1. code'[f] = code[f]
      BY <1>2, <1>5
    <2>2. \A d \in Callers : Working(d, f) => stores'[d] = stores[d]
      BY <1>2, <1>5 DEF Working
    <2>3. \A d \in Callers : Working(d, f)' =>
             /\ old[f] = row[d]
             /\ cached[f] = Original(f)
             /\ pc[d] # "fix" => pool[row[d]] = Original(f)
             /\ IF pc[d] = "patch"
                  THEN stores'[d] \subseteq StoresOf(f) /\ code[f] = Partly(f, stores'[d])
                  ELSE code[f] = Original(f)
      BY <1>1, <1>3, <2>2 DEF CallAt
    <2>4. CallAt(f)'
      BY <1>1, <1>2, <1>3, <2>1, <2>3 DEF CallAt, Fresh, Hooked, Partly
    <2>5. ThreadAt(f)'
      BY <1>1, <1>2, <2>1 DEF ThreadAt, Sound, Fresh, Hooked
    <2> QED
      BY <2>4, <2>5
  <1> QED
    BY <1>4, <1>5

\* Behind the last store the cache learns of the patch.
LEMMA FlushOnce ==
    ASSUME PatchInv, NEW f \in Symbols, Single(f), NEW c \in Callers, Flush(c)
    PROVE  CallAt(f)' /\ ThreadAt(f)'
  <1>1. CallAt(f) /\ ThreadAt(f)
    BY DEF PatchInv, OnceInv
  <1>2. /\ pc[c] = "patch" /\ stores[c] = {} /\ sym[c] \in Symbols /\ row[c] \in Rows
        /\ pc' = [pc EXCEPT ![c] = "idle"]
        /\ UNCHANGED <<pool, code, old, sym, row, stores, calls, loc, exposed, cold>>
        /\ cached'[f] = IF sym[c] = f THEN code[f] ELSE cached[f]
    BY DEF Flush, PatchInv, HookInv, Shape
  <1>3. \A d \in Callers : Working(d, f)' <=> Working(d, f) /\ d # c
    BY <1>2 DEF PatchInv, HookInv, Shape, Working
  <1>4. \A d \in Callers : d # c => pc'[d] = pc[d]
    BY <1>2 DEF PatchInv, HookInv, Shape
  <1>5. CASE sym[c] = f
    <2>1. /\ code[f] = PatchOf(f) /\ old[f] = row[c] /\ pool[row[c]] = Original(f)
          /\ \A d \in Callers : Working(d, f) => d = c
          /\ calls[f] # 0 /\ PatchOf(f) # Original(f)
      <3>1. Working(c, f) /\ Busy(f)
        BY <1>2, <1>5 DEF Working, Busy
      <3>2. code[f] = Partly(f, {}) /\ old[f] = row[c] /\ pool[row[c]] = Original(f)
        BY <1>1, <1>2, <3>1 DEF CallAt
      <3> QED
        BY <1>1, <3>1, <3>2, PartlyPatched DEF CallAt
    <2>2. \A d \in Callers : ~Working(d, f)'
      BY <1>3, <2>1
    <2>3. CallAt(f)'
      BY <1>2, <1>5, <2>1, <2>2 DEF CallAt, Hooked
    <2>4. ASSUME NEW t \in Threads, loc[t].fun = f, t \notin exposed \cup cold
          PROVE  Sound(f, loc[t])'
      <3>1. Sound(f, loc[t]) /\ ~Fresh(f)
        BY <1>1, <2>1, <2>4 DEF ThreadAt, Fresh
      <3>2. Hooked(f) => cached'[f] = PatchOf(f)
        BY <1>2, <2>1 DEF Hooked
      <3> QED
        BY <1>2, <2>1, <3>1, <3>2 DEF Sound, Hooked, OnPath
    <2>5. ThreadAt(f)'
      BY <1>2, <2>4 DEF ThreadAt
    <2> QED
      BY <2>3, <2>5
  <1>6. CASE sym[c] # f
    <2>1. cached'[f] = cached[f]
      BY <1>2, <1>6
    <2>2. /\ \A d \in Callers : Working(d, f)' <=> Working(d, f)
          /\ \A d \in Callers : Working(d, f) => pc'[d] = pc[d]
      BY <1>3, <1>4, <1>6 DEF Working
    <2>3. Busy(f)' <=> Busy(f)
      BY <2>2 DEF Busy, Working
    <2>4. \A d \in Callers : Working(d, f)' =>
             /\ old[f] = row[d]
             /\ cached[f] = Original(f)
             /\ pc'[d] # "fix" => pool[row[d]] = Original(f)
             /\ IF pc'[d] = "patch"
                  THEN stores[d] \subseteq StoresOf(f) /\ code[f] = Partly(f, stores[d])
                  ELSE code[f] = Original(f)
      BY <1>1, <2>2 DEF CallAt
    <2>5. CallAt(f)'
      BY <1>1, <1>2, <2>1, <2>2, <2>3, <2>4 DEF CallAt, Fresh, Hooked, Partly
    <2>6. ThreadAt(f)'
      BY <1>1, <1>2, <2>1 DEF ThreadAt, Sound, Fresh, Hooked
    <2> QED
      BY <2>5, <2>6
  <1> QED
    BY <1>5, <1>6

-----------------------------------------------------------------------------
(* The steps of the other threads *)

\* An original word leads to the next one, or outside.
LEMMA AfterOwn ==
    ASSUME NEW f \in Symbols, NEW l, Placed(l), l.fun = f, l.word \in 1 .. Patched[f]
    PROVE  \/ After(l, "own") = Out
           \/ /\ After(l, "own") = [l EXCEPT !.word = l.word + 1]
              /\ l.word + 1 \in 1 .. Patched[f]
  <1>1. CASE l.word < Patched[l.fun]
    BY <1>1, PatchWords DEF After
  <1>2. CASE ~(l.word < Patched[l.fun])
    BY <1>2 DEF After
  <1> QED
    BY <1>1, <1>2

\* The words of the finished patch lead from its first to the replacement.
LEMMA AfterPatch ==
    ASSUME NEW f \in Symbols, Hooked(f), NEW l, Placed(l), l.fun = f,
           l.word \in 1 .. Patched[f], OnPath(f, l)
    PROVE  LET m == After(l, PatchOf(f)[l.word])
           IN  \/ m = New(f)
               \/ m.at = l.at /\ m.word \in 1 .. Patched[f] /\ OnPath(f, m)
  <1>1. CASE Patched[f] = 1
    <2>1. PatchOf(f)[l.word] = "b"
      BY <1>1 DEF PatchOf
    <2> QED
      BY <2>1 DEF After
  <1>2. CASE Patched[f] = 4
    <2>1. PatchOf(f) = <<"ldr", "br", "addr", "addr">> /\ AddressIn(f)
      BY <1>2 DEF PatchOf, Hooked, AddressIn
    <2>2. CASE l.word = 1
      <3>1. After(l, PatchOf(f)[l.word]) = [[l EXCEPT !.word = 2] EXCEPT !.x17 = "new"]
        BY <2>1, <2>2 DEF After
      <3> DEFINE m == [[l EXCEPT !.word = 2] EXCEPT !.x17 = "new"]
      <3>2. m.at = l.at /\ m.word = 2 /\ m.x17 = "new"
        BY DEF Placed
      <3> HIDE DEF m
      <3>3. After(l, PatchOf(f)[l.word]) = m
        BY <3>1 DEF m
      <3> QED
        BY <1>2, <2>1, <3>2, <3>3 DEF OnPath
    <2>3. CASE l.word = 2
      BY <2>1, <2>3 DEF OnPath, After
    <2>4. l.word \in {1, 2}
      BY <1>2, <2>1 DEF OnPath
    <2> QED
      BY <2>2, <2>3, <2>4
  <1>3. CASE Patched[f] = 5
    <2>1. PatchOf(f) = <<"nop", "ldr", "br", "addr", "addr">> /\ AddressIn(f)
      BY <1>3 DEF PatchOf, Hooked, AddressIn
    <2>2. CASE l.word = 1
      <3>1. After(l, PatchOf(f)[l.word]) = [l EXCEPT !.word = 2]
        BY <1>3, <2>1, <2>2 DEF After
      <3> QED
        BY <1>3, <2>1, <3>1 DEF OnPath, Placed
    <2>3. CASE l.word = 2
      <3>1. After(l, PatchOf(f)[l.word]) = [[l EXCEPT !.word = 3] EXCEPT !.x17 = "new"]
        BY <2>1, <2>3 DEF After
      <3> DEFINE m == [[l EXCEPT !.word = 3] EXCEPT !.x17 = "new"]
      <3>2. m.at = l.at /\ m.word = 3 /\ m.x17 = "new"
        BY DEF Placed
      <3> HIDE DEF m
      <3>3. After(l, PatchOf(f)[l.word]) = m
        BY <3>1 DEF m
      <3> QED
        BY <1>3, <2>1, <3>2, <3>3 DEF OnPath
    <2>4. CASE l.word = 3
      BY <2>1, <2>4 DEF OnPath, After
    <2>5. l.word \in {1, 2, 3}
      BY <1>3, <2>1 DEF OnPath
    <2> QED
      BY <2>2, <2>3, <2>4, <2>5
  <1> QED
    BY <1>1, <1>2, <1>3, PatchWords

\* A thread that was not inside while the patch was written, and whose cache knows
\* the copy, goes on to where such a thread can be.
LEMMA ThreadOnce ==
    ASSUME PatchInv, NEW f \in Symbols, Single(f), NEW t \in Threads, Enter(t) \/ Run(t)
    PROVE  CallAt(f)' /\ ThreadAt(f)'
  <1> DEFINE l == loc[t]
  <1>1. /\ CallAt(f) /\ ThreadAt(f) /\ Placed(l) /\ f # NoSymbol
        /\ exposed \cup cold \subseteq exposed' \cup cold'
        /\ UNCHANGED <<pool, code, cached, old, pc, sym, row, stores, calls>>
    BY DEF PatchInv, HookInv, Shape, OnceInv, Enter, Run, Fetch, CallOld, FetchCopy, memory, caller
  <1>2. CallAt(f)'
    BY <1>1 DEF CallAt, Busy, Working, Fresh, Hooked, Partly
  <1>3. PICK m : loc' = [loc EXCEPT ![t] = m]
    BY DEF Enter, Run, Fetch, CallOld, FetchCopy
  <1>4. \A u \in Threads : loc'[u] = IF u = t THEN m ELSE loc[u]
    BY <1>3 DEF PatchInv, HookInv, Shape
  <1>5. ASSUME m.fun = f, t \notin exposed' \cup cold'
        PROVE  Sound(f, m)
    <2>1. t \notin exposed \cup cold /\ m = loc'[t]
      BY <1>1, <1>4, <1>5
    <2>2. l.fun = f => Sound(f, l)
      BY <1>1, <2>1 DEF ThreadAt
    <2>3. CASE Enter(t)
      <3>1. m = First(f)
        BY <1>5, <2>1, <2>3, AtPlaces DEF Enter, First, PatchInv, HookInv, Shape
      <3>2. 1 \in 1 .. Patched[f]
        BY PatchWords
      <3> QED
        BY <3>1, <3>2, AtPlaces DEF First, Sound
    <2>4. CASE Fetch(t)
      <3>1. PICK w \in {code[l.fun][l.word], cached[l.fun][l.word]} : m = After(l, w)
        BY <2>1, <2>4 DEF Fetch, PatchInv, HookInv, Shape
      <3>2. l.fun = f /\ l.at = "code" /\ l.word \in 1 .. Patched[f]
        <4>1. l.fun = f
          BY <1>1, <1>5, <3>1, AfterPlaces, AtPlaces DEF Out
        <4> QED
          BY <2>2, <2>4, <4>1 DEF Fetch, Sound
      <3>3. code[f] = cached[f]
        BY <1>5, <2>4, <3>2 DEF Fetch
      <3>4. Fresh(f) \/ Hooked(f)
        <4>1. CASE Busy(f)
          BY <1>1, <3>3, <4>1 DEF CallAt, Busy, Working, Fresh
        <4> QED
          BY <1>1, <4>1 DEF CallAt
      <3>5. CASE Fresh(f)
        <4>1. w = "own"
          BY <3>1, <3>2, <3>5 DEF Fresh, Original
        <4>2. m = [l EXCEPT !.word = l.word + 1] /\ l.word + 1 \in 1 .. Patched[f]
          BY <1>1, <1>5, <3>1, <3>2, <4>1, AfterOwn, AtPlaces DEF Out
        <4>3. m.at = "code" /\ m.word \in 1 .. Patched[f]
          BY <1>1, <3>2, <4>2 DEF Placed
        <4> QED
          BY <3>5, <4>3 DEF Sound
      <3>6. CASE Hooked(f)
        <4>1. w = PatchOf(f)[l.word]
          BY <3>1, <3>2, <3>6 DEF Hooked
        <4>2. OnPath(f, l)
          <5>1. CASE l.word = 1
            BY <5>1, PatchWords DEF OnPath
          <5>2. CASE Fresh(f)
            BY <3>6, <5>2, PartlyPatched DEF Fresh, Hooked
          <5> QED
            BY <2>2, <3>2, <5>1, <5>2 DEF Sound
        <4>3. \/ m = New(f)
              \/ m.at = "code" /\ m.word \in 1 .. Patched[f] /\ OnPath(f, m)
          BY <1>1, <3>1, <3>2, <3>6, <4>1, <4>2, AfterPatch
        <4>4. code[f] # Original(f)
          BY <3>6, PartlyPatched DEF Hooked
        <4> QED
          BY <3>6, <4>3, <4>4, AtPlaces DEF New, Sound
      <3> QED
        BY <3>4, <3>5, <3>6
    <2>5. CASE CallOld(t)
      <3>1. m = IF old[l.fun] = NULL THEN Lost(l.fun) ELSE At("row", l.fun, 1, old[l.fun], "own")
        BY <2>1, <2>5 DEF CallOld, PatchInv, HookInv, Shape
      <3>2. l.fun = f
        BY <1>5, <3>1, AtPlaces DEF Lost
      <3>3. code[f] # Original(f)
        BY <2>2, <2>5, <3>2 DEF CallOld, Sound
      <3>4. old[f] \in Rows
        BY <1>1, <3>3, CopyBehind DEF PatchInv
      <3>5. m = At("row", f, 1, old[f], "own") /\ 1 \in 1 .. Patched[f]
        BY <3>1, <3>2, <3>4, PatchWords DEF Rows, NULL
      <3> QED
        BY <3>3, <3>5, AtPlaces DEF Sound
    <2>6. CASE FetchCopy(t)
      <3>1. m = IF l.word \notin DOMAIN pool[l.row] THEN Lost(l.fun)
                ELSE After(l, pool[l.row][l.word])
        BY <1>5, <2>1, <2>6 DEF FetchCopy, PatchInv, HookInv, Shape
      <3>2. l.fun = f
        BY <1>1, <1>5, <3>1, AfterPlaces, AtPlaces DEF Lost, Out
      <3>3. /\ l.at = "row" /\ l.row = old[f] /\ l.word \in 1 .. Patched[f]
            /\ code[f] # Original(f)
        BY <2>2, <2>6, <3>2 DEF FetchCopy, Sound
      <3>4. pool[l.row] = Original(f)
        BY <1>1, <3>3, CopyBehind DEF PatchInv
      <3>5. m = After(l, "own")
        BY <3>1, <3>3, <3>4 DEF Original
      <3>6. m = [l EXCEPT !.word = l.word + 1] /\ l.word + 1 \in 1 .. Patched[f]
        BY <1>1, <1>5, <3>2, <3>3, <3>5, AfterOwn, AtPlaces DEF Out
      <3>7. m.at = "row" /\ m.word \in 1 .. Patched[f] /\ m.row = old[f]
        BY <1>1, <3>3, <3>6 DEF Placed
      <3> QED
        BY <3>3, <3>7 DEF Sound
    <2> QED
      BY <2>3, <2>4, <2>5, <2>6 DEF Run
  <1>6. ASSUME NEW u \in Threads, loc'[u].fun = f, u \notin exposed' \cup cold'
        PROVE  Sound(f, loc'[u])
    <2>1. CASE u = t
      BY <1>4, <1>5, <1>6, <2>1
    <2>2. CASE u # t
      BY <1>1, <1>4, <1>6, <2>2 DEF ThreadAt
    <2> QED
      BY <2>1, <2>2
  <1>7. ThreadAt(f)'
    BY <1>1, <1>6 DEF ThreadAt, Sound, Fresh, Hooked, OnPath
  <1> QED
    BY <1>2, <1>7

\* A thread that is not outside belongs to one of the functions.
LEMMA FunStep ==
    ASSUME HookInv, FunInv, [Next]_vars
    PROVE  FunInv'
  <1>1. ASSUME NEW c \in Callers, Call(c)
        PROVE  FunInv'
    BY <1>1 DEF Call, Allocate, Fix, Protect, Patch, Flush, FunInv
  <1>2. ASSUME NEW t \in Threads, Enter(t) \/ Run(t)
        PROVE  FunInv'
    <2>1. PICK m : loc' = [loc EXCEPT ![t] = m]
      BY <1>2 DEF Enter, Run, Fetch, CallOld, FetchCopy
    <2>2. /\ m = loc'[t] /\ Placed(loc[t]) /\ (loc[t].at # "out" => loc[t].fun \in Symbols)
          /\ \A u \in Threads : u # t => loc'[u] = loc[u]
      BY <2>1 DEF HookInv, Shape, FunInv
    <2>3. m.at = "out" \/ m.fun \in Symbols
      <3>1. CASE Enter(t)
        <4>1. \E f \in Symbols : m = First(f)
          BY <2>1, <2>2, <3>1 DEF Enter, HookInv, Shape
        <4> QED
          BY <4>1, AtPlaces DEF First
      <3>2. CASE Fetch(t)
        <4>1. loc[t].fun \in Symbols /\ \E w : m = After(loc[t], w)
          BY <2>1, <2>2, <3>2 DEF Fetch, HookInv, Shape
        <4> QED
          BY <2>2, <4>1, AfterPlaces, AtPlaces DEF Out
      <3>3. CASE CallOld(t)
        <4>1. /\ loc[t].fun \in Symbols
              /\ m = IF old[loc[t].fun] = NULL THEN Lost(loc[t].fun)
                     ELSE At("row", loc[t].fun, 1, old[loc[t].fun], "own")
          BY <2>1, <2>2, <3>3 DEF CallOld, HookInv, Shape
        <4> QED
          BY <4>1, AtPlaces DEF Lost
      <3>4. CASE FetchCopy(t)
        <4>1. /\ loc[t].fun \in Symbols
              /\ m = Lost(loc[t].fun) \/ \E w : m = After(loc[t], w)
          BY <2>1, <2>2, <3>4 DEF FetchCopy, HookInv, Shape
        <4> QED
          BY <2>2, <4>1, AfterPlaces, AtPlaces DEF Lost, Out
      <3> QED
        BY <1>2, <3>1, <3>2, <3>3, <3>4 DEF Run
    <2> QED
      BY <2>2, <2>3 DEF FunInv
  <1>3. CASE UNCHANGED vars
    BY <1>3 DEF vars, FunInv
  <1> QED
    BY <1>1, <1>2, <1>3 DEF Next

\* Every step keeps the invariant.
LEMMA StepPatch ==
    ASSUME PatchInv, [Next]_vars
    PROVE  PatchInv'
  <1>1. HookInv' /\ FunInv'
    BY StepHook, FunStep DEF PatchInv
  <1>2. ASSUME NEW f \in Symbols, Single(f)'
        PROVE  CallAt(f)' /\ ThreadAt(f)'
    <2>1. ASSUME NEW c \in Callers, NEW g \in Symbols, Allocate(c, g)
          PROVE  CallAt(f)' /\ ThreadAt(f)'
      BY <1>2, <2>1, AllocateOnce
    <2>2. ASSUME NEW c \in Callers, Fix(c) \/ Protect(c) \/ Patch(c) \/ Flush(c)
          PROVE  CallAt(f)' /\ ThreadAt(f)'
      <3>1. Single(f)
        BY <1>2, <2>2 DEF Single, Fix, Protect, Patch, Flush
      <3> QED
        BY <2>2, <3>1, FixOnce, ProtectOnce, PatchOnce, FlushOnce
    <2>3. ASSUME NEW t \in Threads, Enter(t) \/ Run(t)
          PROVE  CallAt(f)' /\ ThreadAt(f)'
      <3>1. Single(f)
        BY <1>2, <2>3 DEF Single, Enter, Run, Fetch, CallOld, FetchCopy
      <3> QED
        BY <2>3, <3>1, ThreadOnce
    <2>4. CASE UNCHANGED vars
      <3>1. Single(f) /\ UNCHANGED <<pool, code, cached, old, pc, sym, row, stores, calls,
                                     loc, exposed, cold>>
        BY <1>2, <2>4 DEF vars, memory, caller, Single
      <3>2. CallAt(f) /\ ThreadAt(f)
        BY <3>1 DEF PatchInv, OnceInv
      <3>3. CallAt(f)'
        BY <3>1, <3>2 DEF CallAt, Busy, Working, Fresh, Hooked, Partly
      <3>4. ThreadAt(f)'
        BY <3>1, <3>2 DEF ThreadAt, Sound, Fresh, Hooked
      <3> QED
        BY <3>3, <3>4
    <2> QED
      BY <2>1, <2>2, <2>3, <2>4 DEF Next, Call
  <1> QED
    BY <1>1, <1>2 DEF PatchInv, OnceInv

\* In every state a function hooked once is as its only call has left it so far, and
\* the threads of it that nothing excuses are where they can go on
\* (And64InlineHook.cpp:542-596).
THEOREM PatchInvariant == Spec => []PatchInv
  BY InitPatch, StepPatch, PTL DEF Spec

\* A call that is over has hooked its function whole or not at all, in memory, in the
\* cache and in the old pointer, whichever row was the last and wherever mprotect
\* failed (And64InlineHook.cpp:555, 575, 588-594).
THEOREM WholeOrNot == Spec => []AllOrNothing
  <1>1. PatchInv => AllOrNothing
    BY DEF PatchInv, OnceInv, CallAt, Fresh, Hooked, AllOrNothing, Rows, NULL
  <1> QED
    BY <1>1, PatchInvariant, PTL

\* A thread that was not inside the function while the patch was written, and whose
\* cache knows the trampoline, is never derailed by hooking it once, however many
\* words the patch has (And64InlineHook.cpp:542-572).
THEOREM OnlyInsideLost == Spec => []LostOnlyIfInside
  <1>1. PatchInv => LostOnlyIfInside
    <2> SUFFICES ASSUME PatchInv, NEW t \in Threads, loc[t].at = "lost", Single(loc[t].fun)
                 PROVE  t \in exposed \cup cold
      BY DEF LostOnlyIfInside
    <2>1. PICK f \in Symbols : f = loc[t].fun
      BY DEF PatchInv, FunInv
    <2> QED
      BY <2>1 DEF PatchInv, OnceInv, ThreadAt, Sound
  <1> QED
    BY <1>1, PatchInvariant, PTL
=============================================================================
