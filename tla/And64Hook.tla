------------------------------ MODULE And64Hook ------------------------------
(***************************************************************************)
(* A64HookFunction: taking a trampoline from the pool, copying the         *)
(* prologue to it, writing the patch, and the threads that execute the     *)
(* function meanwhile, since nobody stops them.                            *)
(*                                                                         *)
(* Between the first store of a patch and the flush a thread may fetch any *)
(* word as it was or as it is now, and the stores become visible in any    *)
(* order.  Of a copied instruction And64Fix says what it does; here it is  *)
(* what it was copied from.                                                *)
(***************************************************************************)
EXTENDS Integers, Sequences, FiniteSets

CONSTANTS
    Callers,      \* threads that call A64HookFunction
    Threads,      \* threads that execute the hooked functions
    Symbols,      \* the functions hooked; each has its replacement and old_...
    Patched,      \* Patched[f]: how many words its patch overwrites
    Times,        \* bound on the calls for one function
    MAX_BACKUPS,  \* A64_MAX_BACKUPS: rows of __insns_pool
    Faults,       \* "mprotect": it may fail; "stale": a thread may execute
                  \* what its cache has of a row, which nothing flushes
    NoSymbol, NoCaller

ASSUME SymbolAssumption ==
    /\ \A f \in Symbols : Patched[f] \in {1, 4, 5}
    /\ NoSymbol \notin Symbols /\ NoCaller \notin Callers
ASSUME BoundAssumption == Times \in Nat /\ MAX_BACKUPS \in Nat \ {0}

VARIABLES
    index,        \* __index of FastAllocateTrampoline
    pool,         \* pool[r]: the words of row r; empty before it is filled
    code,         \* code[f]: the words of f's prologue in memory
    cached,       \* what a thread may still fetch instead of them
    old,          \* old[f]: *result: a row, or NULL
    pc,           \* where each caller is
    sym,          \* the function its call is about
    row,          \* its trampoline
    stores,       \* stores of its patch that are not visible yet
    calls,        \* history: calls[f], the calls for f so far
    loc,          \* where each thread executes
    exposed,      \* history: threads that were in a prologue while it was written
    cold          \* history: threads that executed a row as it was before it was filled

memory == <<pool, code, cached, old>>
caller == <<pc, sym, row, stores>>
vars   == <<index, memory, caller, calls, loc, exposed, cold>>

Rows == 0 .. MAX_BACKUPS - 1
NULL == -1

-----------------------------------------------------------------------------
(* Code *)

\* The patch of f: B, or LDR X17 with BR X17 and the replacement's address,
\* behind a NOP where this puts the address at a multiple of eight.
PatchOf(f) ==
    CASE Patched[f] = 1 -> <<"b">>
      [] Patched[f] = 4 -> <<"ldr", "br", "addr", "addr">>
      [] Patched[f] = 5 -> <<"nop", "ldr", "br", "addr", "addr">>

\* Its stores: that of the address is one, of two words.
StoresOf(f) ==
    LET data == {k \in 1 .. Patched[f] : PatchOf(f)[k] = "addr"}
    IN  {{k} : k \in (1 .. Patched[f]) \ data} \cup ({data} \ {{}})

Original(f) == [k \in 1 .. Patched[f] |-> "own"]
Words       == {"own", "nop", "ldr", "br", "addr", "b"}

\* Whether the address LDR X17 loads from memory is there.
AddressIn(f) == code[f][Patched[f]] = "addr"

\* Mutant of Copy: the copy is made when the patch has been written.
CopyPatched(f) == [k \in DOMAIN PatchOf(f) |->
                     IF PatchOf(f)[k] = "ldr" THEN "ldr new" ELSE PatchOf(f)[k]]

\* Mutant of Copy: an LDR of an earlier patch is copied as it is.
CopyAsIs(f) == code[f]

\* __fix_instructions, of a prologue that may hold (some of) an earlier patch:
\* an LDR is copied with what it loads, and everything else with its meaning.
Copy(f) == [k \in DOMAIN code[f] |->
              IF code[f][k] # "ldr" THEN code[f][k]
              ELSE IF AddressIn(f) THEN "ldr new" ELSE "ldr junk"]

-----------------------------------------------------------------------------
(* Threads: outside, at a word of a prologue or of a row, in the replacement, *)
(* or lost; with what they have in X17.                                       *)

At(place, f, k, r, x) == [at |-> place, fun |-> f, word |-> k, row |-> r, x17 |-> x]
Out      == At("out", NoSymbol, 0, NULL, "own")
New(f)   == At("new", f, 0, NULL, "own")
Lost(f)  == At("lost", f, 0, NULL, "own")
First(f) == At("code", f, 1, NULL, "own")

Init ==
    /\ index = -1
    /\ pool = [r \in Rows |-> <<>>]
    /\ code = [f \in Symbols |-> Original(f)]
    /\ cached = code
    /\ old = [f \in Symbols |-> NULL]
    /\ pc = [c \in Callers |-> "idle"]
    /\ sym = [c \in Callers |-> NoSymbol]
    /\ row = [c \in Callers |-> NULL]
    /\ stores = [c \in Callers |-> {}]
    /\ calls = [f \in Symbols |-> 0]
    /\ loc = [t \in Threads |-> Out]
    /\ exposed = {} /\ cold = {}

-----------------------------------------------------------------------------
(* A64HookFunction *)

\* Mutant of Allocate: the patch is written without the copy having been made.
AllocateUnfixed(c, f) ==
    /\ pc[c] = "idle" /\ calls[f] < Times /\ index + 1 < MAX_BACKUPS
    /\ calls' = [calls EXCEPT ![f] = @ + 1]
    /\ index' = index + 1
    /\ old' = [old EXCEPT ![f] = index + 1]
    /\ pc' = [pc EXCEPT ![c] = "protect"]
    /\ sym' = [sym EXCEPT ![c] = f]
    /\ row' = [row EXCEPT ![c] = index + 1]
    /\ UNCHANGED <<pool, code, cached, stores, loc, exposed, cold>>

\* FastAllocateTrampoline, and *result is the row before there is anything in
\* it.  With no row left *result is NULL and nothing is hooked.
Allocate(c, f) ==
    /\ pc[c] = "idle"
    /\ calls[f] < Times
    /\ calls' = [calls EXCEPT ![f] = @ + 1]
    /\ index' = index + 1
    /\ \/ /\ index' < MAX_BACKUPS
          /\ old' = [old EXCEPT ![f] = index']
          /\ pc' = [pc EXCEPT ![c] = "fix"]
          /\ sym' = [sym EXCEPT ![c] = f]
          /\ row' = [row EXCEPT ![c] = index']
       \/ /\ index' >= MAX_BACKUPS
          /\ old' = [old EXCEPT ![f] = NULL]
          /\ UNCHANGED <<pc, sym, row>>
    /\ UNCHANGED <<pool, code, cached, stores, loc, exposed, cold>>

\* __fix_instructions
Fix(c) ==
    /\ pc[c] = "fix"
    /\ pool' = [pool EXCEPT ![row[c]] = Copy(sym[c])]
    /\ pc' = [pc EXCEPT ![c] = "protect"]
    /\ UNCHANGED <<index, code, cached, old, sym, row, stores, calls, loc, exposed, cold>>

\* Mutant of Protect: the row is given back when mprotect fails.
ProtectGivesBack(c) ==
    /\ pc[c] = "protect" /\ "mprotect" \in Faults
    /\ pc' = [pc EXCEPT ![c] = "idle"]
    /\ index' = index - 1
    /\ old' = [old EXCEPT ![sym[c]] = NULL]
    /\ UNCHANGED <<pool, code, cached, sym, row, stores, calls, loc, exposed, cold>>

\* Mutant of Protect: *result is left as it is when mprotect fails.
ProtectKeepsResult(c) ==
    /\ pc[c] = "protect" /\ "mprotect" \in Faults
    /\ pc' = [pc EXCEPT ![c] = "idle"]
    /\ UNCHANGED <<index, memory, sym, row, stores, calls, loc, exposed, cold>>

\* __make_rwx.  When it fails *result becomes NULL; the row stays taken.
Protect(c) ==
    /\ pc[c] = "protect"
    /\ \/ /\ pc' = [pc EXCEPT ![c] = "patch"]
          /\ stores' = [stores EXCEPT ![c] = StoresOf(sym[c])]
          /\ UNCHANGED old
       \/ /\ "mprotect" \in Faults
          /\ pc' = [pc EXCEPT ![c] = "idle"]
          /\ old' = [old EXCEPT ![sym[c]] = NULL]
          /\ UNCHANGED stores
    /\ UNCHANGED <<index, pool, code, cached, sym, row, calls, loc, exposed, cold>>

\* Threads between the first and the last word that the patch of f overwrites.
Inside(f) == {t \in Threads : loc[t].at = "code" /\ loc[t].fun = f /\ loc[t].word > 1}

\* One store of the patch becomes visible; of a near one there is only the
\* compare-and-swap.
Patch(c) ==
    /\ pc[c] = "patch"
    /\ \E s \in stores[c] :
          /\ code' = [code EXCEPT ![sym[c]] =
                        [k \in DOMAIN @ |-> IF k \in s THEN PatchOf(sym[c])[k] ELSE @[k]]]
          /\ stores' = [stores EXCEPT ![c] = @ \ {s}]
    /\ exposed' = exposed \cup Inside(sym[c])
    /\ UNCHANGED <<index, pool, cached, old, pc, sym, row, calls, loc, cold>>

\* __flush_cache
Flush(c) ==
    /\ pc[c] = "patch" /\ stores[c] = {}
    /\ cached' = [cached EXCEPT ![sym[c]] = code[sym[c]]]
    /\ pc' = [pc EXCEPT ![c] = "idle"]
    /\ UNCHANGED <<index, pool, code, old, sym, row, stores, calls, loc, exposed, cold>>

Call(c) == (\E f \in Symbols : Allocate(c, f)) \/ Fix(c) \/ Protect(c) \/ Patch(c) \/ Flush(c)

-----------------------------------------------------------------------------
(* The other threads *)

Enter(t) ==
    /\ loc[t].at = "out"
    /\ \E f \in Symbols : loc' = [loc EXCEPT ![t] = First(f)]
    /\ UNCHANGED <<index, memory, caller, calls, exposed, cold>>

\* Where a thread at l is after it has executed word w there.  Behind its last
\* word a row jumps back behind the words of f that it was copied from.
After(l, w) ==
    LET next == [l EXCEPT !.word = @ + 1]
    IN  CASE w \in {"own", "nop"} -> IF l.word < Patched[l.fun] THEN next ELSE Out
          [] w = "ldr"      -> [next EXCEPT !.x17 = IF AddressIn(l.fun) THEN "new" ELSE "junk"]
          [] w = "ldr new"  -> [next EXCEPT !.x17 = "new"]
          [] w = "ldr junk" -> [next EXCEPT !.x17 = "junk"]
          [] w = "br"       -> IF l.x17 = "new" THEN New(l.fun) ELSE Lost(l.fun)
          [] w = "b"        -> New(l.fun)
          [] OTHER          -> Lost(l.fun)      \* part of an address

\* An instruction of a prologue, fetched from memory or from the cache.
Fetch(t) ==
    LET l == loc[t] IN
    /\ l.at = "code"
    /\ \E w \in {code[l.fun][l.word], cached[l.fun][l.word]} :
          loc' = [loc EXCEPT ![t] = After(l, w)]
    /\ exposed' = IF code[l.fun] # cached[l.fun] THEN exposed \cup {t} ELSE exposed
    /\ UNCHANGED <<index, memory, caller, calls, cold>>

\* The replacement calls what its old_... points to.
CallOld(t) ==
    LET l == loc[t] IN
    /\ l.at = "new"
    /\ loc' = [loc EXCEPT ![t] = IF old[l.fun] = NULL THEN Lost(l.fun)
                                 ELSE At("row", l.fun, 1, old[l.fun], "own")]
    /\ UNCHANGED <<index, memory, caller, calls, exposed, cold>>

\* An instruction of a trampoline.  A row is not flushed when it is filled: its
\* cache may still have the zeros that were there before, which are no instruction.
FetchCopy(t) ==
    LET l == loc[t] IN
    /\ l.at = "row"
    /\ \/ /\ loc' = [loc EXCEPT ![t] = IF l.word \notin DOMAIN pool[l.row] THEN Lost(l.fun)
                                       ELSE After(l, pool[l.row][l.word])]
          /\ UNCHANGED cold
       \/ /\ "stale" \in Faults
          /\ loc' = [loc EXCEPT ![t] = Lost(l.fun)]
          /\ cold' = cold \cup {t}
    /\ UNCHANGED <<index, memory, caller, calls, exposed>>

Run(t) == Fetch(t) \/ CallOld(t) \/ FetchCopy(t)

Next == (\E c \in Callers : Call(c)) \/ (\E t \in Threads : Enter(t) \/ Run(t))

Spec == Init /\ [][Next]_vars

\* The scheduler runs every thread that can run.
FairSpec == Spec /\ \A t \in Threads : WF_vars(Run(t))

-----------------------------------------------------------------------------
CopyWords == (Words \ {"ldr"}) \cup {"ldr new", "ldr junk"}

\* Type invariant: a prologue keeps its length, and every row is empty or a
\* copy of a whole one (And64InlineHook.cpp:494-596).
TypeOK ==
    /\ index \in Int /\ index >= -1
    /\ \A r \in Rows : pool[r] = <<>> \/ \E f \in Symbols :
                          pool[r] \in [1 .. Patched[f] -> CopyWords]
    /\ \A f \in Symbols : /\ code[f] \in [1 .. Patched[f] -> Words]
                          /\ cached[f] \in [1 .. Patched[f] -> Words]
    /\ old \in [Symbols -> Rows \cup {NULL}]
    /\ pc \in [Callers -> {"idle", "fix", "protect", "patch"}]
    /\ sym \in [Callers -> Symbols \cup {NoSymbol}]
    /\ row \in [Callers -> Rows \cup {NULL}]
    /\ \A c \in Callers :
          pc[c] # "idle" => /\ sym[c] \in Symbols /\ row[c] \in Rows
                            /\ stores[c] \subseteq StoresOf(sym[c])
    /\ calls \in [Symbols -> 0 .. Times]
    /\ \A t \in Threads : loc[t].at \in {"out", "code", "new", "row", "lost"}

Busy(f)  == \E c \in Callers : pc[c] # "idle" /\ sym[c] = f
Single(f) == calls[f] <= 1

\* A trampoline is never written again, whichever calls fail: a thread may be
\* executing it, and nothing tells (And64InlineHook.cpp:510-521, 563, 593).
RowKept == [][\A r \in Rows : pool[r] # <<>> => pool'[r] = pool[r]]_vars

\* With a branch in reach, hooking a function once harms no thread, wherever
\* the thread is and though it is not stopped; but for one whose cache still has
\* the trampoline as it was before it was filled (And64InlineHook.cpp:558-572).
NearIsSafe ==
    \A f \in Symbols : (Single(f) /\ Patched[f] = 1) =>
        \A t \in Threads : (loc[t].at = "lost" /\ loc[t].fun = f) => t \in cold

\* The patch of several words harms only a thread that executed the prologue
\* between its first store and the flush, or was inside at one of its stores: one that comes
\* later, or is in the replacement or in a copy that its cache knows, is safe
\* (And64InlineHook.cpp:542-553).
LostOnlyIfInside ==
    \A t \in Threads :
        (loc[t].at = "lost" /\ Single(loc[t].fun)) => t \in exposed \cup cold

\* When nobody is hooking a function that was hooked once, either it is whole,
\* in memory and in the cache, and its old pointer is NULL, or the patch is complete, in
\* both, and the old pointer leads to a copy of what was there
\* (And64InlineHook.cpp:555, 575, 588-594).
AllOrNothing ==
    \A f \in Symbols : (Single(f) /\ ~Busy(f)) =>
        \/ code[f] = Original(f) /\ cached[f] = Original(f) /\ old[f] = NULL
        \/ /\ code[f] = PatchOf(f) /\ cached[f] = PatchOf(f)
           /\ old[f] # NULL /\ pool[old[f]] = Original(f)

\* A thread that enters the replacement of a function hooked once comes out again: the
\* copy it calls leads on into the function and never back into the replacement, and
\* a row of the pool is whole, in memory, when the first thread gets to it
\* (deviceutils.cpp:95, 119, And64InlineHook.cpp:452-467, 558-572).
GetsOut ==
    \A t \in Threads, f \in Symbols :
        loc[t].at = "new" /\ loc[t].fun = f
            ~> loc[t].at = "out" \/ t \in cold \/ ~Single(f)
-----------------------------------------------------------------------------
(* Inductive invariants behind RowKept and NearIsSafe *)

\* Rows are filled once, each by the caller that took it
\* (And64InlineHook.cpp:510-521).
PoolInv ==
    /\ \A r \in Rows : pool[r] # <<>> => r <= index
    /\ \A c \in Callers : pc[c] = "fix" => row[c] <= index /\ pool[row[c]] = <<>>
    /\ \A c, d \in Callers : pc[c] = "fix" /\ pc[d] = "fix" /\ c # d => row[c] # row[d]

Near(f)  == Patched[f] = 1 /\ Single(f)
Whole(f) == code[f][1] = "own" /\ cached[f][1] = "own"

\* Row r holds the copy of a single word that was no patch.
Copied(r) == DOMAIN pool[r] = {1} /\ pool[r][1] = "own"

\* A function with a near patch is whole until its only call has filled the row
\* that its old pointer names; a thread gets into the replacement only behind
\* that (And64InlineHook.cpp:558-572, 588).
NearAt(f) ==
    /\ calls[f] = 0 => ~Busy(f) /\ Whole(f)
    /\ \A c, d \in Callers : ( /\ pc[c] # "idle" /\ sym[c] = f
                               /\ pc[d] # "idle" /\ sym[d] = f ) => c = d
    /\ \A c \in Callers : (pc[c] # "idle" /\ sym[c] = f) =>
          /\ old[f] = row[c]
          /\ pc[c] # "fix" => Copied(row[c])
          /\ IF pc[c] = "patch" THEN stores[c] \subseteq {{1}} ELSE Whole(f)
    /\ DOMAIN code[f] = {1} /\ DOMAIN cached[f] = {1}
    /\ code[f][1] \in {"own", "b"} /\ cached[f][1] \in {"own", "b"}
    /\ cached[f][1] = "b" => code[f][1] = "b"
    /\ Whole(f) \/ (old[f] \in Rows /\ Copied(old[f]))
    /\ \A t \in Threads : loc[t].fun = f =>
          /\ loc[t].at = "lost" => t \in cold
          /\ loc[t].at \in {"code", "row"} => loc[t].word = 1
          /\ loc[t].at = "row" => loc[t].row = old[f]
          /\ loc[t].at \in {"new", "row"} => ~Whole(f)

NearInv == \A f \in Symbols : Near(f) => NearAt(f)
==============================================================================
