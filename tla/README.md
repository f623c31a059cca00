# dumpDex: a TLA+ model of the hook library and the dump directory

dumpDex is an Xposed module. Loaded into a packed Android application, it hooks
the function of the runtime that opens dex files and writes every dex that is
opened into `/data/data/<package>/dump`. This directory holds TLA+ modules that
model its core logic, the TLC configurations that check them on small instances,
and TLAPS proofs for instances of any size. Paths below are relative to
`src/app/src/main/`; `cpp/` and `java/` abbreviate `cpp/` and
`java/com/wrbug/dumpdex/` there.

## 1. Inventory of the system

| Part | State it keeps | Operations | Interacts with |
|---|---|---|---|
| Inline hook, 32 bit (`cpp/inlineHook.c`) | `info.item[1024]`, `info.size`; per entry: target, replacement, `*proto_addr`, saved code, two boundary arrays and `count`, trampoline page, status | `registerInlineHook`, `inlineHook`, `inlineUnHook`, `inlineHookAll`, `inlineUnHookAll`; internally `freeze`, `unFreeze`, `processThreadPC` | writes the code of other functions; forks a child that stops the other threads by ptrace and moves their PCs; calls Relocation |
| Relocation, 32 bit (`cpp/relocate.c`) | none of its own; advances `*count` and fills the boundary arrays of the entry | `relocateInstruction` over Thumb-16, Thumb-32 and ARM instructions | its copy is entered through `*proto_addr`, or by a moved PC |
| Inline hook, 64 bit (`cpp/And64InlineHook.cpp`) | `__insns_pool`, `__index`; per hook a fix map of forward references | `A64HookFunction`, `__fix_instructions`, `FastAllocateTrampoline` | as above, but no thread is stopped |
| Restricted `dlopen` (`cpp/dlopen.c`) | `SDK_INT`, the stub page, the patched `FatalError` | `ndk_init`, `ndk_dlopen`, `ndk_dlsym`, `ndk_dlclose`, `ndk_dladdr`, `ndk_dlerror` | gives Native dump the address of the opening function |
| Native dump (`cpp/native.cpp`) | static `is_hook` | `Native.dump` (JNI) | runs the init sequence: package name, dlopen, dlsym, hook |
| Function selection (`cpp/util/deviceutils.cpp`) | `sdk_int`, one `old_...` pointer per signature | which symbol is hooked by which replacement; the replacements themselves | each replacement guards on the size, dumps, then calls the original through its `old_...` pointer |
| Native writer (`cpp/util/fileutils.cpp`) | `pname`; the dump files | `save_dex_file`, `init_package_name` | shares the directory with the Java writer |
| Java writer (`java/dump/LowSdkDump.java`, `java/util/FileUtils.java`) | none; the dump files | `init`, `dump`, `attachBaseContextHook`, `writeByteToFile` | below Android 8, next to the native one |
| Entry points (`java/XposedInit.java`, `java/PackerInfo.java`, `java/dump/OreoDump.java`, `java/Native.java`, `java/util/DeviceUtils.java`) | the table of packer classes; the SDK number | `handleLoadPackage`: recognise a packer, make the directory, start one of the two dumps | calls everything above |
| UI (`java/MainActivity.java`), build files, example tests | - | - | - |

### What is hard about it

* Code is rewritten while other threads run. `freeze` lists the thread ids,
  forks, and has the child stop each of them and move its PC, when it is the start
  of an instruction of the prologue, to that instruction's copy. A thread may be
  anywhere: before the patch, inside the bytes that become the patch, in the
  copy, in the replacement, in malloc with its lock held, or in a function that the
  prologue called and that returns into it. Threads may be born in between, and `fork`, `PTRACE_ATTACH` and `PTRACE_GETREGS` may fail, none of
  which stops the patch from being written.
* The patch itself is not atomic: the LDR and the word it loads are separate
  stores.
* Entries are deleted by moving the last one down, in one case from inside a
  loop over the table, in another while a pointer to the entry is still in use;
  entries are handed out again without being cleared.
* The boundary arrays are too short for what is stored in them, and the `count` that
  indexes them is not reset: they lie in front of that count and of other fields.
* The 64-bit hook stops nobody: its patch of one, four or five words meets threads
  in the function, a row of the pool is published before it is filled, and a failure
  is reported to nobody.
* A copied instruction must do what the instruction did, at another address, with
  references between instructions of which some have not been copied yet.
* Packages are loaded by several threads of one process; `Native.dump` tests
  `is_hook` at its beginning and sets it at its end, the package name, the stub page and
  the hook table are shared without a lock, and any step may fail, checked or not.
* A dump is checked for and written in separate calls, by several threads and two
  writers, one of which truncates and the other does not; the process may die in
  between and the check of the next process finds what was left.

The hazards, each with its line and the properties that cover it, are listed in
`PROJECT.json`.

### What makes each part correct

* Inline hook: a function's code carries a patch exactly while the table says
  so; entries are unique and own a live copy; no thread is derailed that the freeze
  could have kept; every call
  returns with all threads running; the "all" calls leave nothing behind.
* Relocation: a copy falls through from one instruction to the next, reads its
  own literals, returns behind the patch, and does what the instruction did; the
  boundary arrays map each instruction to its copy.
* 64-bit hook: every reference inside the prologue is resolved to the
  copy; a trampoline is written once and fits its row; a call hooks whole or not at
  all; a patch of one word harms no thread.
* Dump directory: a dump that is left alone is complete, and stays complete.
* Native dump and entry points: the hook is there in the end, after everything it
  uses; a failure leaves the Java hooks; every load ends; replacement, `old_...`
  pointer and symbol belong together.

## 2. Modules

| Module | Models | Role |
|---|---|---|
| `Boundaries` | the boundary arrays of a table entry and the search through them | shared by the next two |
| `Relocate` | `relocateInstruction`: the loop and the layout of every replacement sequence | component |
| `RelocateValues` | the same function: what the copies do | component |
| `HookRegistry` | the life cycle of a hooked function that the return codes of `inlineHook.h` describe | abstract specification |
| `InlineHook` | `inlineHook.c`, the tracer child, the threads of the process | component; implements `HookRegistry` |
| `And64Fix` | `__fix_instructions` of the 64-bit hook and its fix map | component |
| `And64Hook` | `A64HookFunction`, the pool of trampolines, the threads of the process | component |
| `DumpStore` | the dump directory, the native and the Java writer, descriptors, restarts | component |
| `DeviceSelect` | symbol, replacement and `old_...` pointer by release and word size | operators, shared with the next |
| `NativeDump` | `handleLoadPackage`, `Native.dump`, `ndk_init`, registration and hook by threads that share the table, the runtime opening a dex | composition of the 32- and 64-bit hook with everything that leads to them |
| `MCRelocate`, `MCRelocateValues`, `MCInlineHook`, `MCAnd64Fix`, `MCAnd64Hook`, `MCDumpStore`, `MCNativeDump` | instances for TLC | |
| `InlineHookProofs`, `ThreadProofs`, `RelocateProofs`, `RelocateValuesProofs`, `And64FixProofs`, `And64HookProofs`, `DumpStoreProofs`, `NativeDumpProofs` | theorems | |

How they rest on each other:

* `InlineHook` uses of a relocation only its result: `Layout[t]` says where the
  instructions of `t`'s prologue were and where their copies are, and `Register`
  stores both through `Overlay`. That this one step leaves exactly what the loop of
  `relocate.c` leaves, aliasing included, as long as the arrays have cells, is property
  `OverlayIsLoop` of `Relocate`, a theorem; where they have none, `Register` ends in
  `pc = "overrun"`, and what is written over is in `Relocate`;
  that the copies do what the originals do, and where not, is `CopyDoesTheSame` of
  `RelocateValues`.
* `And64Hook` takes from `And64Fix` that a copied word does what the word did
  (`MeaningKept`).
* `NativeDump` has the steps of both hooks that other threads may see between
  registration and patch, and leaves out the threads inside the function. That a copy is
  made of what the function contains at that moment is `CodeMatchesTable` for one caller,
  and modelled for several (`Save`, `Relocate`, `Copy64`); that a 32-bit call by a thread
  other than the main one stops it and everybody its child attaches to is what
  `CallReturnsOrWedged` is about.

### `Boundaries`

`orig_boundaries[4]` and `trampoline_boundaries[20]` are adjacent, and the index
into both is `item->count`, which nothing compares with either length. The module
keeps both arrays as one block of 24 cells, so that a store at `orig_boundaries[4]`
is a store at `trampoline_boundaries[0]`, which is what every compiler for this
target makes of it. The count and the two ints behind it are the cells behind the block
(`CountCell`, `FieldCells`). `Left(c)` is what earlier owners of an entry, functions of two
instructions copied as they are, leave with the count `c`. `Record` is the pair of stores of one iteration;
`FirstMatch` is the loop of `doProcessThreadPC`.

### `Relocate`

| Code | Model |
|---|---|
| `orig_pos`, `trampoline_pos`, `*count`, the arrays, the fields behind the count | `origPos`, `trampPos`, `count`, `bnd`, `spoiled` (which of them were written over) |
| one iteration, by kind of instruction | `Thumb16Step`, `Thumb32Step`, `ArmStep` (all `RecordBoundary` and `Place`); a store may hit the count itself, between the two of an iteration |
| the `break` of a 32-bit instruction in the last halfword | `Thumb32Break` |
| the jump back | `JumpBack` |
| deleting the entry and registering another function in it | `Reuse`, from each of the counts in `Counts`, a bound; `start` and `rounds` tell how many instructions the owners have had |
| the replacement of each instruction type | `Thumb16Slots`, `Thumb32Slots`, `ArmSlots`: its size, its PC-relative loads with their literals, its internal branches |

A prologue is an arbitrary sequence of instruction types. What the literals contain
and which registers are used is left to `RelocateValues`.

### `RelocateValues`

| Code | Model |
|---|---|
| an instruction with its bit fields | a record: type, condition, registers, sign, `s`, `j1`, `j2`, immediate `x` as encoded |
| the loop's `pc` | `pc`, stepped by `Copy` |
| the literal a copy loads, computed as the code does | `Value`, `AdrImmediate` |
| the rest of a copy: state, condition, registers pushed, popped or lost | `Copied` |
| the instruction itself, as the ARM architecture defines it | `Original` (external) |

An `Effect` is what both are compared by: the register set, whether by a value, a
load or a branch and into which state, on which condition, and what else is
destroyed. Instructions that the classifier knows no type for are in the model, too
(`Undefine`): those that do not use the PC, those that do (literal loads of other sizes, other
arithmetic), and IT, whose effect is to make what follows conditional, so that the
instructions behind it are compared as executed; and those that it takes for another type,
having the bits of a branch, an ADR or a load without being one (`Misread`). An ADD may have
SP or the PC as its operand or its result; the second operand of an ARM ADD is not shifted. A
literal in `Writable` changes after the hook is registered. Addresses have 30 bits under TLC, whose integers have 32 with a sign, and 30 or
32 in the theorem; no field of any instruction reaches the two bits that differ, but for ADR.W,
whose immediate the code shifts to the top of the word, wherever that is, and ARM's rotated
immediates, which are rotated through all of it. `Encodings` is
the assumption on the instructions: fields no wider than they are, and `al` as the condition
of those that have none.

### `InlineHook`

| Code | Model |
|---|---|
| `info.item`, `info.size` | `item`, `size`; entries from `size` on keep their contents, as in C |
| the bytes of a function | `code[t]`: which of the two stores of a patch they contain |
| the trampoline pages | `page[p]`: whose copy is mapped there; `mmap` may return any free address |
| `*proto_addr` | `proto[t]` |
| the instruction cache | `stale`: functions restored in memory but not flushed |
| the library call in progress | `pc`, `op`, `pos` |
| the child | `child`, `todo`, `traced` |
| threads | `alive`, `loc` (outside; at an instruction of a prologue; in the replacement; at an instruction of a copy; in a function that prologue or copy has called; lost), `heap` (who is inside malloc) |

`registerInlineHook` is one action, since no other thread can see the entry yet;
the other calls are split where another process or thread can observe them: the
fork, each round of the child's loop, the child's SIGSTOP, the return of
`waitpid`, each of the two stores of a patch, `munmap`, `free` with the
deletion, SIGCONT, each detach, `wait`. A thread whose PC is moved to an
instruction other than the one it had reached, that executes half of a patch or
the inside of one, or a page that is not mapped, is `lost`.

`Layout[t].calls` are the instructions of the prologue that call a function. A thread in such a
function (`InCallee`) is outside prologue and copy, and `Return` takes it back behind the call,
into whatever is there by then: the child moves the PC of a thread and does not look at its LR or
its stack. A thread is in one hooked function at a time, so the functions that prologues call
are not hooked themselves.

`exposed` is a history variable: the threads that the protocol left unprotected at some point,
by running on while code was written, by being in a function that returns beneath a patch or into
a copy that is released, by being inside a copy or replacement that is
released, by being moved through boundaries of an earlier owner of the entry, or by
fetching a stale patch or a copy that its cache does not know. `called` has those among them that
were in a function called from beneath a patch. Neither constrains anything.

At first the entries have counts in `Counts`, and the boundaries that owners before have left
(`Used`); a registration that has more instructions than cells left ends in `pc = "overrun"`,
since what follows depends on the field it hits.

One thread calls the library (`Caller`); the repository calls it from
`Native.dump` alone. Registration under a lock held by another thread waits for
it, as `malloc` does. `registerInlineHook`'s refusal of addresses that are not
executable is not modelled: targets are executable, and what makes them so is
outside the repository.

### `HookRegistry`

One variable, `status[t]`, and three actions. `InlineHook` implements it under
`RegistryStatus`: the registration, the second store of a patch, and the deletion
of an entry are its steps, all others stutter.

### `And64Fix`

| Code | Model |
|---|---|
| `ctx.basep`, `ctx.endp`, `*outpp` | `base`, `base + count`, `Out` |
| `ctx.dat[k].insp`, `ctx.dat[k].fmap` | `ins[k]`, `fmap[k]` |
| the words written | `copy`; `tail` is where the jump back begins |
| one round of the loop: `__fix_branch_imm`, `__fix_cond_comp_test_branch`, `__fix_loadlit`, `__fix_pcreladdr`, the last `else` | `FixBranch`, `FixTest`, `FixLoad` with `FixLoadCrash` and `FixPrefetch`, `FixAdr` with `FixAdrp`, `FixPlain` |
| `process_fix_map`, `reset_current_ins` and the stores all of them end with | `Emit` |
| `absolute_addr` and the limits it is compared with | `Target`, `OutOfReach`, `Encode` |
| the jump back | `JumpBack` |

The instruction is chosen in the round that copies it. `base`, `count` (1, 4 or 5
words, as the patch needs) and the address of the trampoline are inputs. `KeepsMeaning`
executes the copy: it skips NOPs, follows `LDR X17`/`BR X17` through its literal,
and compares the address reached, loaded from or computed with the one the
original instruction means. Data copied into the trampoline are known by the address they were
copied from, and those at addresses in `Writable` have changed since. Copying from an address that
is not in `Mapped` crashes (`FixLoadCrash`); the literals of the program's own instructions are in it
(`MappedAssumption`). Of registers the model has the two bits of ADR's into which the code also
writes bits of the offset: these do harm only where the register has not set them (`Spills`).
`Flawed` lists the copies that go wrong. `ByChance` says how one of
them can do what it should all the same: its field, too short or with a lost sign, leads back into
the trampoline, to the copy of another branch to the same address; or it is a test that refers
back to a branch, to just the address that the test's offset without its sign leads to. A fix map never fills up, since at most four instructions
precede the one that is referred to: `A64_MAX_REFERENCES` is ten.

### `And64Hook`

| Code | Model |
|---|---|
| `__index`, `__insns_pool` | `index`, `pool[r]` |
| the words of a function; what a thread may still fetch instead | `code[f]`, `cached[f]` |
| `*result` | `old[f]` |
| a call in progress | `pc`, `sym`, `row`, `stores` (those not visible yet) |
| `FastAllocateTrampoline` and the store to `*result` | `Allocate` |
| `__fix_instructions` | `Fix` |
| `__make_rwx` | `Protect` |
| the stores of the patch, the compare-and-swap, `__flush_cache` | `Patch`, `Flush` |
| the other threads | `Enter`, `Fetch`, `CallOld`, `FetchCopy`, one word each; `loc` with X17 |

A thread between the first store and the flush may fetch any word from memory or from
the cache, and stores become visible in any order, which is what the architecture allows.
Nothing flushes a row, neither here nor in the 32-bit hook: with `"stale"` (there
`"cold"`) among the faults a thread may execute what was there before; `cold`
records which did.
A prologue that already holds a patch is copied as what it then is: the second hook of a
function is modelled like the first. `Single(f)` in the properties says that
`f` was hooked once.

### `DumpStore`

| Code | Model |
|---|---|
| the directory, the files, their bytes | `dir`, `present`, `content[n]` in blocks, holes included |
| descriptors of the process | `fds` |
| a thread in `save_dex_file` or `LowSdkDump.dump` | `pc`, `dex`, `next` |
| `fopen`, `open`, `write`, `close`, the call of the original | `Probe`, `Open`, `Write`, `Close`, `CallOriginal` |
| `exists`, `new FileOutputStream`, `write`, `close` | `Check`, `Create`, `Fill`, `Shut` |
| death of the process and the next start of the package | `Restart` |

The library behind `FileOutputStream.write` is modelled as it behaves: it writes
on until all bytes are written or a write fails. `Write` cut short stands for a full disk as well as for a process
killed inside the call.

### `DeviceSelect` and `NativeDump`

`DeviceSelect` has one operator per function of `deviceutils.cpp` and
`DeviceUtils.java`. Symbols and replacements are sequences of parameters: those of a
symbol are what its mangled name encodes, those of a replacement what it declares. The symbols
return an object: the address it is wanted at is the first argument of a 32-bit call, and in X8 of
a 64-bit one, where no replacement declares or keeps it. `ArgumentsFit` compares the arguments,
`Fits` all that is passed.

| Code | Model |
|---|---|
| `handleLoadPackage`, `PackerInfo.find`, the `mkdirs` that nothing checks, `OreoDump.init`, the beginning of `LowSdkDump.init` | `Load` (`begun`, `dirs`) |
| the static initialiser of `Native` | `LoadClass`, `class` |
| the rest of `LowSdkDump.init` | `HookJava`, `java` |
| `is_hook` | `Test` and `Complete` |
| `init_package_name` | `Name`, two steps: the two halves of `pname` stand for its bytes, which others may read, or write themselves, in between |
| `ndk_init` | `Publish` (`SDK_INT`), `FillStub` (`stub`) with its two `mprotect` |
| `ndk_dlopen`, `ndk_dlsym` | `Dlopen`, `Dlsym` |
| `registerInlineHook`: the search, `addInlineHookItem`, `++info.size` with the target, `memcpy`, `mmap`, `relocateInstruction` | `Register`, `Take`, `Add`, `Save`, `Map`, `Relocate`, with `item`, `size`, the pointer `at[t]` of each thread, and `copies` |
| `inlineHook`: search, `freeze`, `doInlineHook` | `InlineHook`, `Freeze` (for a child that stops its own parent), `Patch` |
| `A64HookFunction` | `Allocate64`, `Copy64`, `Patch64` |
| the runtime opens a dex file | `OpenDex` |

No lock is taken between the threads that load packages, so every step that others can
observe is one action. Two threads may be given the same entry of the table (`Take`), whose
fields they then fill after each other; `++info.size` adds to the value read before or to the one
there by then. The child of a thread that is not the main one attaches to every thread but the main
one, its own parent included, which waits for it for ever: `stopped` are all of these.

`faults` is chosen at the start: what may fail, or happen, in this process: the libraries
not loading, `mkdirs`, both lookups, the test whether an address is executable, `fork`,
attaching to a thread, `mprotect`, and caches that do not know code just written (`"cold"`).
`overlap` is a history variable: some package was loaded while another was in work.

## 3. Runs

Bounds are named constants of the modules; the `.cfg` files give their values.

| Run | Instance | What it shows |
|---|---|---|
| `relocate` | all prologues over all instruction types, in entries whose count is 0, 2 or 16 (`Counts`) | a copy returns behind the patch, its loads read their own literals, and the boundary arrays are what `InlineHook` assumes, also when the first runs into the second; with more than 20 instructions count and fields are written over, and the other properties still hold |
| `values` | every type of instruction, known to the classifier, unknown to it or mistaken by it, immediates at the ends of their fields, registers on both sides of R7 and 12 to 15, literals that change, Thumb functions on both halves of a word and an ARM one | a copy does what its instruction does, except, and exactly, in the cases `Flawed` lists |
| `hook` | main thread as caller, two workers, a Thumb and an ARM function, `inlineHook` and `inlineHookAll`, no faults | no thread is derailed by hooking but those in the function that the Thumb prologue calls from beneath the patch; every call returns and all threads run again; no deadlock |
| `unhook` | main and one worker, all calls, two ARM functions, one of them with a call in its prologue, entries used before (`Counts` 0 and 2) | table, code, `*proto_addr` and cache stay in step; the "all" calls miss nothing; the table implements `HookRegistry`; a thread is derailed only if it was exposed |
| `faults` | a caller that is not the main thread; fork, attach and register reads fail; a copy is not in the cache; a third thread is born; a prologue of six instructions, whose boundaries overrun their array, next to a short one, both with a call; a table of one entry with the count 0, 2 or 16 (`Counts`) | only exposed threads are derailed, although boundaries are wrong; a call returns unless its child stops the caller or `free` waits for a stopped thread |
| `oreo` | native writer, two threads, dexes below, at and above the limit, three descriptors, one restart, short writes, a directory that cannot be made | dumps are prefixes of their dex, and complete ones stay complete |
| `low` | both writers, no faults, no restart, descriptors for all | a dump nobody is writing is complete; every dex the process was asked to dump is dumped |
| `same_length` | as `low`, native writer, two dexes of one length | violated: the second dex is never dumped (finding) |
| `fix64` | fields of 9, 8 and 7 bits, pages of 16 words; two references of any kind in a prologue with the trampoline near, beyond half of a branch's field and beyond the field; five references of the kinds that depend on each other's room, with the trampoline far; two references that meet by chance; a word of data that changes, and addresses at which nothing is mapped | a copy means what its prologue means, except, and exactly, in the cases `Flawed` lists, unless `ByChance`; copying crashes only at a load with a negative offset; a copy falls through; it fits its row |
| `fix64_adrp` | as `fix64`, one ADRP, a function whose prologue is on two pages | violated: an ADRP refers behind itself (finding) |
| `hook64` | two callers, one other thread, a near function (patch of one word) and a far one (five), each hooked up to twice, two rows, `mprotect` may fail, a row may not be in the cache | rows are written once; hooking a near function harms nobody whose cache knows the row; a far one besides only a thread that was inside; a call hooks whole or not at all; a thread gets out of the replacement |
| `native` | main thread and two workers, two packages, one of them packed by Baidu, two loads, a table of two entries, releases 22, 23, 26, 28 and 29 (Android 5.1 to 10; 22 stands for what has no native hook, 23 for 24 and 25, 26 for 27), both word sizes with nothing failing, and four processes in which the first steps or the last ones may fail | packages loaded one after the other crash the process only by `mprotect`, a cold cache or a replacement that does not fit; which replacements fit; the Java hooks back the native one up; what a dump is named after; the hook is there in the end; every load ends |

Why the bounds suffice. Two functions are enough for every interaction of two
entries (deletion by moving another entry down, the misdirected flush, the loop of the
"all" calls); a third thread adds a thread the child has not reached yet while
another is already stopped. Two pages let a copy be unmapped and the same address be
used for another function. `Counts` 0, 2 and 16 in `relocate` and `faults`: from 0 a prologue of
six instructions aliases itself, from 2 the boundaries of an earlier owner come first, and from
16 the fifth instruction is one more than there are cells for. In `unhook` 0 and 2 admit
a second owner of each entry. In `DumpStore` two blocks tell apart absent, empty,
partial, complete and holed files.

In `fix64` the fields keep the order of their widths (14, 19 and 26 bits in the
code), and the narrowest still holds the distances inside a row, as in the code; of
the distances between function and trampoline, one is in reach of all fields, one is in the
half of the widest that its sign takes away, and one is beyond it. An offset
modulo a field's width leads where it should only in the last family, `chance`, whose distances
are chosen so that both ways of `ByChance` occur: a branch of one word whose field wraps to the
copy of another one, and a test on a branch. The interaction of one instruction with another
goes over the position of the copy and over references between the two, which is why two
references suffice for all kinds, and five are tried where room accumulates. In `hook64`
two calls for a function are the least that can meet a patch, two rows for up to four calls
exhaust the pool, and a patch of five words holds every word a patch of four has. In
`native` two loads let two threads meet at any two steps, and the third thread is one that a child of
either stops; which steps may fail together is split in two so that about half of them are tried
together, since a load that fails early does not reach what comes late.

### Fairness

`InlineHook`: the caller and the child are scheduled by the kernel: weak fairness of
the caller's steps and of the child's. Of the other threads only the holder of the
allocator's lock is assumed to go on, and only while it is not stopped. When the
fork has failed or a thread was not attached to, that thread may lock and unlock the
allocator for ever while the caller waits in `free`; the lock is a futex that wakes its
waiters when it is released, hence strong fairness of `Release`: it
happens if the lock is free infinitely often. No thread is forced to call the library, enter a
function, or leave it. The child's SIGSTOP and the
parent's `waitpid(..., WUNTRACED)` meet because the stop state of a child
persists until it is waited for.

`DumpStore`: a thread inside a writer goes on. `And64Hook`: a thread that is in a
function, a replacement or a trampoline goes on; callers need not. `NativeDump`: a thread that
loads a package goes on. In none of them is a call, a load or an opening of a
dex forced.

## 4. Proofs

All theorems hold for every value of the constants that satisfies the named
assumptions (threads, targets, entries and pages of any number, any layout of a
prologue, any rows, packages and loads).

* `InlineHookProofs`. `HookInv` is inductive. `CodeMatchesTable` alone is not:
  a registration copies the function's bytes, and restoring them later gives
  unpatched code only if they were not patched then, hence `LiveInv` (`saved = {}`), which
  needs `TableConsistent` (at most one entry per function), which needs that a call in
  progress works on a live entry in the status it wants (`CallInv`). `ProtoReady` follows from `ProtoInv`
  together with the copies' ownership of their pages. Each action has a lemma for
  the parts of the invariant it can disturb; steps of the child and of the threads leave
  table, code and call alone (`ChildKeeps`, `OthersKeep`). The theorems are
  `Invariance`, `TypeCorrect`, `TableStaysConsistent`, `CodeStaysInStep`,
  `HookedStaysFlushed`, `ProtoStaysReady`, and `Refinement`: the library implements
  `HookRegistry`. The bound on the number of known functions comes from the table's: the
  known functions are the image of the live entries.
* `ThreadProofs` is about the threads of the process, of which there may be any number.
  `AllIsAll` needs what the loop over the table leaves behind it (`ScanInv`). `ThreadInv`
  says where a thread can be that no store left unprotected (`Protected`): in a prologue
  only where nothing was overwritten, at its first instruction, or stopped until the call
  in progress restores the prologue; in a replacement only while the patch leads there; in
  a copy only while that is mapped and not about to be unmapped. It is inductive together
  with `ChildInv` (the child holds threads only between `freeze` and `unFreeze`) and
  `BoundaryInv` (the boundaries of an entry used once are those of its function), and gives
  `OnlyExposedLost`, whatever fails and in whichever order functions are hooked and released.
  That a thread at the first instruction is safe is where the two halves of a patch enter:
  whoever runs between them is exposed, and everybody else is stopped. A thread in a function that
  the prologue called is protected only while it returns to where nothing was overwritten, one in
  a function that the copy called only while the copy is mapped.
  `HookingLosesOnlyReturners` has the hypothesis `Quiet`: the main thread calls, it hooks and
  releases nothing, nothing fails, no entry was used before, and the prologues fit
  `orig_boundaries`. The constants of run `hook` satisfy it. `HookingLosesNobody` has besides that
  no prologue has a call that returns beneath its patch (`NoReturnBeneath`), and then no thread is
  lost. Both need that the child stops every thread (`FrozenInv`), that a thread stands
  at the beginning of an instruction (`SpotInv`), and that every stopped thread has been moved
  out of the prologues about to be patched (`MovedInv`), which in turn needs that every entry is
  used once (`CountInv`).
* `RelocateProofs`. All five properties of `Relocate`, for prologues of any mix of
  instructions and entries used before. `CopyInv` has four parts:
  `PosInv` has the types and bounds the rounds by the position, since every iteration consumes a
  unit at least, which gives `TypeCorrect`, also where the count has been written over, and, with what the loop's exit says of `origPos`,
  `ReturnsBehindPatch`; `SlotInv` says that each replacement fits (`ThumbFit`, `ArmFit`,
  established once for all types) and starts at a word, which is what the rounding of the Thumb PC
  needs (`LiteralsHit`); `BoundInv` describes the block as the `Overlay` of what has been
  placed so far, kept by one more `Record` (`RecordOverlay`; `BoundariesAreLoop`), as long as there
  are cells (`Inside`), which also keeps the stores away from the count; `OrderInv`
  says that both copies are in order, so that no boundary occurs twice, which `MigrationIsExact`
  needs beside it. The instruction whose boundary was recorded by the iteration that
  breaks off is the jump back's: hence `Orig` and `Tramp`, which go one further than what has
  been placed.
* `And64FixProofs`. `TypeCorrect`, `Fits`, `LeavesBehind` and `KeepsItsMeaning`, for fields of any width
  (`WidthAssumption` asks that the narrowest spans a row and keeps the order of the others;
  `PageAssumption`, that the pages an ADRP counts forwards span no more than 2^32 bytes),
  prologues of any mix of instructions, and functions and trampolines anywhere apart from each
  other; `MappedAssumption`, that the literals of the instructions themselves can be read, gives
  that copying crashes at no other loads than those with a negative offset (`FaultInv`). Every case of the loop ends in `Emit`, so each needs one lemma only, that what it
  hands over has a certain `Shape` (at most nine words, a way behind its literals, a word with a
  field where an address is still to come) and `Says` the right thing; `EmitKeeps` and `FixMeans` do
  the rest. `WaitInv` is the part
  without which nothing is inductive: `process_fix_map` rewrites words copied earlier, and only that
  they belong to copies of a single word keeps it away from the branches over the literals
  (`BehindInv`). The jump back is described by `NearTail` and `FarTail`; that its target is
  not executed as part of the copy needs that the trampoline is not where the function is.
  For `KeepsItsMeaning` the invariant also says what each copy is while the loop is under way:
  one word whose field holds the distance to what the code took the instruction to refer to,
  or which waits for it (`ShortForm`), or the words of a literal (`LongForm`); and that what waits for an
  instruction does refer to that one (`OriginInv`). A word is rewritten at most once, because
  the copy it is in is that word alone (`WaitsFor`). What is left is arithmetic: without the
  first flaw, what the code took the instruction to refer to is what it refers to or, for a
  test, further by as many words as its field has values, which the field drops
  (`RefersMeant`, `EncodeWraps`); without the second, the field holds the distance exactly
  (`UnflawedKeeps`). The other half is `FlawShows`: a flawed copy does something else. A field never holds what it
  has no room for (`FieldFits`, `TooFarShows`). A negative offset is off by 2^32 bytes in a
  literal, and by as much in a field, which drops it only if its width divides 2^32 bytes;
  what the code takes for the reach of a field bounds the distance below two widths (`Reached`,
  in `ShortForm`), and there it does not (`EncodeLoses`). A test that
  goes through a literal holds an address outside the row (`InRow`, in `LongForm`), since what is in the row
  is in reach. As an equivalence without `ByChance` the property would be false, and TLC shows
  it: a flawed branch can be led to the right place by another copy. The theorem asks
  that an instruction does not refer into the trampoline itself: such a load would be left
  to read words of the copy.
* `RelocateValuesProofs`. `CopiesDoTheSame`, for any function, any instructions and addresses of 32
  bits: the copy has the effect of its instruction exactly where none of the flaws is. The
  invariant `LoopInv` (theorem `LoopInvariant`) is that the loop's `pc` is that of the instruction it is at, so that what was
  copied last is the copy of an instruction at an address of the function (`Site`). What is left
  is one comparison per type. Two effects are equal if their fields are (`SameEffect`); two values are
  different addresses if they are apart by less than the address space (`BitsApart`). Offsets of branches are
  even, so the lowest bit of a literal is the state alone (`BranchOffsets`). A misassembled ADR
  immediate lies in the five highest bits of the word, a real one in the lowest twelve, so it is
  right only if it is 0 (`AdrApart`). A rotated ARM immediate is never the number that encodes it
  (`ArmExpandMeans`). These are bit operations, written as quotients and remainders, with a case for
  each distance where the distance varies.
* `And64HookProofs`. `HookInvariant` has three parts. `PoolInv`: a row that is filled is
  at or below `__index`, and the rows of calls that are about to fill one are distinct and
  empty; `RowsKept` follows, whichever calls fail. `NearInv`: a function with a patch of
  one word, hooked once, is whole until the only call for it has filled the row that its
  old pointer names; a thread can be in its replacement only behind that, and in a row only
  in that one; a lost one is in `cold`. `NearSafe` follows. It holds because `*result` is set and the row filled
  before the one store of the patch, and it needs `Single`: the count of calls is in the
  invariant, so that a second call ends the claim for that function. `TypeCorrect` needs
  `Stored` beside it: `TypeOK` speaks of the stores of calls in progress only, and a call
  begins without one left over because a patch ends with its last.
  Its second half extends this to patches of four and five words, for functions that are
  hooked once. `PatchInv` adds `CallAt`: the call in progress has stored its row as the old
  pointer and filled it before its first store; of the code exactly the missing stores are
  still the function's own (`Partly`); the cache shows the old code until the flush. That gives
  `WholeOrNot`. `ThreadAt` describes the threads that were never inside during a patch (`Sound`):
  at the first word, in a function nobody has touched, or on the finished patch's path with the
  replacement's address in X17 where the branch needs it. That gives `OnlyInsideLost`. It needs the
  cache in the invariant, since it is the cached words that a thread executes.
* `DumpStoreProofs`. Where the native writer is alone and no two dexes have one
  length (`NativeAlone`), dumps are prefixes (`PrefixesOnly`) and complete dumps stay so
  (`CompleteForGood`), for any number of threads, restarts and short writes. The argument is the
  lemma `WriteAtPrefix`: writing a prefix of `d` over a prefix of `d` from the start
  gives a prefix of `d`, and changes nothing if it was all of `d`.
  With both writers, distinct lengths, whole writes and no restart (`Undisturbed`), a dump nobody is
  writing is complete (`SettledWhole`). The invariant `SettleInv` is about what is missing: each block
  that a dump lacks is still to be written by a thread at work, the native writer about to
  write or the Java writer whose stream has not come that far. Truncation takes blocks away
  only when its author still has all of them to write.
  `TypeCorrect` holds with either writer or both, whatever fails. The bounds on `fds` are what is
  to be proved there: that no close takes the count below zero needs that it is at least the number of the threads
  which have a descriptor (`Held`), and that this number is finite, which is part of the
  invariant and no assumption on `Threads`. What leaks only adds to the count.
* `NativeDumpProofs`. `DumpInvariant` has six parts, one for the types and one for each thing that can go
  wrong: `NameInv` (a package in work has its directory unless `mkdirs` failed, and both halves of
  its name are stored before anything is hooked) gives `NamedFirst`; `SymInv` (only releases with a symbol reach
  `Native.dump`, or have a function hooked) gives `SymbolFound` and, with a case for each
  symbol, `ReplacementsFit`; `JavaInv` (a package is in `java`, needs nothing there,
  or is in work) gives `JavaFallback`; `StubInv` has the cause of each crash that is not a race;
  `SoloInv` is the case that packages are loaded one after the other: one thread at work, which
  finds what it left (`Ready`), nothing hooked behind `is_hook`, and the pointer that was set leads to
  a finished copy (`Hooked`). From the last two follow
  `RacesAlone`, and `IgnoredOnceHooked`: a load after the hook is there changes nothing of it. Of
  loads that overlap `SoloInv` says nothing: what they may do is in `OnlyRacesCrash` and
  `DumpsUnderAName`.

Only model-checked: the liveness properties (`CallReturns`, `CallReturnsOrWedged`,
`EveryDexDumped`, `GetsOut`, `EventuallyHooked`, `LoadsEnd`), since liveness under fairness is
beyond the proof system. Every invariant and every action property that a passing run checks is
a theorem.

## 5. Findings

* `same_length`: `README.md:32` says that the dex files are dumped
  automatically into the dump directory. `get_file_name` names a dump after the length of its dex, and
  `save_dex_file` takes an existing file for the dump it is about to
  write, so of two dexes of one length only the first is dumped.
* `fix64_adrp`: a comment in `And64InlineHook.cpp:395-396` says that the page an ADRP refers
  to, if it begins inside the prologue, begins at or in front of the ADRP. When a page
  begins inside the prologue, an ADRP in front of the boundary that refers to that page
  refers behind itself. The code logs it and copies the instruction unchanged, to a place
  where it means another page.

The runs also pin down behaviour that no document contradicts. Each of these is a
condition in a property, so that the run fails if the behaviour disappears or grows where
the property is an equivalence (`CopyDoesTheSame`) or nearly one (`MeaningKept`):

* 32-bit copies that do something else (`values`): 16-bit branches are left in ARM state
  (`relocate.c:186`, 194); ADR is shifted as a sum (239) or gets its immediate at the
  wrong end (353); registers above R7 lose a bit (234, 380); table branches
  do not restore their scratch register (407); ARM copies lose their condition (506); branches into
  the prologue stay branches to the patch (182); an ADD with SP or the PC is off, or leaves the
  stack so (219, 551); SVC, UDF, barriers and hints become other instructions, and what has
  the bits of an ARM ADR or LDR without being one becomes a load (77, 112, 153); other instructions that
  use the PC are copied as they are, and behind an IT follows a NOP (270, 430, 595); literals are
  read when the hook is registered (243, 377, 579).
* 64-bit copies (`fix64`): half of a field's range is taken for all of it
  (`And64InlineHook.cpp:136`); backward references of conditional branches, loads and ADR
  are taken as unsigned (211, 292, 349), and a load so mistaken may be copied from where nothing is
  (308); literals are read when the hook is set (303); the low bits of an ADR's offset go into its
  register (378).
* Threads in a function that the prologue called from beneath the patch return into the patch
  (`hook`, `called`; `inlineHook.c:99-104`).
* Wrong boundaries of long prologues (`relocate`, condition `count <= OrigSlots` of
  `MigrationExact`; `faults`). The full table that is written through (`faults`,
  `pc = "crashed"`), and the entry that is used so often that its count leaves the arrays (`faults`,
  `pc = "overrun"`; `relocate`, `Inside`). The caller that is not the main thread and stops itself, `free` that waits for
  a stopped thread (`faults`, `Wedged`); the child of that caller never lets go of any of the threads it
  has stopped, and a load behind it finds its function already registered and
  leaves without the hook (`native`, `stopped`). Threads derailed when a function is released (`exposed`). The write through
  a full table in the load path (`crash = "full"`) takes one load more than `native` has, and is covered
  by the proofs alone.
* A stream that is opened to probe for a dump is never closed (`fileutils.cpp:23`): each dex that was
  dumped before costs a descriptor, and `low` needs one for every call.
* Two threads may both pass the test of `is_hook` (`native.cpp:13`); in a 64-bit process the
  second then copies the patch of the first, and the replacement calls itself; in a 32-bit one both
  may be given the same entry of the hook table (`inlineHook.c:225-236`), or each an entry of its own for
  one function. A 64-bit hook
  that failed is reported complete (`native.cpp:53`): no dex is dumped and no later load
  tries again.
* A copy is executed without having been flushed, by either hook (`inlineHook.c:276`,
  `And64InlineHook.cpp:562`), while both flush the patch.
* Replacements with other parameters than their callers pass: Android 9 and 10 in a
  64-bit process, Android 10 in a 32-bit one (`Unfit` in `NativeDump`); and no 64-bit replacement keeps
  X8, in which the caller passes the address of the result (`Fits`).
* Three `mprotect` are not checked (`dlopen.c:38`, 44, `inlineHook.c:337`), nor is `mkdirs`
  (`XposedInit.java:47`). A package name may be read half written (`fileutils.cpp:46`).

## 6. Not modelled

Not modelled, with the reason:

* Logging, the user interface, the build, the generated example tests: no state. Of
  the packer class lists only what `PackerInfo.find` answers.
* The machine code of the stubs of `dlopen.c` and of the runtime behind them: out of reach; a
  lookup succeeds, fails, or crashes for want of a stub that can be executed. `ndk_dlclose`, `ndk_dlerror` and `ndk_dladdr` have no caller.
* `isExecutableAddr` (`inlineHook.c:201`): what it reads is outside the repository; `Register` of
  `NativeDump` has its refusal. What follows in `InlineHook` when a registration has written over its
  entry's fields (`"overrun"`). Functions called from a prologue that are themselves hooked. More than 1024 threads (144) and a failing `mmap`
  (274): the code does not handle them, and what follows is not defined. Children of the process
  other than the tracer, for which `wait` (183) might return: there are none.
* The nesting of the Java class-loading hooks (`LowSdkDump.java:47-88`), which depends on
  the class loader of the packer. Short writes of the Java writer next to the native one.
* `A64HookFunctionV` without a result: the program always passes one. Which of the two patches
  `A64HookFunction` writes is the constant `Patched`; that a B is also taken for
  distances it does not reach (`And64InlineHook.cpp:533`), as in the jump back and
  in copied branches, is modelled in `And64Fix` alone.
