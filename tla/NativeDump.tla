----------------------------- MODULE NativeDump -----------------------------
(***************************************************************************)
(* One process of a packed application: handleLoadPackage for each package *)
(* loaded into it (XposedInit.java), Native.dump with everything it sets   *)
(* up before it hooks (native.cpp, dlopen.c, init_package_name), the hook  *)
(* itself, and the runtime opening dex files.                              *)
(*                                                                         *)
(* Threads load packages at the same time, and nothing of what they share  *)
(* is locked: the hook table, the copies, the package name.  Of the hook   *)
(* libraries this module leaves out what InlineHook and And64Hook are      *)
(* about: how the patch is written under threads inside the function.      *)
(***************************************************************************)
EXTENDS DeviceSelect

CONSTANTS
    Loaders,      \* threads that load packages
    Main,         \* the main thread
    Packages,     \* packages loaded into the process
    Processes,    \* the processes there may be: release of the system, word size, and
                  \* which of "load", "mkdirs", "dlopen", "dlsym", "register", "fork",
                  \* "attach", "mprotect" may fail, or "cold" happen: a cache that does
                  \* not know code just written
    Packings,     \* what each package is packed with, a PackerInfo.Type or "none"
    TableSize,    \* entries of info.item, 1024 in the code
    MaxLoads,     \* bound on the packages loaded
    NoPackage

ASSUME LoaderAssumption == Main \in Loaders /\ NoPackage \notin Packages
ASSUME DeviceAssumption ==
    /\ Processes \subseteq (Nat \ {0}) \X {32, 64} \X SUBSET STRING
    /\ Packings \subseteq [Packages -> {"QI_HOO", "AI_JIA_MI", "BANG_BANG", "TENCENT",
                                        "BAI_DU", "none"}]
    /\ TableSize \in Nat \ {0} /\ MaxLoads \in Nat

VARIABLES
    sdk, bits,    \* the device and the process
    faults,       \* what may fail in it
    packer,       \* what each package is packed with
    class,        \* the class Native: "new", "loaded" or "failed"
    pc, pkg,      \* where each thread is, and for which package
    at,           \* the entry of the table it works on: item, a pointer
    stopped,      \* threads stopped for ever, by a child whose parent is one of them
    loads,        \* packages loaded so far
    begun, dirs,  \* packages handled; those whose dump directory exists
    java,         \* packages for which newApplication is hooked
    is_hook,      \* native.cpp
    pname,        \* fileutils.cpp: the name in the buffer, in two halves
    SDK_INT,      \* dlopen.c
    stub,         \* dlopen.c: the stub page: "empty", "filled", or "inert"
                  \* when it is filled and must not be executed
    code,         \* the function: "own" or "patch"
    copies,       \* the pages (32 bits) or rows (64 bits) taken, and what is in them
    item, size,   \* info.item, info.size
    old,          \* the pointers old_...: 0, or which copy
    overlap,      \* history: a package was loaded while another was in work
    crash         \* why the process died, or "no"

device  == <<sdk, bits, faults, packer>>
thread  == <<pc, pkg, at, stopped, loads, overlap>>
xposed  == <<class, begun, dirs, java>>
dlopen  == <<SDK_INT, stub>>
table   == <<item, size>>
hook    == <<code, copies, table, old>>
vars    == <<device, thread, xposed, dlopen, hook, is_hook, pname, crash>>

Entries == 1 .. TableSize
Blank   == [target |-> FALSE, saved |-> "none", copy |-> 0, status |-> "REGISTERED"]

Init ==
    /\ \E d \in Processes : sdk = d[1] /\ bits = d[2] /\ faults = d[3]
    /\ packer \in Packings
    /\ class = "new"
    /\ pc = [t \in Loaders |-> "idle"]
    /\ pkg = [t \in Loaders |-> NoPackage]
    /\ at = [t \in Loaders |-> 0]
    /\ stopped = {}
    /\ loads = 0 /\ overlap = FALSE
    /\ begun = {} /\ dirs = {} /\ java = {}
    /\ is_hook = FALSE
    /\ pname = <<NoPackage, NoPackage>>
    /\ SDK_INT = 0 /\ stub = "empty"
    /\ code = "own"
    /\ copies = <<>>
    /\ item = [k \in Entries |-> Blank] /\ size = 0
    /\ old = [x \in Replacements |-> 0]
    /\ crash = "no"

At(t, here)   == crash = "no" /\ t \notin stopped /\ pc[t] = here
Goto(t, next) == pc' = [pc EXCEPT ![t] = next]
Crash(why)    == crash' = why /\ UNCHANGED pc

\* Native.dump returns, or throws out of handleLoadPackage.
Back(t) == Goto(t, IF UsesOreoDump(sdk) THEN "idle" ELSE "java")

-----------------------------------------------------------------------------
(* handleLoadPackage *)

\* PackerInfo.find, the directory, and the choice between OreoDump and
\* LowSdkDump.  A package that is not packed is left alone; what mkdirs returns
\* is ignored.
Load(t, p) ==
    /\ At(t, "idle") /\ loads < MaxLoads /\ packer[p] # "none"
    /\ loads' = loads + 1
    /\ overlap' = (overlap \/ \E u \in Loaders : pc[u] # "idle")
    /\ pkg' = [pkg EXCEPT ![t] = p]
    /\ begun' = begun \cup {p}
    /\ dirs' = dirs \cup {p} \/ ("mkdirs" \in faults /\ dirs' = dirs)
    /\ Goto(t, IF UsesOreoDump(sdk) \/ supportNativeHook(sdk) THEN "class" ELSE "java")
    /\ UNCHANGED <<device, at, stopped, class, java, dlopen, hook, is_hook, pname, crash>>

\* The static initialiser of Native.  When neither library can be loaded the
\* error leaves handleLoadPackage, now and at every later use of the class.
LoadClass(t) ==
    /\ At(t, "class")
    /\ \/ /\ class # "failed"
          /\ class' = "loaded"
          /\ Goto(t, "test")
       \/ /\ class = "failed" \/ (class = "new" /\ "load" \in faults)
          /\ class' = "failed"
          /\ Goto(t, "idle")
    /\ UNCHANGED <<device, pkg, at, stopped, loads, overlap, begun, dirs, java, dlopen, hook,
                   is_hook,
                   pname, crash>>

\* Mutant of HookJava: it follows Native.dump only if that has hooked.
HookJavaIfNative(t) ==
    /\ At(t, "java")
    /\ java' = IF packer[pkg[t]] = "BAI_DU" \/ ~is_hook THEN java ELSE java \cup {pkg[t]}
    /\ Goto(t, "idle")
    /\ UNCHANGED <<device, pkg, at, stopped, loads, overlap, class, begun, dirs, dlopen, hook,
                   is_hook,
                   pname, crash>>

\* What LowSdkDump.init does after Native.dump.
HookJava(t) ==
    /\ At(t, "java")
    /\ java' = IF packer[pkg[t]] = "BAI_DU" THEN java ELSE java \cup {pkg[t]}
    /\ Goto(t, "idle")
    /\ UNCHANGED <<device, pkg, at, stopped, loads, overlap, class, begun, dirs, dlopen, hook,
                   is_hook,
                   pname, crash>>

-----------------------------------------------------------------------------
(* Native.dump *)

Test(t) ==
    /\ At(t, "test")
    /\ IF is_hook THEN Back(t) ELSE Goto(t, "name")
    /\ UNCHANGED <<device, pkg, at, stopped, loads, overlap, xposed, dlopen, hook, is_hook, pname,
                   crash>>

\* Mutant of Name: the rest of the name is not stored.
NameHead(t) ==
    /\ At(t, "name")
    /\ pname' = [pname EXCEPT ![1] = pkg[t]]
    /\ Goto(t, "ndk_init")
    /\ UNCHANGED <<device, pkg, at, stopped, loads, overlap, xposed, dlopen, hook, is_hook, crash>>

\* init_package_name: strcpy, whose stores to the buffer others may see, and
\* interleave with theirs.
Name(t) ==
    /\ \/ /\ At(t, "name")
          /\ pname' = [pname EXCEPT ![1] = pkg[t]]
          /\ Goto(t, "name_rest")
       \/ /\ At(t, "name_rest")
          /\ pname' = [pname EXCEPT ![2] = pkg[t]]
          /\ Goto(t, "ndk_init")
    /\ UNCHANGED <<device, pkg, at, stopped, loads, overlap, xposed, dlopen, hook, is_hook, crash>>

\* ndk_init, up to where SDK_INT is set.
Publish(t) ==
    /\ At(t, "ndk_init")
    /\ SDK_INT' = sdk
    /\ Goto(t, IF SDK_INT = 0 /\ sdk >= 24 THEN "stub" ELSE "dlopen")
    /\ UNCHANGED <<device, pkg, at, stopped, loads, overlap, xposed, stub, hook, is_hook, pname,
                   crash>>

\* Mutant of FillStub: the page is left empty.
FillNothing(t) ==
    /\ At(t, "stub")
    /\ Goto(t, "dlopen")
    /\ UNCHANGED <<device, pkg, at, stopped, loads, overlap, xposed, dlopen, hook, is_hook, pname,
                   crash>>

\* The rest of ndk_init: the two stubs and the pointers to them.  Neither
\* mprotect is checked: without the first the page is filled, being data, but
\* is not code; without the second the store over FatalError faults.
FillStub(t) ==
    /\ At(t, "stub")
    /\ \/ stub' = "filled" /\ Goto(t, "dlopen") /\ UNCHANGED crash
       \/ "mprotect" \in faults /\ stub' = "inert" /\ Goto(t, "dlopen") /\ UNCHANGED crash
       \/ "mprotect" \in faults /\ Crash("protected") /\ UNCHANGED stub
    /\ UNCHANGED <<device, pkg, at, stopped, loads, overlap, xposed, SDK_INT, hook, is_hook, pname>>

\* Mutant of Lookup: a lookup that failed is tried again.
LookupRetrying(t, here, found, fails) ==
    /\ At(t, here)
    /\ \/ found /\ Goto(t, IF here = "dlopen" THEN "dlsym" ELSE "hook")
       \/ fails /\ Goto(t, "dlopen")
    /\ UNCHANGED <<device, pkg, at, stopped, loads, overlap, xposed, dlopen, hook, is_hook, pname,
                   crash>>

\* ndk_dlopen or ndk_dlsym, which go through the stub from Android 7 on, as far
\* as it is there, may be executed and has reached the cache, which nothing
\* flushes; on failure Native.dump returns.
Lookup(t, here, found, fails) ==
    /\ At(t, here)
    /\ \/ SDK_INT >= 24 /\ stub = "empty" /\ Crash("stub")
       \/ SDK_INT >= 24 /\ stub = "inert" /\ Crash("protected")
       \/ SDK_INT >= 24 /\ "cold" \in faults /\ Crash("cold")
       \/ /\ SDK_INT < 24 \/ stub = "filled"
          /\ \/ found /\ Goto(t, IF here = "dlopen" THEN "dlsym" ELSE "hook")
             \/ fails /\ Back(t)
          /\ UNCHANGED crash
    /\ UNCHANGED <<device, pkg, at, stopped, loads, overlap, xposed, dlopen, hook, is_hook, pname>>

Dlopen(t) == Lookup(t, "dlopen", TRUE, "dlopen" \in faults)
Dlsym(t)  == Lookup(t, "dlsym", Symbol(sdk) # <<>>, Symbol(sdk) = <<>> \/ "dlsym" \in faults)

-----------------------------------------------------------------------------
(* registerInlineHook *)

\* Entries that a search for the function stops at, REGISTERED or HOOKED.
Found == {k \in Entries : k <= size /\ item[k].target}

\* The search.  A function that has an entry, or is in no executable mapping, is
\* refused.
Register(t) ==
    /\ At(t, "hook") /\ bits = 32
    /\ \/ Found = {} /\ Goto(t, "add")
       \/ (Found # {} \/ "register" \in faults) /\ Back(t)
    /\ UNCHANGED <<device, pkg, at, stopped, loads, overlap, xposed, dlopen, hook, is_hook, pname,
                   crash>>

\* addInlineHookItem: a pointer to the entry behind the last, or none, through
\* which the caller writes.
Take(t) ==
    /\ At(t, "add")
    /\ \/ /\ size < TableSize
          /\ at' = [at EXCEPT ![t] = size + 1]
          /\ Goto(t, "size") /\ UNCHANGED crash
       \/ size >= TableSize /\ Crash("full") /\ UNCHANGED at
    /\ UNCHANGED <<device, pkg, stopped, loads, overlap, xposed, dlopen, hook, is_hook, pname>>

\* ++info.size, of the value read before or of the one there now, which another
\* thread may have raised; then the target, at which searches stop, and malloc.
Add(t) ==
    /\ At(t, "size")
    /\ size' \in {at[t], size + 1}
    /\ item' = [item EXCEPT ![at[t]].target = TRUE, ![at[t]].saved = "unset"]
    /\ Goto(t, "save")
    /\ UNCHANGED <<device, pkg, at, stopped, loads, overlap, xposed, dlopen, code, copies, old,
                   is_hook,
                   pname, crash>>

\* memcpy of the function's bytes.
Save(t) ==
    /\ At(t, "save")
    /\ item' = [item EXCEPT ![at[t]].saved = code]
    /\ Goto(t, "map")
    /\ UNCHANGED <<device, pkg, at, stopped, loads, overlap, xposed, dlopen, code, copies, size,
                   old,
                   is_hook, pname, crash>>

\* mmap of a page for the copy.
Map(t) ==
    /\ At(t, "map")
    /\ copies' = Append(copies, "empty")
    /\ item' = [item EXCEPT ![at[t]].copy = Len(copies')]
    /\ Goto(t, "relocate")
    /\ UNCHANGED <<device, pkg, at, stopped, loads, overlap, xposed, dlopen, code, size, old,
                   is_hook,
                   pname, crash>>

\* relocateInstruction, from the bytes and to the page that the entry names by
\* then, and the status.
Relocate(t) ==
    /\ At(t, "relocate")
    /\ copies' = [copies EXCEPT ![item[at[t]].copy] = item[at[t]].saved]
    /\ item' = [item EXCEPT ![at[t]].status = "REGISTERED"]
    /\ Goto(t, "inlineHook")
    /\ UNCHANGED <<device, pkg, at, stopped, loads, overlap, xposed, dlopen, code, size, old,
                   is_hook,
                   pname, crash>>

-----------------------------------------------------------------------------
(* inlineHook, 32 bits *)

\* The search for the first entry of the function, and the test of its status.
InlineHook(t) ==
    /\ At(t, "inlineHook")
    /\ \/ /\ Found = {} /\ Back(t)
          /\ UNCHANGED at
       \/ \E k \in Found :
            /\ \A j \in Found : k <= j
            /\ IF item[k].status = "REGISTERED"
               THEN at' = [at EXCEPT ![t] = k] /\ Goto(t, "freeze")
               ELSE Back(t) /\ UNCHANGED at
    /\ UNCHANGED <<device, pkg, stopped, loads, overlap, xposed, dlopen, hook, is_hook, pname,
                   crash>>

\* The threads that the child of t attaches to: all but the main one, or none
\* without a child, or only some.
Attached(W) ==
    \/ W = Loaders \ {Main}
    \/ "fork" \in faults /\ W = {}
    \/ "attach" \in faults /\ W \subseteq Loaders \ {Main}

\* freeze: a child that stops its own parent is never told to go on, and holds
\* all others it has stopped.
Freeze(t) ==
    /\ At(t, "freeze")
    /\ \E W \in SUBSET (Loaders \ {Main}) :
          /\ Attached(W) /\ t \in W
          /\ stopped' = stopped \cup W
    /\ UNCHANGED <<device, pc, pkg, at, loads, overlap, xposed, dlopen, hook, is_hook, pname,
                   crash>>

\* doInlineHook, after a freeze that does not stop the caller; mprotect is not
\* checked, and without it the first store of the patch faults.
Patch(t) ==
    /\ At(t, "freeze")
    /\ \E W \in SUBSET (Loaders \ {Main}) : Attached(W) /\ t \notin W
    /\ old' = [old EXCEPT ![OldPointer(sdk, bits)] = item[at[t]].copy]
    /\ \/ /\ code' = "patch"
          /\ item' = [item EXCEPT ![at[t]].status = "HOOKED"]
          /\ Goto(t, "done") /\ UNCHANGED crash
       \/ /\ "mprotect" \in faults /\ Crash("protected")
          /\ UNCHANGED <<code, item>>
    /\ UNCHANGED <<device, pkg, at, stopped, loads, overlap, xposed, dlopen, copies, size,
                   is_hook, pname>>

-----------------------------------------------------------------------------
(* A64HookFunction *)

\* Mutant of Allocate64: the pointer is to the row after the one taken.
AllocateNext64(t) ==
    /\ At(t, "hook") /\ bits = 64
    /\ copies' = Append(copies, "empty")
    /\ at' = [at EXCEPT ![t] = Len(copies')]
    /\ old' = [old EXCEPT ![OldPointer(sdk, bits)] = Len(copies') + 1]
    /\ Goto(t, "fix")
    /\ UNCHANGED <<device, pkg, stopped, loads, overlap, xposed, dlopen, code, table, is_hook,
                   pname,
                   crash>>

\* FastAllocateTrampoline and the old pointer.
Allocate64(t) ==
    /\ At(t, "hook") /\ bits = 64
    /\ copies' = Append(copies, "empty")
    /\ at' = [at EXCEPT ![t] = Len(copies')]
    /\ old' = [old EXCEPT ![OldPointer(sdk, bits)] = Len(copies')]
    /\ Goto(t, "fix")
    /\ UNCHANGED <<device, pkg, stopped, loads, overlap, xposed, dlopen, code, table, is_hook,
                   pname,
                   crash>>

\* __fix_instructions
Copy64(t) ==
    /\ At(t, "fix")
    /\ copies' = [copies EXCEPT ![at[t]] = code]
    /\ Goto(t, "patch")
    /\ UNCHANGED <<device, pkg, at, stopped, loads, overlap, xposed, dlopen, code, table, old,
                   is_hook,
                   pname, crash>>

\* Its patch; it returns nothing, so that its caller goes on as if it had hooked.
Patch64(t) ==
    /\ At(t, "patch")
    /\ \/ /\ code' = "patch"
          /\ UNCHANGED old
       \/ /\ "mprotect" \in faults
          /\ old' = [old EXCEPT ![OldPointer(sdk, bits)] = 0]
          /\ UNCHANGED code
    /\ Goto(t, "done")
    /\ UNCHANGED <<device, pkg, at, stopped, loads, overlap, xposed, dlopen, copies, table, is_hook,
                   pname, crash>>

\* "hook init complete"
Complete(t) ==
    /\ At(t, "done")
    /\ is_hook' = TRUE
    /\ Back(t)
    /\ UNCHANGED <<device, pkg, at, stopped, loads, overlap, xposed, dlopen, hook, pname, crash>>

-----------------------------------------------------------------------------
\* The runtime opens a dex file: the replacement calls its own pointer to the
\* original.  A copy of a patch leads into the replacement again, without end;
\* an original that does not get what its caller passed may do anything; the
\* pool of rows is made executable without a check, and no copy is flushed.
OpenDex ==
    LET copy == old[Replacement(sdk, bits)] IN
    /\ crash = "no" /\ code = "patch"
    /\ \/ copy = 0 /\ crash' = "null"
       \/ copy # 0 /\ copies[copy] # "own" /\ crash' = copies[copy]
       \/ ~Fits(sdk, bits) /\ crash' = "unfit"
       \/ "mprotect" \in faults /\ bits = 64 /\ crash' = "protected"
       \/ "cold" \in faults /\ crash' = "cold"
    /\ UNCHANGED <<device, thread, xposed, dlopen, hook, is_hook, pname>>

Step(t) == \/ LoadClass(t) \/ HookJava(t) \/ Test(t) \/ Name(t) \/ Publish(t) \/ FillStub(t)
           \/ Dlopen(t) \/ Dlsym(t) \/ Register(t) \/ Take(t) \/ Add(t) \/ Save(t) \/ Map(t)
           \/ Relocate(t) \/ InlineHook(t) \/ Freeze(t) \/ Patch(t)
           \/ Allocate64(t) \/ Copy64(t) \/ Patch64(t) \/ Complete(t)

Next == (\E t \in Loaders : Step(t) \/ \E p \in Packages : Load(t, p)) \/ OpenDex

Spec == Init /\ [][Next]_vars

\* The scheduler runs every thread that can run.
FairSpec == Spec /\ \A t \in Loaders : WF_vars(Step(t))

-----------------------------------------------------------------------------
Places == {"idle", "class", "test", "name", "name_rest", "ndk_init", "stub", "dlopen", "dlsym",
           "hook", "add", "size", "save", "map", "relocate", "inlineHook", "freeze", "fix", "patch",
           "done", "java"}

Contents == {"none", "unset", "own", "patch", "empty"}

\* A thread works on an entry of the table, or on a row it took.
PointersOK ==
    \A t \in Loaders :
        /\ pc[t] \in {"size", "save", "map", "relocate", "freeze"} => at[t] \in Entries
        /\ pc[t] \in {"fix", "patch"} => at[t] \in 1 .. Len(copies)

\* Type invariant: a thread is in no other place than those, and no pointer leads
\* beyond the entries and the copies there are (native.cpp:10-55, deviceutils.cpp:209-227).
TypeOK ==
    /\ <<sdk, bits, faults>> \in Processes /\ packer \in Packings
    /\ class \in {"new", "loaded", "failed"}
    /\ pc \in [Loaders -> Places]
    /\ pkg \in [Loaders -> Packages \cup {NoPackage}]
    /\ at \in [Loaders -> Nat] /\ PointersOK
    /\ stopped \subseteq Loaders \ {Main}
    /\ loads \in 0 .. MaxLoads /\ overlap \in BOOLEAN
    /\ begun \subseteq Packages /\ dirs \subseteq begun /\ java \subseteq begun
    /\ is_hook \in BOOLEAN /\ stub \in {"empty", "filled", "inert"}
    /\ pname \in [1 .. 2 -> Packages \cup {NoPackage}]
    /\ SDK_INT \in {0, sdk}
    /\ code \in {"own", "patch"} /\ copies \in Seq(Contents)
    /\ item \in [Entries -> [target : BOOLEAN, saved : Contents, copy : 0 .. Len(copies),
                             status : {"REGISTERED", "HOOKED"}]]
    /\ size \in Nat
    /\ old \in [Replacements -> 0 .. Len(copies)]
    /\ crash \in {"no", "protected", "cold", "unfit", "full", "stub", "null"} \cup Contents

\* What the replacement would name a dump after: once it can be reached, each half
\* of the name is that of a package loaded before, also while one name is
\* copied over another.  With packages loaded one after the other it is one name,
\* and its directory is there unless mkdirs failed
\* (native.cpp:20, fileutils.cpp:13-17, 46, XposedInit.java:44-48).
DumpsUnderAName ==
    code = "patch" =>
        /\ {pname[1], pname[2]} \subseteq begun
        /\ ~overlap => /\ pname[1] = pname[2]
                       /\ pname[1] \in dirs \/ "mkdirs" \in faults

\* Packages loaded one after the other do not crash the process, whatever failed
\* while an earlier one was loaded, unless a protection is not changed, a cache is
\* not up to date, or the original does not get what its caller passed: the stub is
\* filled before it is used, and the pointer that the replacement calls is the one
\* that was set, and leads to a finished copy of the function.  Of packages loaded at
\* the same time a thread may use the stub page while another is to fill it, and
\* two may hook the function (dlopen.c:30-36, 38, 44, 124-131, native.cpp:16, 35,
\* inlineHook.c:225-236, 262-278, deviceutils.cpp:209-247).
OnlyRacesCrash ==
    /\ crash # "no" => \/ overlap
                       \/ crash = "protected" /\ "mprotect" \in faults
                       \/ crash = "cold" /\ "cold" \in faults
                       \/ crash = "unfit" /\ ~Fits(sdk, bits)
    /\ crash = "stub" => \E t \in Loaders : pc[t] = "stub"

\* Before Android 8, when no load is in progress, the loadClass hooks back up the native
\* one for every package not packed by Baidu, whatever failed in Native.dump; but
\* for an error in the class Native itself (LowSdkDump.java:30-46, Native.java:15-22).
JavaBacksUp ==
    (~UsesOreoDump(sdk) /\ class # "failed" /\ \A t \in Loaders : pc[t] = "idle")
        => \A p \in begun : p \in java \/ packer[p] = "BAI_DU"

\* The devices whose callers pass other arguments than the replacement declares: no
\* replacement was written for them.
Unfit == {<<28, 64>>, <<29, 64>>, <<29, 32>>}

\* A replacement declares exactly the arguments its caller passes on every device but
\* those in Unfit, and on no other; that the original gets all it was passed is so in
\* 32-bit processes alone, where the address of the result is an argument
\* (deviceutils.cpp:51-78, 82-207, 229-247).
ReplacementFits ==
    code = "patch" => /\ ArgumentsFit(sdk, bits) <=> <<sdk, bits>> \notin Unfit
                      /\ Fits(sdk, bits) <=> bits = 32 /\ sdk # 29

\* When nothing fails, loading a packed package on a release that Java hands to
\* Native.dump hooks the function eventually, on every word size; but for a process
\* that crashes and for threads that were stopped for ever (XposedInit.java:50,
\* native.cpp:10-55, deviceutils.cpp:51-78).
EventuallyHooked ==
    (faults = {} /\ loads > 0 /\ (UsesOreoDump(sdk) \/ supportNativeHook(sdk)))
        ~> (code = "patch" \/ crash # "no" \/ stopped # {})

\* A load ends, whatever fails, unless the process crashes or some thread stopped
\* itself and all others its child attached to, which may hold any lock
\* (native.cpp:16-55, LowSdkDump.java:30-46, inlineHook.c:86, 155-160).
LoadsEnd == \A t \in Loaders : pc[t] # "idle" ~> (pc[t] = "idle" \/ stopped # {} \/ crash # "no")
=============================================================================
