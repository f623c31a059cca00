--------------------------- MODULE NativeDumpProofs ---------------------------
(***************************************************************************)
(* What loading packages guarantees for any number of threads, packages,   *)
(* loads and releases, and wherever a step of Native.dump fails.           *)
(***************************************************************************)
EXTENDS NativeDump, TLAPS

USE LoaderAssumption, DeviceAssumption

\* Places behind init_package_name.
Named == {"ndk_init", "stub", "dlopen", "dlsym", "hook", "add", "size", "save", "map",
          "relocate", "inlineHook", "freeze", "fix", "patch", "done"}

\* Places between the test of is_hook and the patch.
Hooking == (Named \ {"done"}) \cup {"name", "name_rest"}

\* A package in work has been handled, and its directory made unless mkdirs
\* failed; the halves of its name are stored before anything is hooked
\* (XposedInit.java:44-48, native.cpp:20).
NameInv ==
    /\ \A t \in Loaders : pc[t] # "idle" => /\ pkg[t] \in begun
                                            /\ pkg[t] \in dirs \/ "mkdirs" \in faults
    /\ \A t \in Loaders : pc[t] \in Named \cup {"name_rest"} => pname[1] \in begun
    /\ \A t \in Loaders : pc[t] \in Named => pname[2] \in begun
    /\ code = "patch" => pname[1] \in begun /\ pname[2] \in begun

\* Native.dump is entered, and a function hooked, only where there is a symbol
\* (XposedInit.java:50-54, LowSdkDump.java:31).
SymInv ==
    /\ \A t \in Loaders : pc[t] \notin {"idle", "java"}
           => UsesOreoDump(sdk) \/ supportNativeHook(sdk)
    /\ code = "patch" => UsesOreoDump(sdk) \/ supportNativeHook(sdk)

\* A package is in java, needs no hook there, or is in work
\* (LowSdkDump.java:30-46).
JavaInv ==
    (~UsesOreoDump(sdk) /\ class # "failed") =>
        \A p \in begun : \/ p \in java \/ packer[p] = "BAI_DU"
                         \/ \E t \in Loaders : pc[t] # "idle" /\ pkg[t] = p

\* Whoever published the release is still about to fill the page, or has filled
\* it; each crash that is nobody's race has its cause (dlopen.c:30-44, 124-131).
StubInv ==
    /\ (SDK_INT >= 24 /\ stub = "empty") => \E t \in Loaders : pc[t] = "stub"
    /\ stub = "inert" => "mprotect" \in faults
    /\ crash = "stub" => \E t \in Loaders : pc[t] = "stub"
    /\ crash = "protected" => "mprotect" \in faults
    /\ crash = "cold" => "cold" \in faults
    /\ crash = "unfit" => ~Fits(sdk, bits)

\* What a thread that is alone has reached by the place where it is.
Ready(t) ==
    /\ pc[t] \in Hooking => code = "own" /\ ~is_hook
    /\ pc[t] = "name_rest" => pname[1] = pkg[t]
    /\ pc[t] \in Named => pname[1] = pkg[t] /\ pname[2] = pkg[t]
    /\ pc[t] \in {"add", "size"} => size = 0
    /\ pc[t] \in {"size", "save", "map", "relocate", "freeze"} => at[t] = 1
    /\ pc[t] \in {"map", "relocate"} => item[1].saved = "own"
    /\ pc[t] = "relocate" => item[1].copy # 0
    /\ pc[t] \in {"inlineHook", "freeze"} =>
          item[1].copy # 0 /\ copies[item[1].copy] = "own"
    /\ pc[t] \in {"fix", "patch"} =>
          at[t] # 0 /\ at[t] <= Len(copies) /\ old[OldPointer(sdk, bits)] = at[t]
    /\ pc[t] = "patch" => copies[at[t]] = "own"

\* What a hook made by a thread that was alone leaves.
Hooked ==
    /\ old[OldPointer(sdk, bits)] # 0 /\ copies[old[OldPointer(sdk, bits)]] = "own"
    /\ pname[1] = pname[2]
    /\ pname[1] \in dirs \/ "mkdirs" \in faults

\* While no package is loaded behind another's back: one thread is at work and
\* finds what it left; nothing is hooked behind is_hook; the function is hooked
\* once, and the pointer set leads to a copy of it (native.cpp:16-54).
SoloInv ==
    ~overlap =>
      /\ \A t, u \in Loaders : pc[t] # "idle" /\ pc[u] # "idle" => t = u
      /\ \A t \in Loaders : Ready(t)
      /\ is_hook => \A t \in Loaders : pc[t] \in {"idle", "class", "test", "java"}
      /\ code = "patch" => is_hook \/ \E t \in Loaders : pc[t] = "done"
      /\ code = "patch" => Hooked
      /\ size \in {0, 1} /\ (size = 1 => item[1].target)
      /\ crash \in {"no", "protected", "cold", "unfit"}

DumpInv == TypeOK /\ NameInv /\ SymInv /\ JavaInv /\ StubInv /\ SoloInv

\* On every release on which a package gets as far as the lookup, there is a
\* symbol to look up: the Java and the C++ side agree on the releases, each with
\* its own tests (XposedInit.java:50, DeviceUtils.java:18-40, deviceutils.cpp:51-78).
LookupHasSymbol == \A t \in Loaders : pc[t] \in {"dlopen", "dlsym"} => Symbol(sdk) # <<>>

\* "hooked ignore": as long as packages are loaded one after the other, a load
\* after the hook is there changes nothing of the hook, nor the name that dumps
\* are stored under (native.cpp:16-19).
HookedIgnores == [][is_hook /\ ~overlap' => UNCHANGED <<pname, hook, dlopen, is_hook>>]_vars

\* A process is one of those there may be.
LEMMA ProcessTypes ==
    ASSUME TypeOK
    PROVE  sdk \in Nat \ {0} /\ bits \in {32, 64} /\ faults \in SUBSET STRING
  BY DEF TypeOK

LEMMA InitDump == Init => DumpInv
  <1> SUFFICES ASSUME Init
               PROVE  DumpInv
    OBVIOUS
  <1>1. copies = <<>> /\ Len(copies) = 0 /\ copies \in Seq(Contents)
    BY DEF Init
  <1>2. TypeOK
    <2>1. pc \in [Loaders -> Places] /\ pkg \in [Loaders -> Packages \cup {NoPackage}]
          /\ at \in [Loaders -> Nat] /\ PointersOK /\ pname \in [1 .. 2 -> Packages \cup {NoPackage}]
      BY DEF Init, Places, PointersOK
    <2>2. old \in [Replacements -> 0 .. Len(copies)] /\ loads \in 0 .. MaxLoads
      BY <1>1 DEF Init
    <2>3. item \in [Entries -> [target : BOOLEAN, saved : Contents, copy : 0 .. Len(copies),
                                status : {"REGISTERED", "HOOKED"}]]
      <3>1. Blank \in [target : BOOLEAN, saved : Contents, copy : 0 .. Len(copies),
                       status : {"REGISTERED", "HOOKED"}]
        BY <1>1 DEF Blank, Contents
      <3> QED
        BY <3>1 DEF Init
    <2>4. <<sdk, bits, faults>> \in Processes
      <3>1. PICK d \in Processes : sdk = d[1] /\ bits = d[2] /\ faults = d[3]
        BY DEF Init
      <3>2. d = <<d[1], d[2], d[3]>>
        OBVIOUS
      <3> QED
        BY <3>1, <3>2
    <2> QED
      BY <1>1, <2>1, <2>2, <2>3, <2>4 DEF Init, TypeOK
  <1>3. NameInv /\ SymInv /\ JavaInv /\ StubInv
    BY DEF Init, NameInv, SymInv, JavaInv, StubInv, Named
  <1>4. SoloInv
    BY DEF Init, SoloInv, Ready, Hooking, Named
  <1> QED
    BY <1>2, <1>3, <1>4 DEF DumpInv

\* On every device the pointer that is set is that of the replacement that is
\* installed (deviceutils.cpp:209-247).
LEMMA OnePointer ==
    ASSUME TypeOK
    PROVE  /\ OldPointer(sdk, bits) = Replacement(sdk, bits)
           /\ OldPointer(sdk, bits) \in Replacements
  <1>1. bits = 32 \/ bits = 64
    BY ProcessTypes
  <1>2. Replacements = {"arm64_open_common", "arm64_open_memory", "nougat_open_memory",
                        "opencommon", "pie_open_memory"}
    BY DEF Replacements, Declared
  <1>3. OldPointer(sdk, bits) \in Replacements
    BY <1>1, <1>2 DEF OldPointer
  <1>4. OldPointer(sdk, bits) = Replacement(sdk, bits)
    <2>1. CASE bits = 32
      <3>1. CASE sdk \in Oreo
        BY <2>1, <3>1 DEF OldPointer, Replacement, Oreo, Pie
      <3>2. CASE sdk \in Pie /\ sdk \notin Oreo
        BY <2>1, <3>2 DEF OldPointer, Replacement
      <3>3. CASE sdk \notin Oreo \cup Pie
        BY <2>1, <3>3 DEF OldPointer, Replacement
      <3> QED
        BY <3>1, <3>2, <3>3
    <2>2. CASE bits = 64
      BY <2>2 DEF OldPointer, Replacement
    <2> QED
      BY <1>1, <2>1, <2>2
  <1> QED
    BY <1>3, <1>4

-----------------------------------------------------------------------------
\* Only Load, Name and the patches touch what NameInv relates.
LEMMA StepName ==
    ASSUME TypeOK, NameInv, [Next]_vars
    PROVE  NameInv'
  <1>1. ASSUME NEW t \in Loaders, NEW p \in Packages, Load(t, p)
        PROVE  NameInv'
    BY <1>1 DEF Load, NameInv, TypeOK, Named, At, Goto, device, hook
  <1>2. ASSUME NEW t \in Loaders, Name(t)
        PROVE  NameInv'
    BY <1>2 DEF Name, NameInv, TypeOK, Named, At, Goto, device, xposed, hook
  <1>3. ASSUME NEW t \in Loaders,
               LoadClass(t) \/ HookJava(t) \/ Test(t) \/ Publish(t) \/ FillStub(t) \/
               Dlopen(t) \/ Dlsym(t) \/ Complete(t)
        PROVE  NameInv'
    BY <1>3 DEF LoadClass, HookJava, Test, Publish, FillStub, Dlopen, Dlsym, Complete,
         Lookup, Back, Crash, NameInv, TypeOK, Named, At, Goto, device, thread, xposed, hook
  <1>4. ASSUME NEW t \in Loaders,
               Register(t) \/ Take(t) \/ Add(t) \/ Save(t) \/ Map(t) \/ Relocate(t) \/
               InlineHook(t) \/ Allocate64(t) \/ Copy64(t)
        PROVE  NameInv'
    <2>1. UNCHANGED <<pkg, begun, dirs, faults, pname, code>>
      BY <1>4 DEF Register, Take, Add, Save, Map, Relocate, InlineHook, Allocate64, Copy64,
           device, xposed, hook
    <2>2. pc[t] \in Named
      BY <1>4 DEF Register, Take, Add, Save, Map, Relocate, InlineHook, Allocate64, Copy64,
           At, Named
    <2>3. pc' = pc \/ \E next \in Named \cup {"idle", "java"} : pc' = [pc EXCEPT ![t] = next]
      BY <1>4 DEF Register, Take, Add, Save, Map, Relocate, InlineHook, Allocate64, Copy64,
           Back, Crash, Goto, Named
    <2> QED
      BY <2>1, <2>2, <2>3 DEF NameInv, TypeOK, Named
  <1>5. ASSUME NEW t \in Loaders, Freeze(t) \/ Patch(t) \/ Patch64(t)
        PROVE  NameInv'
    BY <1>5 DEF Freeze, Patch, Patch64, Crash, NameInv, TypeOK, Named, At, Goto, device, xposed,
         hook
  <1>6. CASE OpenDex
    BY <1>6 DEF OpenDex, NameInv, device, thread, xposed, hook
  <1>7. CASE UNCHANGED vars
    BY <1>7 DEF vars, NameInv, device, thread, xposed, hook
  <1> QED
    BY <1>1, <1>2, <1>3, <1>4, <1>5, <1>6, <1>7 DEF Next, Step

\* A thread gets into Native.dump through Load alone.
LEMMA StepSym ==
    ASSUME TypeOK, SymInv, [Next]_vars
    PROVE  SymInv'
  <1>1. ASSUME NEW t \in Loaders, NEW p \in Packages, Load(t, p)
        PROVE  SymInv'
    BY <1>1 DEF Load, SymInv, TypeOK, At, Goto, device, hook
  <1>2. ASSUME NEW t \in Loaders, Step(t)
        PROVE  SymInv'
    <2>1. UNCHANGED sdk /\ pc[t] # "idle"
      BY <1>2 DEF Step, LoadClass, HookJava, Test, Name, Publish, FillStub, Dlopen, Dlsym, Lookup,
           Register, Take, Add, Save, Map, Relocate, InlineHook, Freeze, Patch, Allocate64, Copy64,
           Patch64, Complete, At, device
    <2>2. pc[t] = "java" => pc' = [pc EXCEPT ![t] = "idle"] /\ UNCHANGED code
      BY <1>2 DEF Step, LoadClass, HookJava, Test, Name, Publish, FillStub, Dlopen, Dlsym, Lookup,
           Register, Take, Add, Save, Map, Relocate, InlineHook, Freeze, Patch, Allocate64, Copy64,
           Patch64, Complete, At, Goto, hook
    <2>3. pc' = pc \/ \E next \in Places : pc' = [pc EXCEPT ![t] = next]
      BY <1>2 DEF Step, LoadClass, HookJava, Test, Name, Publish, FillStub, Dlopen, Dlsym, Lookup,
           Register, Take, Add, Save, Map, Relocate, InlineHook, Freeze, Patch, Allocate64, Copy64,
           Patch64, Complete, Back, Crash, Goto, Places
    <2> QED
      BY <2>1, <2>2, <2>3 DEF SymInv, TypeOK
  <1>3. CASE OpenDex
    BY <1>3 DEF OpenDex, SymInv, device, thread, hook
  <1>4. CASE UNCHANGED vars
    BY <1>4 DEF vars, SymInv, device, thread, hook
  <1> QED
    BY <1>1, <1>2, <1>3, <1>4 DEF Next

\* A package leaves the works by way of HookJava, or its class has failed.
LEMMA StepJava ==
    ASSUME TypeOK, JavaInv, [Next]_vars
    PROVE  JavaInv'
  <1>1. ASSUME NEW t \in Loaders, NEW p \in Packages, Load(t, p)
        PROVE  JavaInv'
    BY <1>1 DEF Load, JavaInv, TypeOK, At, Goto, device
  <1>2. ASSUME NEW t \in Loaders, LoadClass(t)
        PROVE  JavaInv'
    BY <1>2 DEF LoadClass, JavaInv, TypeOK, At, Goto, device
  <1>3. ASSUME NEW t \in Loaders, HookJava(t)
        PROVE  JavaInv'
    BY <1>3 DEF HookJava, JavaInv, TypeOK, At, Goto, device
  <1>4. ASSUME NEW t \in Loaders, Step(t), ~LoadClass(t), ~HookJava(t)
        PROVE  JavaInv'
    <2>1. UNCHANGED <<sdk, class, begun, java, packer, pkg>>
      BY <1>4 DEF Step, Test, Name, Publish, FillStub, Dlopen, Dlsym, Lookup,
           Register, Take, Add, Save, Map, Relocate, InlineHook, Freeze, Patch, Allocate64, Copy64,
           Patch64, Complete, device, xposed
    <2>2. \/ pc' = pc
          \/ \E next \in Places : /\ pc' = [pc EXCEPT ![t] = next]
                                  /\ next = "idle" => UsesOreoDump(sdk)
      BY <1>4 DEF Step, Test, Name, Publish, FillStub, Dlopen, Dlsym, Lookup,
           Register, Take, Add, Save, Map, Relocate, InlineHook, Freeze, Patch, Allocate64, Copy64,
           Patch64, Complete, Back, Crash, Goto, Places
    <2> QED
      BY <2>1, <2>2 DEF JavaInv, TypeOK
  <1>5. CASE OpenDex
    BY <1>5 DEF OpenDex, JavaInv, device, thread, xposed
  <1>6. CASE UNCHANGED vars
    BY <1>6 DEF vars, JavaInv, device, thread, xposed
  <1> QED
    BY <1>1, <1>2, <1>3, <1>4, <1>5, <1>6 DEF Next

\* The page is filled by the thread that published the release.
LEMMA StepStub ==
    ASSUME TypeOK, StubInv, [Next]_vars
    PROVE  StubInv'
  <1>0. SDK_INT = 0 \/ SDK_INT = sdk
    BY DEF TypeOK
  <1>1. ASSUME NEW t \in Loaders, NEW p \in Packages, Load(t, p)
        PROVE  StubInv'
    BY <1>1 DEF Load, StubInv, TypeOK, At, Goto, device, dlopen
  <1>2. ASSUME NEW t \in Loaders, Publish(t)
        PROVE  StubInv'
    BY <1>2, ProcessTypes DEF Publish, StubInv, TypeOK, At, Goto, device
  <1>3. ASSUME NEW t \in Loaders, FillStub(t)
        PROVE  StubInv'
    BY <1>3 DEF FillStub, Crash, StubInv, TypeOK, At, Goto, device
  <1>4. ASSUME NEW t \in Loaders, Dlopen(t) \/ Dlsym(t)
        PROVE  StubInv'
    BY <1>4 DEF Dlopen, Dlsym, Lookup, Crash, Back, StubInv, TypeOK, At, Goto, device, dlopen
  <1>5. ASSUME NEW t \in Loaders,
               LoadClass(t) \/ HookJava(t) \/ Test(t) \/ Name(t) \/
               Register(t) \/ Take(t) \/ Add(t) \/ Save(t) \/ Map(t) \/ Relocate(t) \/
               InlineHook(t) \/ Freeze(t) \/ Patch(t) \/ Allocate64(t) \/ Copy64(t) \/
               Patch64(t) \/ Complete(t)
        PROVE  StubInv'
    <2>1. UNCHANGED <<SDK_INT, stub, faults, sdk, bits>> /\ pc[t] # "stub" /\ crash = "no"
      BY <1>5 DEF LoadClass, HookJava, Test, Name, Register, Take, Add, Save, Map,
           Relocate, InlineHook, Freeze, Patch, Allocate64, Copy64, Patch64, Complete, At,
           device, dlopen
    <2>2. \/ crash' \in {"no", "full"}
          \/ crash' = "protected" /\ "mprotect" \in faults
      BY <1>5, <2>1 DEF LoadClass, HookJava, Test, Name, Register, Take, Add, Save, Map,
           Relocate, InlineHook, Freeze, Patch, Allocate64, Copy64, Patch64, Complete, Crash
    <2>3. pc' = pc \/ \E next \in Places : pc' = [pc EXCEPT ![t] = next]
      BY <1>5 DEF LoadClass, HookJava, Test, Name, Register, Take, Add, Save, Map,
           Relocate, InlineHook, Freeze, Patch, Allocate64, Copy64, Patch64, Complete, Crash,
           Back, Goto, Places
    <2>4. \A u \in Loaders : pc[u] = "stub" => pc'[u] = "stub"
      BY <2>1, <2>3 DEF TypeOK
    <2> QED
      BY <2>1, <2>2, <2>4 DEF StubInv
  <1>6. CASE OpenDex
    <2>1. UNCHANGED <<SDK_INT, stub, faults, sdk, bits, pc>>
      BY <1>6 DEF OpenDex, device, thread, dlopen
    <2>2. \/ crash' \in {"null"} \cup Contents
          \/ crash' = "unfit" /\ ~Fits(sdk, bits)
          \/ crash' = "protected" /\ "mprotect" \in faults
          \/ crash' = "cold" /\ "cold" \in faults
      <3>1. old[Replacement(sdk, bits)] \in 0 .. Len(copies)
        BY OnePointer DEF TypeOK
      <3>2. old[Replacement(sdk, bits)] # 0 => copies[old[Replacement(sdk, bits)]] \in Contents
        BY <3>1 DEF TypeOK
      <3> QED
        BY <1>6, <3>2 DEF OpenDex
    <2> QED
      BY <2>1, <2>2 DEF StubInv, Contents
  <1>7. CASE UNCHANGED vars
    BY <1>7 DEF vars, StubInv, device, thread, dlopen
  <1> QED
    BY <1>1, <1>2, <1>3, <1>4, <1>5, <1>6, <1>7 DEF Next, Step

-----------------------------------------------------------------------------
\* Every step leaves the process what it is, and moves one thread.
LEMMA StepMoves ==
    ASSUME TypeOK, NEW t \in Loaders, Step(t)
    PROVE  /\ UNCHANGED <<sdk, bits, faults, packer, loads, overlap, pkg, begun, dirs>>
           /\ t \notin stopped /\ crash = "no" /\ pc[t] \in Places \ {"idle"}
           /\ pc' = pc \/ \E next \in Places : pc' = [pc EXCEPT ![t] = next]
  <1>1. UNCHANGED <<sdk, bits, faults, packer, loads, overlap, pkg, begun, dirs>>
    BY DEF Step, LoadClass, HookJava, Test, Name, Publish, FillStub, Dlopen, Dlsym, Lookup,
         Register, Take, Add, Save, Map, Relocate, InlineHook, Freeze, Patch, Allocate64, Copy64,
         Patch64, Complete, device, xposed
  <1>2. t \notin stopped /\ crash = "no" /\ pc[t] \in Places \ {"idle"}
    BY DEF Step, LoadClass, HookJava, Test, Name, Publish, FillStub, Dlopen, Dlsym, Lookup,
         Register, Take, Add, Save, Map, Relocate, InlineHook, Freeze, Patch, Allocate64, Copy64,
         Patch64, Complete, At, Places
  <1>3. pc' = pc \/ \E next \in Places : pc' = [pc EXCEPT ![t] = next]
    BY DEF Step, LoadClass, HookJava, Test, Name, Publish, FillStub, Dlopen, Dlsym, Lookup,
         Register, Take, Add, Save, Map, Relocate, InlineHook, Freeze, Patch, Allocate64, Copy64,
         Patch64, Complete, Back, Crash, Goto, Places
  <1> QED
    BY <1>1, <1>2, <1>3

\* A pointer is to an entry or to a row that is there.
LEMMA StepPointers ==
    ASSUME TypeOK, NEW t \in Loaders, Step(t)
    PROVE  PointersOK'
  <1> DEFINE filling == {"size", "save", "map", "relocate", "freeze"}
             rows    == {"fix", "patch"}
  <1>0. Len(copies) \in Nat /\ size \in Nat /\ pc \in [Loaders -> Places] /\ PointersOK
        /\ at \in [Loaders -> Nat] /\ copies \in Seq(Contents)
    BY DEF TypeOK
  <1>1. Len(copies') \in Nat /\ Len(copies') >= Len(copies)
    <2>1. CASE Map(t) \/ Allocate64(t)
      <3>1. copies' = Append(copies, "empty") /\ "empty" \in Contents
        BY <2>1 DEF Map, Allocate64, Contents
      <3> QED
        BY <1>0, <3>1
    <2>2. CASE Relocate(t) \/ Copy64(t)
      <3>1. \E k, x : copies' = [copies EXCEPT ![k] = x]
        BY <2>2 DEF Relocate, Copy64
      <3>2. copies' = copies \/ DOMAIN copies' = DOMAIN copies
        BY <3>1
      <3>3. Len(copies') = Len(copies)
        BY <1>0, <3>1
      <3> QED
        BY <1>0, <3>3
    <2>3. CASE ~(Map(t) \/ Allocate64(t) \/ Relocate(t) \/ Copy64(t))
      <3>1. copies' = copies
        BY <2>3 DEF Step, LoadClass, HookJava, Test, Name, Publish, FillStub, Dlopen, Dlsym, Lookup,
             Register, Take, Add, Save, InlineHook, Freeze, Patch, Patch64, Complete, hook
      <3> QED
        BY <1>0, <3>1
    <2> QED
      BY <2>1, <2>2, <2>3
  <1>2. \A u \in Loaders \ {t} : pc'[u] = pc[u] /\ at'[u] = at[u]
    <2>1. \A u \in Loaders \ {t} : pc'[u] = pc[u]
      BY StepMoves DEF TypeOK
    <2>2. at' = at \/ \E x : at' = [at EXCEPT ![t] = x]
      BY DEF Step, LoadClass, HookJava, Test, Name, Publish, FillStub, Dlopen, Dlsym, Lookup,
           Register, Take, Add, Save, Map, Relocate, InlineHook, Freeze, Patch, Allocate64, Copy64,
           Patch64, Complete, thread
    <2> QED
      BY <1>0, <2>1, <2>2
  <1>3. pc'[t] \in filling => at'[t] \in Entries
    <2>1. CASE Take(t)
      BY <1>0, <2>1 DEF Take, Crash, At, Goto, Entries
    <2>2. CASE InlineHook(t)
      <3>1. \/ pc'[t] \notin filling
            \/ \E k \in Found : at'[t] = k
        BY <1>0, <2>2 DEF InlineHook, Back, Goto
      <3> QED
        BY <3>1 DEF Found
    <2>3. CASE ~Take(t) /\ ~InlineHook(t)
      <3>1. pc'[t] \in filling => pc[t] \in filling /\ at'[t] = at[t]
        BY <1>0, <2>3 DEF Step, LoadClass, HookJava, Test, Name, Publish, FillStub, Dlopen, Dlsym,
             Lookup, Register, Add, Save, Map, Relocate, Freeze, Patch, Allocate64, Copy64,
             Patch64, Complete, Back, Crash, At, Goto
      <3> QED
        BY <1>0, <3>1 DEF PointersOK
    <2> QED
      BY <2>1, <2>2, <2>3
  <1>4. pc'[t] \in rows => at'[t] \in 1 .. Len(copies')
    <2>1. CASE Allocate64(t)
      <3>1. copies' = Append(copies, "empty") /\ Len(copies') = Len(copies) + 1
            /\ at'[t] = Len(copies')
        BY <1>0, <2>1 DEF Allocate64
      <3> QED
        BY <1>0, <3>1
    <2>2. CASE ~Allocate64(t)
      <3>1. pc'[t] \in rows => pc[t] \in rows /\ at'[t] = at[t]
        BY <1>0, <2>2 DEF Step, LoadClass, HookJava, Test, Name, Publish, FillStub, Dlopen, Dlsym,
             Lookup, Register, Take, Add, Save, Map, Relocate, InlineHook, Freeze, Patch, Copy64,
             Patch64, Complete, Back, Crash, At, Goto
      <3> QED
        BY <1>0, <1>1, <3>1 DEF PointersOK
    <2> QED
      BY <2>1, <2>2
  <1>5. \A u \in Loaders \ {t} : pc[u] \in rows => at[u] \in 1 .. Len(copies')
    BY <1>0, <1>1 DEF PointersOK
  <1> QED
    BY <1>0, <1>2, <1>3, <1>4, <1>5 DEF PointersOK

\* An entry of the table, with n copies there.
ItemType(n) == [target : BOOLEAN, saved : Contents, copy : 0 .. n,
                status : {"REGISTERED", "HOOKED"}]

\* Setting a field of an entry to a value it may have.
LEMMA SetField ==
    ASSUME NEW n, NEW f \in [Entries -> ItemType(n)], NEW g, NEW k,
           \/ g = [f EXCEPT ![k].target = TRUE]
           \/ \E c \in Contents : g = [f EXCEPT ![k].saved = c]
           \/ \E m \in 0 .. n : g = [f EXCEPT ![k].copy = m]
           \/ \E h \in {"REGISTERED", "HOOKED"} : g = [f EXCEPT ![k].status = h]
    PROVE  g \in [Entries -> ItemType(n)]
  <1>1. CASE g = [f EXCEPT ![k].target = TRUE]
    BY <1>1 DEF ItemType
  <1>2. ASSUME NEW c \in Contents, g = [f EXCEPT ![k].saved = c]
        PROVE  g \in [Entries -> ItemType(n)]
    BY <1>2 DEF ItemType
  <1>3. ASSUME NEW m \in 0 .. n, g = [f EXCEPT ![k].copy = m]
        PROVE  g \in [Entries -> ItemType(n)]
    BY <1>3 DEF ItemType
  <1>4. ASSUME NEW h \in {"REGISTERED", "HOOKED"}, g = [f EXCEPT ![k].status = h]
        PROVE  g \in [Entries -> ItemType(n)]
    BY <1>4 DEF ItemType
  <1> QED
    BY <1>1, <1>2, <1>3, <1>4

\* Types.  A pointer is set to a copy that is there.
LEMMA StepType ==
    ASSUME TypeOK, NameInv, [Next]_vars
    PROVE  TypeOK'
  <1>0. Len(copies) \in Nat
    BY DEF TypeOK
  <1>1. ASSUME NEW t \in Loaders, NEW p \in Packages, Load(t, p)
        PROVE  TypeOK'
    <2>1. pc' \in [Loaders -> Places] /\ pkg' \in [Loaders -> Packages \cup {NoPackage}]
      BY <1>1 DEF Load, TypeOK, Places, Goto
    <2>2. begun' \subseteq Packages /\ dirs' \subseteq begun' /\ java' \subseteq begun'
      BY <1>1 DEF Load, TypeOK
    <2>3. loads' \in 0 .. MaxLoads /\ overlap' \in BOOLEAN
      BY <1>1 DEF Load, TypeOK
    <2>4. PointersOK'
      BY <1>1 DEF Load, TypeOK, PointersOK, At, Goto, hook
    <2> QED
      BY <1>1, <2>1, <2>2, <2>3, <2>4 DEF Load, TypeOK, device, dlopen, hook, table
  <1>2. ASSUME NEW t \in Loaders, Step(t)
        PROVE  TypeOK'
    <2>0. /\ UNCHANGED <<sdk, bits, faults, packer, loads, overlap, pkg, begun, dirs>>
          /\ pc[t] # "idle" /\ pc' \in [Loaders -> Places] /\ PointersOK'
      <3>1. pc \in [Loaders -> Places] /\ TypeOK
        BY DEF TypeOK
      <3>2. PointersOK'
        BY <1>2, StepPointers
      <3> QED
        BY <1>2, <3>1, <3>2, StepMoves
    <2>1. CASE LoadClass(t) \/ HookJava(t)
      <3>1. java' \subseteq begun' /\ class' \in {"new", "loaded", "failed"}
        BY <2>0, <2>1 DEF LoadClass, HookJava, NameInv, TypeOK
      <3> QED
        BY <2>0, <2>1, <3>1 DEF LoadClass, HookJava, TypeOK, dlopen, hook, table
    <2>2. CASE Test(t) \/ Register(t) \/ Complete(t)
      BY <2>0, <2>2 DEF Test, Register, Complete, TypeOK, dlopen, hook, table, xposed
    <2>3. CASE Name(t)
      <3>1. pname' \in [1 .. 2 -> Packages \cup {NoPackage}]
        BY <2>3 DEF Name, TypeOK
      <3> QED
        BY <2>0, <2>3, <3>1 DEF Name, TypeOK, dlopen, hook, table, xposed
    <2>4. CASE Publish(t) \/ FillStub(t)
      BY <2>0, <2>4 DEF Publish, FillStub, Crash, TypeOK, dlopen, hook, table, xposed
    <2>5. CASE Dlopen(t) \/ Dlsym(t)
      BY <2>0, <2>5 DEF Dlopen, Dlsym, Lookup, Crash, TypeOK, dlopen, hook, table, xposed
    <2>6. CASE Take(t) \/ InlineHook(t)
      <3>1. at' \in [Loaders -> Nat]
        <4>1. \A k \in Found : k \in Nat
          BY DEF Found, Entries
        <4> QED
          BY <2>6, <4>1 DEF Take, InlineHook, TypeOK
      <3> QED
        BY <2>0, <2>6, <3>1 DEF Take, InlineHook, Crash, TypeOK, dlopen, hook, table, xposed
    <2>7. CASE Freeze(t)
      <3>1. stopped' \subseteq Loaders \ {Main}
        BY <2>7 DEF Freeze, TypeOK
      <3> QED
        BY <2>0, <2>7, <3>1 DEF Freeze, TypeOK, dlopen, hook, table, xposed
    <2>8. CASE Add(t) \/ Save(t)
      <3>1. item' \in [Entries -> ItemType(Len(copies))]
        <4>1. item \in [Entries -> ItemType(Len(copies))]
          BY DEF TypeOK, ItemType
        <4>2. CASE Add(t)
          <5> DEFINE one == [item EXCEPT ![at[t]].target = TRUE]
          <5>1. item' = [one EXCEPT ![at[t]].saved = "unset"]
            BY <4>2 DEF Add
          <5>2. "unset" \in Contents /\ 0 \in 0 .. Len(copies)
            BY <1>0 DEF Contents
          <5>3. one \in [Entries -> ItemType(Len(copies))]
            BY <4>1, SetField
          <5> HIDE DEF one
          <5> QED
            BY <5>1, <5>2, <5>3, SetField
        <4>3. CASE Save(t)
          <5>1. item' = [item EXCEPT ![at[t]].saved = code] /\ code \in Contents
                /\ 0 \in 0 .. Len(copies)
            BY <1>0, <4>3 DEF Save, TypeOK, Contents
          <5> QED
            BY <4>1, <5>1, SetField
        <4> QED
          BY <2>8, <4>2, <4>3
      <3>2. size' \in Nat /\ UNCHANGED <<copies, code, old, crash, at, stopped, class, java,
                                         is_hook, pname, SDK_INT, stub>>
        BY <2>8 DEF Add, Save, TypeOK, xposed, dlopen
      <3> QED
        BY <2>0, <3>1, <3>2 DEF TypeOK, ItemType
    <2>9. CASE Map(t) \/ Allocate64(t)
      <3>1. /\ copies' = Append(copies, "empty") /\ copies' \in Seq(Contents)
            /\ Len(copies') = Len(copies) + 1
        <4>1. copies' = Append(copies, "empty") /\ "empty" \in Contents
          BY <2>9 DEF Map, Allocate64, Contents
        <4> QED
          BY <4>1 DEF TypeOK
      <3>2. item' \in [Entries -> ItemType(Len(copies'))]
        <4>1. item \in [Entries -> ItemType(Len(copies'))]
          <5>1. item \in [Entries -> ItemType(Len(copies))]
            BY DEF TypeOK, ItemType
          <5>2. 0 .. Len(copies) \subseteq 0 .. Len(copies')
            BY <1>0, <3>1
          <5> QED
            BY <5>1, <5>2 DEF ItemType
        <4>2. item' = item \/ item' = [item EXCEPT ![at[t]].copy = Len(copies')]
          BY <2>9 DEF Map, Allocate64, table
        <4>3. Len(copies') \in 0 .. Len(copies') /\ "unset" \in Contents
          BY <1>0, <3>1 DEF Contents
        <4> QED
          BY <4>1, <4>2, <4>3, SetField
      <3>3. old' \in [Replacements -> 0 .. Len(copies')]
        <4>1. old \in [Replacements -> 0 .. Len(copies')]
          <5>1. old \in [Replacements -> 0 .. Len(copies)]
            BY DEF TypeOK
          <5>2. 0 .. Len(copies) \subseteq 0 .. Len(copies')
            BY <1>0, <3>1
          <5> QED
            BY <5>1, <5>2
        <4>2. old' = old \/ old' = [old EXCEPT ![OldPointer(sdk, bits)] = Len(copies')]
          BY <2>9 DEF Map, Allocate64
        <4>3. Len(copies') \in 0 .. Len(copies')
          BY <1>0, <3>1
        <4> QED
          BY <4>1, <4>2, <4>3
      <3>4. at' \in [Loaders -> Nat]
        BY <2>9, <1>0, <3>1 DEF Map, Allocate64, TypeOK
      <3>5. UNCHANGED <<size, code, crash, stopped, class, java, is_hook, pname, SDK_INT, stub>>
        BY <2>9 DEF Map, Allocate64, xposed, dlopen, table
      <3> QED
        BY <2>0, <3>1, <3>2, <3>3, <3>4, <3>5 DEF TypeOK, ItemType
    <2>10. CASE Relocate(t) \/ Copy64(t)
      <3>1. copies' \in Seq(Contents) /\ Len(copies') = Len(copies)
        <4>1. \E k : \E x \in Contents : copies' = [copies EXCEPT ![k] = x]
          <5>1. CASE Copy64(t)
            BY <5>1 DEF Copy64, TypeOK, Contents
          <5>2. CASE Relocate(t)
            <6>1. copies' = [copies EXCEPT ![item[at[t]].copy] = item[at[t]].saved]
              BY <5>2 DEF Relocate
            <6>2. at[t] \in Entries
              BY <5>2 DEF Relocate, At, TypeOK, PointersOK
            <6>3. item[at[t]].saved \in Contents
              BY <6>2 DEF TypeOK
            <6> QED
              BY <6>1, <6>3
          <5> QED
            BY <2>10, <5>1, <5>2
        <4>2. PICK k : \E x \in Contents : copies' = [copies EXCEPT ![k] = x]
          BY <4>1
        <4>3. PICK x \in Contents : copies' = [copies EXCEPT ![k] = x]
          BY <4>2
        <4>4. copies \in Seq(Contents)
          BY DEF TypeOK
        <4>5. CASE k \in 1 .. Len(copies)
          <5>1. copies \in [1 .. Len(copies) -> Contents] /\ Len(copies) \in Nat
            BY <4>4
          <5>2. copies' \in [1 .. Len(copies) -> Contents]
            BY <4>3, <5>1
          <5> QED
            BY <5>1, <5>2
        <4>6. CASE k \notin 1 .. Len(copies)
          <5>1. copies' = copies
            BY <4>3, <4>4, <4>6
          <5> QED
            BY <4>4, <5>1
        <4> QED
          BY <4>5, <4>6
      <3>2. item' \in [Entries -> ItemType(Len(copies))]
        <4>1. item \in [Entries -> ItemType(Len(copies))]
          BY DEF TypeOK, ItemType
        <4>2. item' = item \/ item' = [item EXCEPT ![at[t]].status = "REGISTERED"]
          BY <2>10 DEF Relocate, Copy64, table
        <4>3. "unset" \in Contents /\ 0 \in 0 .. Len(copies)
          BY <1>0 DEF Contents
        <4> QED
          BY <4>1, <4>2, <4>3, SetField
      <3>3. UNCHANGED <<at, size, old, code, crash, stopped, class, java, is_hook, pname, SDK_INT, stub>>
        BY <2>10 DEF Relocate, Copy64, xposed, dlopen, table
      <3> QED
        BY <2>0, <3>1, <3>2, <3>3 DEF TypeOK, ItemType
    <2>11. CASE Patch(t)
      <3>1. old' \in [Replacements -> 0 .. Len(copies)]
        <4>1. at[t] \in Entries
          BY <2>11 DEF Patch, At, TypeOK, PointersOK
        <4>2. item[at[t]].copy \in 0 .. Len(copies)
          BY <4>1 DEF TypeOK
        <4> QED
          BY <2>11, <4>2 DEF Patch, TypeOK
      <3>2. item' \in [Entries -> ItemType(Len(copies))]
        <4>1. item \in [Entries -> ItemType(Len(copies))]
          BY DEF TypeOK, ItemType
        <4>2. item' = item \/ item' = [item EXCEPT ![at[t]].status = "HOOKED"]
          BY <2>11 DEF Patch
        <4>3. "unset" \in Contents /\ 0 \in 0 .. Len(copies)
          BY <1>0 DEF Contents
        <4> QED
          BY <4>1, <4>2, <4>3, SetField
      <3>3. /\ UNCHANGED <<at, size, copies, stopped, class, java, is_hook, pname, SDK_INT, stub>>
            /\ code' \in {"own", "patch"} /\ crash' \in {crash, "protected"}
        BY <2>11 DEF Patch, Crash, xposed, dlopen, TypeOK
      <3> QED
        BY <2>0, <3>1, <3>2, <3>3 DEF TypeOK, ItemType
    <2>12. CASE Patch64(t)
      <3>1. old' \in [Replacements -> 0 .. Len(copies)]
        <4>1. old \in [Replacements -> 0 .. Len(copies)] /\ 0 \in 0 .. Len(copies)
          BY <1>0 DEF TypeOK
        <4>2. old' = old \/ old' = [old EXCEPT ![OldPointer(sdk, bits)] = 0]
          BY <2>12 DEF Patch64
        <4> QED
          BY <4>1, <4>2
      <3> QED
        BY <2>0, <2>12, <3>1 DEF Patch64, TypeOK, dlopen, table, xposed
    <2> QED
      BY <1>2, <2>1, <2>2, <2>3, <2>4, <2>5, <2>6, <2>7, <2>8, <2>9, <2>10, <2>11, <2>12 DEF Step
  <1>3. CASE OpenDex
    <2>1. old[Replacement(sdk, bits)] \in 0 .. Len(copies)
      BY OnePointer DEF TypeOK
    <2>2. old[Replacement(sdk, bits)] # 0 => copies[old[Replacement(sdk, bits)]] \in Contents
      BY <2>1 DEF TypeOK
    <2>3. crash' \in {"no", "protected", "cold", "unfit", "full", "stub", "null"} \cup Contents
      BY <1>3, <2>2 DEF OpenDex
    <2> QED
      BY <1>3, <2>3 DEF OpenDex, TypeOK, PointersOK, device, thread, xposed, dlopen, hook, table
  <1>4. CASE UNCHANGED vars
    BY <1>4 DEF vars, TypeOK, PointersOK, device, thread, xposed, dlopen, hook, table
  <1> QED
    BY <1>1, <1>2, <1>3, <1>4 DEF Next

-----------------------------------------------------------------------------
\* A thread that is alone: what is left to show after one of its steps.
LEMMA Alone ==
    ASSUME TypeOK, SoloInv, ~overlap, NEW t \in Loaders, Step(t),
           Ready(t)',
           is_hook' => pc'[t] \in {"idle", "class", "test", "java"},
           code' = "patch" => is_hook' \/ pc'[t] = "done",
           code' = "patch" => Hooked',
           size' \in {0, 1} /\ (size' = 1 => item'[1].target),
           crash' \in {"no", "protected", "cold", "unfit"}
    PROVE  SoloInv'
  <1>1. pc[t] # "idle" /\ (pc' = pc \/ \E next \in Places : pc' = [pc EXCEPT ![t] = next])
    BY StepMoves
  <1>2. \A u \in Loaders \ {t} : pc'[u] = "idle"
    BY <1>1 DEF SoloInv, TypeOK
  <1>3. \A u \in Loaders \ {t} : Ready(u)'
    BY <1>2 DEF Ready, Hooking, Named
  <1> QED
    BY <1>2, <1>3 DEF SoloInv

\* Of the thread at work: it is the one in "done", and what it hooks with.
LEMMA AtWork ==
    ASSUME TypeOK, NameInv, StubInv, SoloInv, ~overlap, NEW t \in Loaders, pc[t] # "idle"
    PROVE  /\ Ready(t)
           /\ is_hook => pc[t] \in {"idle", "class", "test", "java"}
           /\ code = "patch" => (is_hook \/ pc[t] = "done") /\ Hooked
           /\ size \in {0, 1} /\ (size = 1 => item[1].target) /\ 1 \in Entries
           /\ pc[t] \in Named =>
                 pname[1] = pname[2] /\ (pname[1] \in dirs \/ "mkdirs" \in faults)
           /\ SDK_INT >= 24 => stub # "empty" \/ pc[t] = "stub"
  <1>1. \A u \in Loaders : pc[u] # "idle" => u = t
    BY DEF SoloInv
  <1>2. 1 \in Entries
    BY DEF Entries
  <1>3. Ready(t) /\ (is_hook => pc[t] \in {"idle", "class", "test", "java"})
        /\ size \in {0, 1} /\ (size = 1 => item[1].target)
    BY DEF SoloInv
  <1>4. code = "patch" => (is_hook \/ pc[t] = "done") /\ Hooked
    BY <1>1 DEF SoloInv
  <1>5. pc[t] \in Named => pname[1] = pname[2] /\ (pname[1] \in dirs \/ "mkdirs" \in faults)
    BY <1>3 DEF Ready, NameInv
  <1>6. SDK_INT >= 24 => stub # "empty" \/ pc[t] = "stub"
    BY <1>1 DEF StubInv
  <1> QED
    BY <1>2, <1>3, <1>4, <1>5, <1>6

LEMMA StepSolo ==
    ASSUME TypeOK, NameInv, StubInv, SoloInv, [Next]_vars
    PROVE  /\ SoloInv'
           /\ is_hook /\ ~overlap' => UNCHANGED <<pname, hook, dlopen, is_hook>>
  <1>1. ASSUME NEW t \in Loaders, NEW p \in Packages, Load(t, p), ~overlap'
        PROVE  SoloInv' /\ UNCHANGED <<pname, hook, dlopen, is_hook>>
    <2>1. ~overlap /\ \A u \in Loaders : pc[u] = "idle"
      BY <1>1 DEF Load, TypeOK
    <2>2. pc' = [pc EXCEPT ![t] = "class"] \/ pc' = [pc EXCEPT ![t] = "java"]
      BY <1>1 DEF Load, Goto
    <2>3. UNCHANGED <<pname, hook, dlopen, is_hook, crash, sdk, bits, faults>>
          /\ UNCHANGED <<code, size, item, old, copies>>
          /\ dirs \subseteq dirs'
      BY <1>1 DEF Load, device, hook, table
    <2>4. \A u \in Loaders : Ready(u)'
      BY <2>1, <2>2 DEF Ready, Hooking, Named, TypeOK
    <2>5. Hooked => Hooked'
      BY <2>3 DEF Hooked
    <2> QED
      BY <2>1, <2>2, <2>3, <2>4, <2>5 DEF SoloInv, TypeOK
  <1>2. ASSUME NEW t \in Loaders, Step(t), ~overlap'
        PROVE  SoloInv' /\ (is_hook => UNCHANGED <<pname, hook, dlopen, is_hook>>)
    <2>0. /\ UNCHANGED <<sdk, bits, faults, packer, loads, overlap, pkg, begun, dirs>>
          /\ crash = "no" /\ pc[t] \in Places \ {"idle"} /\ pc \in [Loaders -> Places]
          /\ ~overlap
      BY <1>2, StepMoves DEF TypeOK
    <2>a. /\ Ready(t)
          /\ is_hook => pc[t] \in {"idle", "class", "test", "java"}
          /\ code = "patch" => (is_hook \/ pc[t] = "done") /\ Hooked
          /\ size \in {0, 1} /\ (size = 1 => item[1].target) /\ 1 \in Entries
          /\ pc[t] \in Named =>
                 pname[1] = pname[2] /\ (pname[1] \in dirs \/ "mkdirs" \in faults)
          /\ SDK_INT >= 24 => stub # "empty" \/ pc[t] = "stub"
      BY <2>0, AtWork
    <2>1. is_hook => UNCHANGED <<pname, hook, dlopen, is_hook>>
      BY <1>2, <2>a DEF Step, LoadClass, HookJava, Test, Name, Publish, FillStub, Dlopen, Dlsym,
           Lookup, Register, Take, Add, Save, Map, Relocate, InlineHook, Freeze, Patch, Allocate64,
           Copy64, Patch64, Complete, At
    <2> DEFINE Rest == /\ Ready(t)'
                       /\ is_hook' => pc'[t] \in {"idle", "class", "test", "java"}
                       /\ code' = "patch" => is_hook' \/ pc'[t] = "done"
                       /\ code' = "patch" => Hooked'
                       /\ size' \in {0, 1} /\ (size' = 1 => item'[1].target)
                       /\ crash' \in {"no", "protected", "cold", "unfit"}
    <2>s. SUFFICES Rest
      BY <1>2, <2>0, <2>1, Alone
    <2>2. CASE LoadClass(t) \/ HookJava(t)
      BY <2>0, <2>a, <2>2 DEF LoadClass, HookJava, At, Goto, Ready, Hooking, Named, Hooked, hook,
           table
    <2>2a. CASE Test(t)
      <3>1. CASE is_hook
        BY <2>0, <2>a, <2>2a, <3>1 DEF Test, Back, At, Goto, Ready, Hooking, Named, Hooked, hook,
             table
      <3>2. CASE ~is_hook
        <4>1. code = "own"
          BY <2>a, <2>2a, <3>2 DEF Test, At, TypeOK
        <4> QED
          BY <2>0, <2>a, <2>2a, <3>2, <4>1 DEF Test, At, Goto, Ready, Hooking, Named, hook, table
      <3> QED
        BY <3>1, <3>2
    <2>2b. CASE Complete(t)
      BY <2>0, <2>a, <2>2b DEF Complete, Back, At, Goto, Ready, Hooking, Named, Hooked, hook, table
    <2>3. CASE Name(t)
      BY <2>0, <2>a, <2>3 DEF Name, At, Goto, Ready, Hooking, Named, Hooked, hook, table, TypeOK
    <2>4. CASE Publish(t) \/ FillStub(t) \/ Dlopen(t) \/ Dlsym(t)
      BY <2>0, <2>a, <2>4 DEF Publish, FillStub, Dlopen, Dlsym, Lookup, Crash, Back, At, Goto,
           Ready, Hooking, Named, Hooked, hook, table
    <2>5. CASE Register(t)
      <3>1. size = 1 => Found # {}
        BY <2>a DEF Found
      <3> QED
        BY <2>0, <2>a, <2>5, <3>1 DEF Register, Back, At, Goto, Ready, Hooking, Named, Hooked,
             hook, table
    <2>6. CASE Take(t)
      <3>1. size = 0 /\ TableSize \in Nat \ {0}
        BY <2>a, <2>6 DEF Take, At, Ready
      <3> QED
        BY <2>0, <2>a, <2>6, <3>1 DEF Take, Crash, At, Goto, Ready, Hooking, Named, Hooked, hook,
             table, TypeOK
    <2>7. CASE Add(t)
      <3>1. at[t] = 1 /\ size = 0 /\ code = "own" /\ ~is_hook
        BY <2>a, <2>7 DEF Add, At, Ready, Hooking, Named
      <3>2. size' = 1 /\ item'[1].target
        BY <2>a, <2>7, <3>1 DEF Add, TypeOK
      <3> QED
        BY <2>0, <2>a, <2>7, <3>1, <3>2 DEF Add, At, Goto, Ready, Hooking, Named
    <2>8. CASE Save(t)
      <3>1. at[t] = 1 /\ code = "own" /\ ~is_hook
        BY <2>a, <2>8 DEF Save, At, Ready, Hooking, Named
      <3>2. item'[1].target = item[1].target /\ item'[1].saved = "own"
        BY <2>a, <2>8, <3>1 DEF Save, TypeOK
      <3> QED
        BY <2>0, <2>a, <2>8, <3>1, <3>2 DEF Save, At, Goto, Ready, Hooking, Named
    <2>9. CASE Map(t)
      <3>1. at[t] = 1 /\ code = "own" /\ ~is_hook /\ item[1].saved = "own"
        BY <2>a, <2>9 DEF Map, At, Ready, Hooking, Named
      <3>2. Len(copies') # 0
        BY <2>9 DEF Map, TypeOK
      <3>3. /\ item'[1].target = item[1].target /\ item'[1].saved = "own"
            /\ item'[1].copy = Len(copies')
        BY <2>a, <2>9, <3>1 DEF Map, TypeOK
      <3> QED
        BY <2>0, <2>a, <2>9, <3>1, <3>2, <3>3 DEF Map, At, Goto, Ready, Hooking, Named
    <2>10. CASE Relocate(t)
      <3>1. at[t] = 1 /\ code = "own" /\ ~is_hook /\ item[1].saved = "own" /\ item[1].copy # 0
        BY <2>a, <2>10 DEF Relocate, At, Ready, Hooking, Named
      <3>2. item[1].copy \in 1 .. Len(copies) /\ copies \in Seq(Contents)
        BY <2>a, <3>1 DEF TypeOK
      <3>3. copies'[item[1].copy] = "own"
        BY <2>10, <3>1, <3>2 DEF Relocate
      <3>4. item'[1].target = item[1].target /\ item'[1].copy = item[1].copy
        BY <2>a, <2>10, <3>1 DEF Relocate, TypeOK
      <3> QED
        BY <2>0, <2>a, <2>10, <3>1, <3>3, <3>4 DEF Relocate, At, Goto, Ready, Hooking, Named
    <2>11. CASE InlineHook(t)
      <3>1. \A k \in Found : k = 1
        BY <2>a DEF Found, Entries
      <3>2. \/ pc' = [pc EXCEPT ![t] = "freeze"] /\ at' = [at EXCEPT ![t] = 1]
            \/ Back(t)
        BY <2>11, <3>1 DEF InlineHook, Goto
      <3> QED
        BY <2>0, <2>a, <2>11, <3>2 DEF InlineHook, Back, At, Goto, Ready, Hooking, Named, Hooked,
             hook, table, TypeOK
    <2>12. CASE Freeze(t)
      BY <2>0, <2>a, <2>12 DEF Freeze, Ready, Hooking, Named, Hooked, hook, table
    <2>13. CASE Patch(t)
      <3>1. at[t] = 1 /\ code = "own" /\ ~is_hook /\ item[1].copy # 0
            /\ copies[item[1].copy] = "own"
        BY <2>a, <2>13 DEF Patch, At, Ready, Hooking, Named
      <3>2. old'[OldPointer(sdk, bits)] = item[1].copy
        BY <2>13, <3>1, OnePointer DEF Patch, TypeOK
      <3>3. item'[1].target = item[1].target /\ item'[1].copy = item[1].copy
        BY <2>a, <2>13, <3>1 DEF Patch, TypeOK
      <3>4. Hooked'
        BY <2>0, <2>a, <2>13, <3>1, <3>2 DEF Patch, At, Named, Hooked
      <3> QED
        BY <2>0, <2>a, <2>13, <3>1, <3>3, <3>4 DEF Patch, Crash, At, Goto, Ready, Hooking, Named
    <2>14. CASE Allocate64(t)
      <3>1. code = "own" /\ ~is_hook
        BY <2>a, <2>14 DEF Allocate64, At, Ready, Hooking, Named
      <3>2. Len(copies') # 0 /\ Len(copies') \in Nat
        BY <2>14 DEF Allocate64, TypeOK
      <3>3. old'[OldPointer(sdk, bits)] = Len(copies') /\ at'[t] = Len(copies')
        BY <2>14, <3>1, OnePointer DEF Allocate64, TypeOK
      <3> QED
        BY <2>0, <2>a, <2>14, <3>1, <3>2, <3>3 DEF Allocate64, At, Goto, Ready, Hooking, Named,
             table
    <2>15. CASE Copy64(t)
      <3>1. code = "own" /\ ~is_hook /\ at[t] # 0 /\ at[t] <= Len(copies)
            /\ old[OldPointer(sdk, bits)] = at[t]
        BY <2>a, <2>15 DEF Copy64, At, Ready, Hooking, Named
      <3>2. at[t] \in 1 .. Len(copies) /\ copies \in Seq(Contents)
        BY <3>1 DEF TypeOK
      <3>3. copies'[at[t]] = "own" /\ Len(copies') = Len(copies)
        BY <2>15, <3>1, <3>2 DEF Copy64
      <3> QED
        BY <2>0, <2>a, <2>15, <3>1, <3>3 DEF Copy64, At, Goto, Ready, Hooking, Named, table
    <2>16. CASE Patch64(t)
      <3>1. code = "own" /\ ~is_hook /\ at[t] # 0 /\ copies[at[t]] = "own"
            /\ old[OldPointer(sdk, bits)] = at[t]
        BY <2>a, <2>16 DEF Patch64, At, Ready, Hooking, Named
      <3>2. code' = "patch" => Hooked'
        BY <2>0, <2>a, <2>16, <3>1 DEF Patch64, At, Named, Hooked
      <3> QED
        BY <2>0, <2>a, <2>16, <3>1, <3>2 DEF Patch64, At, Goto, Ready, Hooking, Named, table
    <2> QED
      BY <1>2, <2>2, <2>2a, <2>2b, <2>3, <2>4, <2>5, <2>6, <2>7, <2>8, <2>9, <2>10, <2>11, <2>12,
         <2>13, <2>14, <2>15, <2>16 DEF Step
  <1>3. CASE OpenDex
    <2>1. ~overlap => crash' \in {"protected", "cold", "unfit"}
      BY <1>3, OnePointer DEF OpenDex, SoloInv, Hooked
    <2> QED
      BY <1>3, <2>1 DEF OpenDex, SoloInv, Ready, Hooked, device, thread, xposed, dlopen, hook, table
  <1>4. CASE UNCHANGED vars
    BY <1>4 DEF vars, SoloInv, Ready, Hooked, device, thread, xposed, dlopen, hook, table
  <1>5. overlap => overlap'
    <2>1. ASSUME NEW t \in Loaders, NEW p \in Packages, Load(t, p)
          PROVE  overlap => overlap'
      BY <2>1 DEF Load
    <2>2. ASSUME NEW t \in Loaders, Step(t)
          PROVE  overlap => overlap'
      BY <2>2, StepMoves
    <2> QED
      BY <1>3, <1>4, <2>1, <2>2 DEF Next, OpenDex, vars, thread
  <1>6. overlap' => SoloInv'
    BY DEF SoloInv
  <1> QED
    BY <1>1, <1>2, <1>3, <1>4, <1>5, <1>6 DEF Next

-----------------------------------------------------------------------------
\* What a thread relies on, for any number of threads, packages and loads, any
\* device, and whichever steps fail.
THEOREM DumpInvariant == Spec => []DumpInv
  <1>1. DumpInv /\ [Next]_vars => DumpInv'
    BY StepType, StepName, StepSym, StepJava, StepStub, StepSolo DEF DumpInv
  <1> QED
    BY InitDump, <1>1, PTL DEF Spec

\* Threads are in no other place than those, whatever races there are
\* (native.cpp:10-55, inlineHook.c:215-282, 301-398).
THEOREM TypeCorrect == Spec => []TypeOK
  <1>1. DumpInv => TypeOK
    BY DEF DumpInv
  <1> QED
    BY <1>1, DumpInvariant, PTL

\* A thread that gets as far as the lookup finds a symbol for its release, on
\* any release there will ever be (XposedInit.java:50, DeviceUtils.java:18-40,
\* deviceutils.cpp:51-78).
THEOREM SymbolFound == Spec => []LookupHasSymbol
  <1>1. UsesOreoDump(sdk) \/ supportNativeHook(sdk) => Symbol(sdk) # <<>>
    BY DEF UsesOreoDump, supportNativeHook, Symbol, Oreo, Pie, Android10, Nougat,
           Marshmallow, OpenMemory, OpenCommon, OpenCommonPie
  <1>2. DumpInv => LookupHasSymbol
    BY <1>1 DEF DumpInv, SymInv, LookupHasSymbol
  <1> QED
    BY <1>2, DumpInvariant, PTL

\* The lists of parameters have lengths of their own, with the result's address
\* before them and without it.
LEMMA Lengths ==
    /\ Len(OpenMemory) = 7 /\ Len(OpenCommonPie) = 12
    /\ Len(<<"result">> \o OpenMemory) = 8 /\ Len(<<"result">> \o OpenCommonPie) = 13
  BY DEF OpenMemory, OpenCommonPie

\* Every release with a symbol has the replacement with its parameters, on both
\* word sizes, but for the three devices of Unfit, which have not: release by
\* release (deviceutils.cpp:51-78, 82-207, 229-247).
LEMMA SymbolFits ==
    ASSUME bits \in {32, 64}, UsesOreoDump(sdk) \/ supportNativeHook(sdk)
    PROVE  /\ ArgumentsFit(sdk, bits) <=> <<sdk, bits>> \notin Unfit
           /\ Fits(sdk, bits) <=> bits = 32 /\ sdk # 29
  <1> DEFINE longer(s) == <<"result">> \o s
  <1>0. /\ Declared.arm64_open_common = OpenCommon
        /\ Declared.arm64_open_memory = OpenMemory
        /\ Declared.nougat_open_memory = longer(OpenMemory)
        /\ Declared.opencommon = longer(OpenCommon)
        /\ Declared.pie_open_memory = longer(OpenCommonPie)
    BY DEF Declared
  <1>00. Passed(sdk, bits) = IF bits = 32 THEN longer(Symbol(sdk)) ELSE Symbol(sdk)
    BY DEF Passed
  <1>000. longer(OpenMemory) # longer(OpenCommonPie) /\ OpenMemory # OpenCommonPie
    BY Lengths
  <1> HIDE DEF longer
  <1>1. sdk \in {23, 24, 25, 26, 27, 28, 29}
    BY DEF UsesOreoDump, supportNativeHook, Oreo, Pie, Android10, Nougat, Marshmallow
  <1>s. SUFFICES ArgumentsFit(sdk, bits) <=> <<sdk, bits>> \notin Unfit
    BY <1>1 DEF Fits, ResultIsArgument, Unfit
  <1>2. CASE sdk \in {26, 27}
    <2>1. Symbol(sdk) = OpenCommon
      <3>1. sdk \in Oreo /\ sdk \notin Pie \cup Android10 /\ sdk \notin Nougat \cup Marshmallow
        BY <1>2 DEF Oreo, Pie, Android10, Nougat, Marshmallow
      <3> QED
        BY <3>1, Zenon DEF Symbol
    <2>2. Replacement(sdk, bits) =
              IF bits = 64 THEN "arm64_open_common" ELSE "opencommon"
      BY <1>2 DEF Replacement, Oreo, Pie
    <2> QED
      BY <1>0, <1>00, <1>2, <2>1, <2>2 DEF ArgumentsFit, Unfit
  <1>3. CASE sdk \in {23, 24, 25}
    <2>1. Symbol(sdk) = OpenMemory
      <3>1. sdk \notin Oreo /\ sdk \notin Pie \cup Android10 /\ sdk \in Nougat \cup Marshmallow
        BY <1>3 DEF Oreo, Pie, Android10, Nougat, Marshmallow
      <3> QED
        BY <3>1, Zenon DEF Symbol
    <2>2. Replacement(sdk, bits) =
              IF bits = 64 THEN "arm64_open_memory" ELSE "nougat_open_memory"
      BY <1>3 DEF Replacement, Oreo, Pie
    <2> QED
      BY <1>0, <1>00, <1>3, <2>1, <2>2 DEF ArgumentsFit, Unfit
  <1>4. CASE sdk \in {28, 29}
    <2>1. Symbol(sdk) = OpenCommonPie
      <3>1. sdk \notin Oreo /\ sdk \in Pie \cup Android10 /\ sdk \notin Nougat \cup Marshmallow
        BY <1>4 DEF Oreo, Pie, Android10, Nougat, Marshmallow
      <3> QED
        BY <3>1, Zenon DEF Symbol
    <2>2. CASE bits = 64
      <3>1. Replacement(sdk, bits) = "arm64_open_memory"
        BY <1>4, <2>2 DEF Replacement, Oreo, Pie
      <3> QED
        BY <1>0, <1>00, <1>000, <1>4, <2>1, <2>2, <3>1 DEF ArgumentsFit, Unfit
    <2>3. CASE bits = 32 /\ sdk = 28
      <3>1. Replacement(sdk, bits) = "pie_open_memory"
        BY <2>3 DEF Replacement, Oreo, Pie
      <3> QED
        BY <1>0, <1>00, <2>1, <2>3, <3>1 DEF ArgumentsFit, Unfit
    <2>4. CASE bits = 32 /\ sdk = 29
      <3>1. Replacement(sdk, bits) = "nougat_open_memory"
        BY <2>4 DEF Replacement, Oreo, Pie
      <3> QED
        BY <1>0, <1>00, <1>000, <2>1, <2>4, <3>1 DEF ArgumentsFit, Unfit
    <2> QED
      BY <1>4, <2>2, <2>3, <2>4
  <1> QED
    BY <1>1, <1>2, <1>3, <1>4

\* What is installed on a device declares what its callers pass, on all devices but
\* those of Unfit, and the original gets all of it in 32-bit processes alone,
\* whatever releases there are and however the process got there
\* (XposedInit.java:50, DeviceUtils.java:18-40, deviceutils.cpp:51-78, 82-207,
\* 229-247).
THEOREM ReplacementsFit == Spec => []ReplacementFits
  <1>1. DumpInv => ReplacementFits
    BY SymbolFits, ProcessTypes DEF DumpInv, SymInv, ReplacementFits
  <1> QED
    BY <1>1, DumpInvariant, PTL

\* However many threads load packages, a dump is named after packages that were
\* loaded, half a name each at worst; and after one, whose directory was made, as
\* long as no load overlaps another and mkdirs works (native.cpp:20,
\* fileutils.cpp:13-17, 46, XposedInit.java:44-48).
THEOREM NamedFirst == Spec => []DumpsUnderAName
  <1>1. DumpInv => DumpsUnderAName
    BY DEF DumpInv, NameInv, SoloInv, Hooked, DumpsUnderAName
  <1> QED
    BY <1>1, DumpInvariant, PTL

\* However many threads load packages, a load before Android 8 ends with the
\* loadClass hooks in place (LowSdkDump.java:30-46, Native.java:15-22).
THEOREM JavaFallback == Spec => []JavaBacksUp
  <1>1. DumpInv => JavaBacksUp
    BY DEF DumpInv, JavaInv, JavaBacksUp
  <1> QED
    BY <1>1, DumpInvariant, PTL

\* Packages loaded one after the other do not crash the process, for any number of
\* threads and loads and whichever steps fail, but for the protections not changed,
\* the caches not up to date and the replacements that do not fit (dlopen.c:30-44,
\* 124-131, native.cpp:16, 35, inlineHook.c:225-236, deviceutils.cpp:209-247).
THEOREM RacesAlone == Spec => []OnlyRacesCrash
  <1>1. DumpInv => OnlyRacesCrash
    BY DEF DumpInv, StubInv, SoloInv, OnlyRacesCrash
  <1> QED
    BY <1>1, DumpInvariant, PTL

\* To packages loaded one after the other the message "hooked ignore" tells the
\* truth (native.cpp:16-19).
THEOREM IgnoredOnceHooked == Spec => HookedIgnores
  <1>1. DumpInv /\ [Next]_vars =>
            [is_hook /\ ~overlap' => UNCHANGED <<pname, hook, dlopen, is_hook>>]_vars
    BY StepSolo DEF DumpInv
  <1> QED
    BY <1>1, DumpInvariant, PTL DEF Spec, HookedIgnores
=============================================================================
