----------------------------- MODULE DumpStore -----------------------------
(***************************************************************************)
(* The dump directory of a package and the two writers that fill it while  *)
(* the package runs: the native replacement of the runtime's dex opening   *)
(* function (deviceutils.cpp, fileutils.cpp) and, before Android 8, the    *)
(* Xposed hook of loadClass (LowSdkDump.java, FileUtils.java).             *)
(*                                                                         *)
(* A dump is named after the length of its dex alone, and its existence is *)
(* checked before it is written, in a call of its own.  Files survive the  *)
(* process; descriptors do not.  The native writer issues a single write,  *)
(* which the kernel applies as a whole or cuts short; the Java library     *)
(* writes until everything is written or a write fails.                    *)
(***************************************************************************)
EXTENDS Integers, Sequences

CONSTANTS
    Threads,      \* threads that open dex files or load classes
    Dexes,        \* dex files of the package
    Length,       \* Length[d]: its length, which names its dump
    Blocks,       \* blocks a dump is written in
    MinLen,       \* DEX_MIN_LEN
    Inclusive,    \* the replacement in use dumps a dex of MinLen bytes
    Writers,      \* which of "native" and "java" are installed
    FdLimit,      \* descriptors the process may open
    MaxCalls,     \* bound on the calls of one process
    MaxCrashes,   \* bound on its restarts
    Faults,       \* which of "short" and "mkdir" may happen
    NoDex         \* a block never written: a hole

ASSUME DumpAssumption ==
    /\ Length \in [Dexes -> Nat]
    /\ Blocks \in Nat \ {0}
    /\ MinLen \in Nat
    /\ Inclusive \in BOOLEAN
    /\ FdLimit \in Nat
    /\ MaxCalls \in Nat
    /\ MaxCrashes \in Nat
    /\ NoDex \notin Dexes

VARIABLES
    dir,          \* the dump directory exists
    present,      \* lengths for which a dump file exists
    content,      \* content[n]: the blocks of source-n.dex
    fds,          \* descriptors open in the process
    pc,           \* where each thread is in its writer
    dex,          \* the dex it handles
    next,         \* blocks its stream has written
    calls,        \* calls of this process so far
    crashes,      \* restarts so far
    opened        \* history: dexes this process was asked to dump

disk   == <<dir, present, content>>
bounds == <<calls, crashes, opened>>
vars   == <<disk, fds, pc, dex, next, bounds>>

Lengths == {Length[d] : d \in Dexes}

Init ==
    /\ dir \in (IF "mkdir" \in Faults THEN BOOLEAN ELSE {TRUE})
    /\ present = {}
    /\ content = [n \in Lengths |-> <<>>]
    /\ fds = 0
    /\ pc = [th \in Threads |-> "idle"]
    /\ dex = [th \in Threads |-> NoDex]
    /\ next = [th \in Threads |-> 0]
    /\ calls = 0
    /\ crashes = 0
    /\ opened = {}

-----------------------------------------------------------------------------
Path(th) == Length[dex[th]]

Goto(th, label) == pc' = [pc EXCEPT ![th] = label]

\* Blocks from + 1 to to of the file become d's; what lies beyond them stays,
\* and a gap before them reads as a hole.
WriteAt(c, d, from, to) ==
    [k \in 1 .. (IF Len(c) > to THEN Len(c) ELSE to) |->
        IF k \in from + 1 .. to THEN d ELSE IF k <= Len(c) THEN c[k] ELSE NoDex]

\* A thread with nothing to do begins a call for d.
Begin(th, d, label) ==
    /\ pc[th] = "idle"
    /\ calls < MaxCalls
    /\ calls' = calls + 1
    /\ dex' = [dex EXCEPT ![th] = d]
    /\ Goto(th, label)
    /\ UNCHANGED <<disk, fds, next, crashes>>

-----------------------------------------------------------------------------
(* The native writer *)

\* The replacements compare with > but for new_arm64_open_common.
Dumpable(n) == n > MinLen \/ (Inclusive /\ n = MinLen)

\* The runtime opens d: the replacement runs.
OpenDex(th, d) ==
    /\ "native" \in Writers
    /\ Begin(th, d, IF Dumpable(Length[d]) THEN "probe" ELSE "original")
    /\ opened' = IF Dumpable(Length[d]) THEN opened \cup {d} ELSE opened

\* fopen(dname, "r"): the stream of an existing dump is never closed; with
\* no descriptor left the dump looks absent.
Probe(th) ==
    /\ pc[th] = "probe"
    /\ \/ /\ Path(th) \in present /\ fds < FdLimit
          /\ fds' = fds + 1
          /\ Goto(th, "original")
       \/ /\ Path(th) \notin present \/ fds = FdLimit
          /\ Goto(th, "open")
          /\ UNCHANGED fds
    /\ UNCHANGED <<disk, dex, next, bounds>>
\* Mutant of Open: the file is opened with O_TRUNC.
OpenTruncating(th) ==
    /\ pc[th] = "open" /\ dir /\ fds < FdLimit
    /\ fds' = fds + 1
    /\ present' = present \cup {Path(th)}
    /\ content' = [content EXCEPT ![Path(th)] = <<>>]
    /\ Goto(th, "write")
    /\ UNCHANGED <<dir, dex, next, bounds>>

\* open(dname, O_CREAT | O_WRONLY): neither O_TRUNC nor O_EXCL.
Open(th) ==
    /\ pc[th] = "open"
    /\ \/ /\ dir /\ fds < FdLimit
          /\ fds' = fds + 1
          /\ present' = present \cup {Path(th)}
          /\ Goto(th, "write")
       \/ /\ ~dir \/ fds = FdLimit
          /\ Goto(th, "original")
          /\ UNCHANGED <<fds, present>>
    /\ UNCHANGED <<dir, content, dex, next, bounds>>
\* Mutant of Write: the descriptor is in append mode.
WriteAppending(th) ==
    /\ pc[th] = "write"
    /\ content' = [content EXCEPT ![Path(th)] =
                      WriteAt(@, dex[th], Len(@), Len(@) + Blocks)]
    /\ Goto(th, "close")
    /\ UNCHANGED <<dir, present, fds, dex, next, bounds>>

\* write(dex, data, length), once, at offset 0: all blocks or, when it is cut
\* short or fails, the first ones; only a negative result is looked at.
Write(th) ==
    /\ pc[th] = "write"
    /\ \E k \in (IF "short" \in Faults THEN 0 .. Blocks ELSE {Blocks}) :
          content' = [content EXCEPT ![Path(th)] = WriteAt(@, dex[th], 0, k)]
    /\ Goto(th, "close")
    /\ UNCHANGED <<dir, present, fds, dex, next, bounds>>
\* Mutant of Close: the stream of the probe, which is NULL here, is closed too.
CloseBoth(th) ==
    /\ pc[th] = "close"
    /\ fds' = fds - 2
    /\ Goto(th, "original")
    /\ UNCHANGED <<disk, dex, next, bounds>>

Close(th) ==
    /\ pc[th] = "close"
    /\ fds' = fds - 1
    /\ Goto(th, "original")
    /\ UNCHANGED <<disk, dex, next, bounds>>

\* The original function is called and its result returned.
CallOriginal(th) ==
    /\ pc[th] = "original"
    /\ Goto(th, "idle")
    /\ dex' = [dex EXCEPT ![th] = NoDex]
    /\ UNCHANGED <<disk, fds, next, bounds>>

-----------------------------------------------------------------------------
(* The Java writer *)

Return(th) ==
    /\ Goto(th, "idle")
    /\ dex' = [dex EXCEPT ![th] = NoDex]
    /\ next' = [next EXCEPT ![th] = 0]

\* A class of d has been loaded: LowSdkDump.dump.
LoadClass(th, d) ==
    /\ "java" \in Writers
    /\ Begin(th, d, "check")
    /\ opened' = opened \cup {d}
\* Mutant of Check: the directory is looked for, not the file.
CheckDirectory(th) ==
    /\ pc[th] = "check"
    /\ \/ dir /\ Return(th)
       \/ ~dir /\ Goto(th, "create") /\ UNCHANGED <<dex, next>>
    /\ UNCHANGED <<disk, fds, bounds>>

\* file.exists()
Check(th) ==
    /\ pc[th] = "check"
    /\ \/ Path(th) \in present /\ Return(th)
       \/ Path(th) \notin present /\ Goto(th, "create") /\ UNCHANGED <<dex, next>>
    /\ UNCHANGED <<disk, fds, bounds>>

\* new FileOutputStream(path): truncates; an exception is logged.
Create(th) ==
    /\ pc[th] = "create"
    /\ \/ /\ dir /\ fds < FdLimit
          /\ fds' = fds + 1
          /\ present' = present \cup {Path(th)}
          /\ content' = [content EXCEPT ![Path(th)] = <<>>]
          /\ Goto(th, "fill")
          /\ UNCHANGED <<dex, next>>
       \/ /\ ~dir \/ fds = FdLimit
          /\ Return(th)
          /\ UNCHANGED <<fds, present, content>>
    /\ UNCHANGED <<dir, bounds>>
\* Mutant of Fill: one write, whose result is ignored.
FillOnce(th) ==
    /\ pc[th] = "fill"
    /\ \E k \in 1 .. Blocks :
          content' = [content EXCEPT ![Path(th)] = WriteAt(@, dex[th], 0, k)]
    /\ Goto(th, "shut")
    /\ UNCHANGED <<dir, present, fds, dex, next, bounds>>

\* write(data): the library writes on from where its stream is; an exception
\* skips close and leaves the descriptor open.
Fill(th) ==
    /\ pc[th] = "fill"
    /\ \/ \E k \in next[th] + 1 .. Blocks :
             /\ content' = [content EXCEPT ![Path(th)] =
                               WriteAt(@, dex[th], next[th], k)]
             /\ next' = [next EXCEPT ![th] = k]
             /\ Goto(th, IF k = Blocks THEN "shut" ELSE "fill")
             /\ UNCHANGED dex
       \/ /\ "short" \in Faults
          /\ Return(th)
          /\ UNCHANGED content
    /\ UNCHANGED <<dir, present, fds, bounds>>

Shut(th) ==
    /\ pc[th] = "shut"
    /\ fds' = fds - 1
    /\ Return(th)
    /\ UNCHANGED <<disk, bounds>>

-----------------------------------------------------------------------------
\* The process dies wherever its threads are and the package is started again:
\* handleLoadPackage makes the directory, if it can, before it hooks anything.
Restart ==
    /\ crashes < MaxCrashes
    /\ crashes' = crashes + 1
    /\ dir' \in (IF "mkdir" \in Faults THEN {dir, TRUE} ELSE {TRUE})
    /\ fds' = 0
    /\ pc' = [th \in Threads |-> "idle"]
    /\ dex' = [th \in Threads |-> NoDex]
    /\ next' = [th \in Threads |-> 0]
    /\ calls' = 0
    /\ opened' = {}
    /\ UNCHANGED <<present, content>>

Native(th) == Probe(th) \/ Open(th) \/ Write(th) \/ Close(th) \/ CallOriginal(th)
Java(th)   == Check(th) \/ Create(th) \/ Fill(th) \/ Shut(th)

Next == \/ \E th \in Threads : \/ \E d \in Dexes : OpenDex(th, d) \/ LoadClass(th, d)
                               \/ Native(th)
                               \/ Java(th)
        \/ Restart

Spec == Init /\ [][Next]_vars

\* A thread inside a writer goes on; nothing forces a call to be made.
FairSpec == Spec /\ \A th \in Threads : WF_vars(Native(th) \/ Java(th))

-----------------------------------------------------------------------------
Labels == {"idle", "probe", "open", "write", "close", "original",
           "check", "create", "fill", "shut"}

\* Type invariant of the directory and its writers (fileutils.cpp:20-42).
TypeOK ==
    /\ dir \in BOOLEAN
    /\ present \subseteq Lengths
    /\ content \in [Lengths -> Seq(Dexes \cup {NoDex})]
    /\ fds \in 0 .. FdLimit
    /\ pc \in [Threads -> Labels]
    /\ dex \in [Threads -> Dexes \cup {NoDex}]
    /\ next \in [Threads -> 0 .. Blocks]
    /\ calls \in 0 .. MaxCalls
    /\ crashes \in 0 .. MaxCrashes
    /\ opened \subseteq Dexes

Whole(d) == content[Length[d]] = [k \in 1 .. Blocks |-> d]

\* Some thread is between the creation of a dump and its last write.
Writing(n) == \E th \in Threads : /\ pc[th] \in {"write", "fill"}
                                  /\ dex[th] # NoDex /\ Path(th) = n

\* However native and Java writers overlap on a dump, and although the one
\* truncates what the other may just have written, the dump is the whole of
\* its dex once the last of them is done (fileutils.cpp:22-41;
\* LowSdkDump.java:54-59; FileUtils.java:25-27).
SettledIsWhole ==
    \A d \in Dexes : Length[d] \in present /\ ~Writing(Length[d]) => Whole(d)

\* Where only the native writer is installed, a write cut short, a crash at any
\* step and a restart leave a dump without holes and without bytes beyond the
\* dex: a prefix of it (fileutils.cpp:30-41).
DumpsArePrefixes ==
    \A d \in Dexes : LET c == content[Length[d]]
                     IN  Len(c) <= Blocks /\ \A k \in 1 .. Len(c) : c[k] = d

\* ... and a dump that is complete stays so, although two threads that both
\* found it absent both write it and later runs of the package find it again:
\* the file is opened without O_TRUNC (fileutils.cpp:23-35).
CompleteStaysComplete == [][\A d \in Dexes : Whole(d) => Whole(d)']_vars

\* Inductive behind both: the native writer alone, and a dex in every thread
\* that is about to write one (fileutils.cpp:20-42).
NativeInv ==
    /\ content \in [Lengths -> Seq(Dexes \cup {NoDex})]
    /\ pc \in [Threads -> {"idle", "probe", "open", "write", "close", "original"}]
    /\ dex \in [Threads -> Dexes \cup {NoDex}]
    /\ \A th \in Threads : pc[th] \in {"probe", "open", "write"} => dex[th] \in Dexes
    /\ DumpsArePrefixes

\* A process that has all the descriptors it wants dumps every dex it is asked
\* to dump (README.md:32; deviceutils.cpp:85-207; LowSdkDump.java:48-60).
EveryDexDumped == \A d \in Dexes : d \in opened ~> Whole(d)
=============================================================================
