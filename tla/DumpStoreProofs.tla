-------------------------- MODULE DumpStoreProofs --------------------------
(***************************************************************************)
(* What the native writer of DumpStore guarantees on its own, for any      *)
(* number of threads, dexes, blocks, descriptors, calls and restarts, and  *)
(* whether or not writes are cut short: on Android 8 and later no other    *)
(* writer is installed.  Then, what both writers together guarantee while  *)
(* nothing disturbs them.                                                  *)
(***************************************************************************)
EXTENDS DumpStore, FiniteSetTheorems, TLAPS

USE DumpAssumption

\* Only the native writer is installed, and no two dexes have one length.
NativeAlone ==
    /\ "java" \notin Writers
    /\ \A d, e \in Dexes : Length[d] = Length[e] => d = e

-----------------------------------------------------------------------------
\* The native writer's write starts at the beginning of the file: the first
\* blocks become d's, and the file is as long as the longer of the two.
LEMMA WriteAtStart ==
    ASSUME NEW c \in Seq(Dexes \cup {NoDex}), NEW d \in Dexes, NEW k \in 0 .. Blocks
    PROVE  /\ WriteAt(c, d, 0, k) \in Seq(Dexes \cup {NoDex})
           /\ Len(WriteAt(c, d, 0, k)) = IF Len(c) > k THEN Len(c) ELSE k
           /\ \A i \in 1 .. Len(WriteAt(c, d, 0, k)) :
                 WriteAt(c, d, 0, k)[i] = IF i <= k THEN d ELSE c[i]
  <1> DEFINE n == IF Len(c) > k THEN Len(c) ELSE k
             w == WriteAt(c, d, 0, k)
  <1>1. n \in Nat /\ Len(c) \in Nat /\ k \in Nat
    OBVIOUS
  <1>2. w = [i \in 1 .. n |-> IF i \in 0 + 1 .. k THEN d
                              ELSE IF i <= Len(c) THEN c[i] ELSE NoDex]
    BY DEF WriteAt
  <1>3. \A i \in 1 .. n : /\ i \in 0 + 1 .. k <=> i <= k
                          /\ i <= k \/ i <= Len(c)
    BY <1>1
  <1>4. w = [i \in 1 .. n |-> IF i <= k THEN d ELSE c[i]]
    BY <1>2, <1>3
  <1>5. \A i \in 1 .. n : (IF i <= k THEN d ELSE c[i]) \in Dexes \cup {NoDex}
    BY <1>3
  <1>6. w \in Seq(Dexes \cup {NoDex}) /\ Len(w) = n
    <2> HIDE DEF w, n
    <2> QED
      BY <1>1, <1>4, <1>5
  <1> QED
    BY <1>4, <1>6

\* A prefix of d that d is written over again, wholly or in part, is a prefix
\* of d, and the whole of d stays the whole of it.
LEMMA WriteAtPrefix ==
    ASSUME NEW c \in Seq(Dexes \cup {NoDex}), NEW d \in Dexes, NEW k \in 0 .. Blocks,
           Len(c) <= Blocks, \A i \in 1 .. Len(c) : c[i] = d
    PROVE  LET w == WriteAt(c, d, 0, k)
           IN  /\ w \in Seq(Dexes \cup {NoDex})
               /\ Len(w) <= Blocks
               /\ \A i \in 1 .. Len(w) : w[i] = d
               /\ c = [i \in 1 .. Blocks |-> d] => w = c
  <1> DEFINE w == WriteAt(c, d, 0, k)
  <1>1. /\ w \in Seq(Dexes \cup {NoDex})
        /\ Len(w) = IF Len(c) > k THEN Len(c) ELSE k
        /\ \A i \in 1 .. Len(w) : w[i] = IF i <= k THEN d ELSE c[i]
    BY WriteAtStart
  <1> HIDE DEF w
  <1>2. Len(w) <= Blocks
    BY <1>1
  <1>3. \A i \in 1 .. Len(w) : w[i] = d
    BY <1>1
  <1>4. ASSUME c = [i \in 1 .. Blocks |-> d]
        PROVE  w = c
    <2>1. Len(c) = Blocks
      BY <1>4
    <2>2. Len(w) = Len(c) /\ \A i \in 1 .. Len(w) : w[i] = c[i]
      BY <1>1, <1>3, <1>4, <2>1
    <2> QED
      BY <1>1, <2>2
  <1> QED
    BY <1>1, <1>2, <1>3, <1>4 DEF w

-----------------------------------------------------------------------------
LEMMA InitNative == Init => NativeInv
  <1> SUFFICES ASSUME Init
               PROVE  NativeInv
    OBVIOUS
  <1>1. \A n \in Lengths : content[n] = << >>
    BY DEF Init
  <1>2. \A d \in Dexes : Length[d] \in Lengths
    BY DEF Lengths
  <1>3. DumpsArePrefixes
    BY <1>1, <1>2 DEF DumpsArePrefixes
  <1> QED
    BY <1>3 DEF Init, NativeInv

\* The step that writes: the dump of the dex at hand stays a prefix of it, and
\* no other dex has that dump.
LEMMA WriteKeeps ==
    ASSUME NativeAlone, NativeInv, NEW th \in Threads, Write(th)
    PROVE  NativeInv' /\ \A d \in Dexes : Whole(d) => Whole(d)'
  <1> DEFINE d == dex[th]
             n == Path(th)
  <1>1. PICK k \in 0 .. Blocks :
           content' = [content EXCEPT ![n] = WriteAt(@, d, 0, k)]
    <2>1. Blocks \in 0 .. Blocks
      OBVIOUS
    <2>2. PICK k \in (IF "short" \in Faults THEN 0 .. Blocks ELSE {Blocks}) :
             content' = [content EXCEPT ![n] = WriteAt(@, d, 0, k)]
      BY ZenonT(30) DEF Write
    <2> QED
      BY <2>1, <2>2
  <1>2. /\ d \in Dexes /\ n = Length[d] /\ n \in Lengths
        /\ pc' = [pc EXCEPT ![th] = "close"]
        /\ dex' = dex
    BY DEF Write, NativeInv, Path, Lengths, Goto
  <1>3. /\ content[n] \in Seq(Dexes \cup {NoDex})
        /\ Len(content[n]) <= Blocks
        /\ \A i \in 1 .. Len(content[n]) : content[n][i] = d
    BY <1>2 DEF NativeInv, DumpsArePrefixes
  <1>4. /\ content'[n] \in Seq(Dexes \cup {NoDex})
        /\ Len(content'[n]) <= Blocks
        /\ \A i \in 1 .. Len(content'[n]) : content'[n][i] = d
        /\ content[n] = [i \in 1 .. Blocks |-> d] => content'[n] = content[n]
    BY <1>1, <1>2, <1>3, WriteAtPrefix DEF NativeInv
  <1>5. \A m \in Lengths : m # n => content'[m] = content[m]
    BY <1>1 DEF NativeInv
  <1>6. \A e \in Dexes : Length[e] \in Lengths /\ (Length[e] = n => e = d)
    BY <1>2 DEF NativeAlone, Lengths
  <1>7. DumpsArePrefixes'
    BY <1>4, <1>5, <1>6 DEF NativeInv, DumpsArePrefixes
  <1>8. content' \in [Lengths -> Seq(Dexes \cup {NoDex})]
    BY <1>1, <1>4, <1>5 DEF NativeInv
  <1>9. NativeInv'
    BY <1>2, <1>7, <1>8 DEF NativeInv
  <1>10. \A e \in Dexes : Whole(e) => Whole(e)'
    BY <1>2, <1>4, <1>5, <1>6 DEF Whole
  <1> QED
    BY <1>9, <1>10

\* Every other step leaves the dumps as they are.
LEMMA OthersKeepDumps ==
    ASSUME NativeAlone, NativeInv, [Next]_vars, \A th \in Threads : ~Write(th)
    PROVE  NativeInv' /\ UNCHANGED content
  <1> USE DEF Goto
  <1>1. ASSUME NEW th \in Threads, NEW d \in Dexes, OpenDex(th, d)
        PROVE  NativeInv' /\ UNCHANGED content
    BY <1>1 DEF OpenDex, Begin, NativeInv, DumpsArePrefixes, disk
  <1>2. ASSUME NEW th \in Threads, NEW d \in Dexes, LoadClass(th, d)
        PROVE  FALSE
    BY <1>2 DEF LoadClass, NativeAlone
  <1>3. ASSUME NEW th \in Threads, Java(th)
        PROVE  FALSE
    BY <1>3 DEF Java, Check, Create, Fill, Shut, NativeInv
  <1>4. ASSUME NEW th \in Threads, Native(th)
        PROVE  NativeInv' /\ UNCHANGED content
    <2>1. CASE Probe(th)
      BY <2>1 DEF Probe, NativeInv, DumpsArePrefixes, disk
    <2>2. CASE Open(th)
      BY <2>2 DEF Open, NativeInv, DumpsArePrefixes
    <2>3. CASE Close(th)
      BY <2>3 DEF Close, NativeInv, DumpsArePrefixes, disk
    <2>4. CASE CallOriginal(th)
      BY <2>4 DEF CallOriginal, NativeInv, DumpsArePrefixes, disk
    <2> QED
      BY <1>4, <2>1, <2>2, <2>3, <2>4 DEF Native
  <1>5. ASSUME Restart
        PROVE  NativeInv' /\ UNCHANGED content
    BY <1>5 DEF Restart, NativeInv, DumpsArePrefixes
  <1>6. ASSUME UNCHANGED vars
        PROVE  NativeInv' /\ UNCHANGED content
    BY <1>6 DEF vars, disk, NativeInv, DumpsArePrefixes
  <1> QED
    BY <1>1, <1>2, <1>3, <1>4, <1>5, <1>6 DEF Next

LEMMA StepNative ==
    ASSUME NativeAlone, NativeInv, [Next]_vars
    PROVE  NativeInv' /\ \A d \in Dexes : Whole(d) => Whole(d)'
  <1>1. CASE \E th \in Threads : Write(th)
    BY <1>1, WriteKeeps
  <1>2. CASE \A th \in Threads : ~Write(th)
    BY <1>2, OthersKeepDumps DEF Whole
  <1> QED
    BY <1>1, <1>2

-----------------------------------------------------------------------------
\* No crash, restart, short write or overlap of two threads leaves a dump that
\* is not a prefix of its dex (fileutils.cpp:30-41).
THEOREM PrefixesOnly ==
    ASSUME NativeAlone
    PROVE  Spec => []DumpsArePrefixes
  <1>1. Init => NativeInv
    BY InitNative
  <1>2. NativeInv /\ [Next]_vars => NativeInv'
    BY StepNative
  <1>3. NativeInv => DumpsArePrefixes
    BY DEF NativeInv
  <1> QED
    BY <1>1, <1>2, <1>3, PTL DEF Spec

\* A dump that is complete is never damaged again, by whatever later call or
\* later run of the package (fileutils.cpp:23-35).
THEOREM CompleteForGood ==
    ASSUME NativeAlone
    PROVE  Spec => CompleteStaysComplete
  <1>1. Init => NativeInv
    BY InitNative
  <1>2. NativeInv /\ [Next]_vars => NativeInv'
    BY StepNative
  <1>3. NativeInv /\ [Next]_vars => [\A d \in Dexes : Whole(d) => Whole(d)']_vars
    BY StepNative
  <1> QED
    BY <1>1, <1>2, <1>3, PTL DEF Spec, CompleteStaysComplete

-----------------------------------------------------------------------------
(* Types, and the descriptors, whatever is installed and whatever fails *)

\* Places of a thread that has a descriptor or a stream open to write.
Holding == {"write", "close", "fill", "shut"}
Holders    == {th \in Threads : pc[th] \in Holding}

\* A descriptor that a writer has open is counted, so that no close takes the
\* count below those that others have: what was left open only adds to it
\* (deviceutils.cpp:82-207, fileutils.cpp:20-42, FileUtils.java:25-27).
Held == IsFiniteSet(Holders) /\ Cardinality(Holders) <= fds

\* A thread at work has a dex, whose length names a dump.
HasDex == \A th \in Threads : pc[th] # "idle" => dex[th] \in Dexes

StoreInv == TypeOK /\ Held /\ HasDex

\* Thread th moves to l, and the count with it: it rises with a descriptor that
\* is opened, and falls by one at most, when th had one.
Counted(th, l) ==
    /\ pc' = [pc EXCEPT ![th] = l] /\ fds' \in Int
    /\ l \in Holding => fds' >= fds + 1 \/ (pc[th] \in Holding /\ fds' = fds)
    /\ l \notin Holding => fds' >= fds \/ (pc[th] \in Holding /\ fds' = fds - 1)

\* A thread that gets a descriptor adds one to the count, and the count does
\* not fall but by the one that a thread gives back.
LEMMA HeldStep ==
    ASSUME TypeOK, Held, NEW th \in Threads, NEW l, Counted(th, l)
    PROVE  Held' /\ fds' >= 0
  <1>0. /\ pc' = [pc EXCEPT ![th] = l] /\ fds' \in Int
        /\ l \in Holding => fds' >= fds + 1 \/ (pc[th] \in Holding /\ fds' = fds)
        /\ l \notin Holding => fds' >= fds \/ (pc[th] \in Holding /\ fds' = fds - 1)
    BY DEF Counted
  <1>1. pc'[th] = l /\ \A u \in Threads : u # th => pc'[u] = pc[u]
    BY <1>0 DEF TypeOK
  <1>2. /\ IsFiniteSet(Holders) /\ Cardinality(Holders) \in Nat
        /\ fds \in Int /\ Cardinality(Holders) <= fds
    BY FS_CardinalityType DEF Held, TypeOK
  <1>3. CASE l \in Holding
    <2>1. Holders' = Holders \cup {th}
      BY <1>1, <1>3 DEF Holders
    <2>2. /\ IsFiniteSet(Holders')
          /\ Cardinality(Holders') =
                IF th \in Holders THEN Cardinality(Holders) ELSE Cardinality(Holders) + 1
      BY <1>2, <2>1, FS_AddElement
    <2>3. th \in Holders <=> pc[th] \in Holding
      BY DEF Holders
    <2> QED
      BY <1>0, <1>2, <1>3, <2>2, <2>3 DEF Held
  <1>4. CASE l \notin Holding
    <2>1. Holders' = Holders \ {th}
      BY <1>1, <1>4 DEF Holders
    <2>2. /\ IsFiniteSet(Holders')
          /\ Cardinality(Holders') =
                IF th \in Holders THEN Cardinality(Holders) - 1 ELSE Cardinality(Holders)
      BY <1>2, <2>1, FS_RemoveElement
    <2>3. Cardinality(Holders') \in Nat
      BY <2>2, FS_CardinalityType
    <2>4. th \in Holders <=> pc[th] \in Holding
      BY DEF Holders
    <2> QED
      BY <1>0, <1>2, <1>4, <2>2, <2>3, <2>4 DEF Held
  <1> QED
    BY <1>3, <1>4

\* What is written to a dump is a dump again.
LEMMA WriteAtType ==
    ASSUME NEW c \in Seq(Dexes \cup {NoDex}), NEW d \in Dexes, NEW from, NEW to \in Nat
    PROVE  WriteAt(c, d, from, to) \in Seq(Dexes \cup {NoDex})
  <1> DEFINE n == IF Len(c) > to THEN Len(c) ELSE to
  <1>1. n \in Nat /\ Len(c) \in Nat
    OBVIOUS
  <1>2. WriteAt(c, d, from, to) =
            [k \in 1 .. n |-> IF k \in from + 1 .. to THEN d
                              ELSE IF k <= Len(c) THEN c[k] ELSE NoDex]
    BY DEF WriteAt
  <1>3. \A k \in 1 .. n : (IF k \in from + 1 .. to THEN d
                           ELSE IF k <= Len(c) THEN c[k] ELSE NoDex) \in Dexes \cup {NoDex}
    BY <1>1
  <1> HIDE DEF n
  <1> QED
    BY <1>1, <1>2, <1>3

LEMMA InitStore == Init => StoreInv
  <1> SUFFICES ASSUME Init
               PROVE  StoreInv
    OBVIOUS
  <1>1. TypeOK
    <2>1. content \in [Lengths -> Seq(Dexes \cup {NoDex})]
      BY DEF Init
    <2>2. dir \in BOOLEAN
      BY DEF Init
    <2> QED
      BY <2>1, <2>2 DEF Init, TypeOK, Labels
  <1>2. Held
    <2>1. Holders = {} /\ fds = 0
      BY DEF Init, Holders, Holding
    <2> QED
      BY <2>1, FS_EmptySet DEF Held
  <1> QED
    BY <1>1, <1>2 DEF Init, StoreInv, HasDex

\* The path of a thread at work is that of a dump.
LEMMA PathLength ==
    ASSUME HasDex, NEW th \in Threads, pc[th] # "idle"
    PROVE  dex[th] \in Dexes /\ Path(th) \in Lengths
  BY DEF HasDex, Path, Lengths

\* A write to a dump, as the two writers make it.
LEMMA ContentStep ==
    ASSUME TypeOK, HasDex, NEW th \in Threads, pc[th] # "idle", NEW from, NEW to \in Nat,
           content' = [content EXCEPT ![Path(th)] = WriteAt(@, dex[th], from, to)]
    PROVE  content' \in [Lengths -> Seq(Dexes \cup {NoDex})]
  <1>1. dex[th] \in Dexes /\ Path(th) \in Lengths
    BY PathLength
  <1>2. content[Path(th)] \in Seq(Dexes \cup {NoDex})
    BY <1>1 DEF TypeOK
  <1>3. WriteAt(content[Path(th)], dex[th], from, to) \in Seq(Dexes \cup {NoDex})
    BY <1>1, <1>2, WriteAtType
  <1> QED
    BY <1>1, <1>3 DEF TypeOK

\* A thread goes on with its dex.
LEMMA SameDex ==
    ASSUME TypeOK, HasDex, NEW th \in Threads, pc[th] # "idle", NEW l \in Labels,
           pc' = [pc EXCEPT ![th] = l], dex' = dex
    PROVE  pc' \in [Threads -> Labels] /\ HasDex'
  BY DEF TypeOK, HasDex

\* A call ends.
LEMMA ReturnStore ==
    ASSUME TypeOK, HasDex, NEW th \in Threads, Return(th)
    PROVE  /\ pc' \in [Threads -> Labels] /\ dex' \in [Threads -> Dexes \cup {NoDex}]
           /\ next' \in [Threads -> 0 .. Blocks] /\ HasDex'
  BY DEF Return, Goto, TypeOK, HasDex, Labels

LEMMA NativeStore ==
    ASSUME StoreInv, NEW th \in Threads, Native(th)
    PROVE  StoreInv'
  <1> USE DEF Goto
  <1>0. TypeOK /\ Held /\ HasDex /\ fds \in 0 .. FdLimit
    BY DEF StoreInv, TypeOK
  <1>1. CASE Probe(th)
    <2>1. /\ pc[th] = "probe" /\ UNCHANGED <<dir, present, content, dex, next, calls, crashes, opened>>
          /\ \/ fds < FdLimit /\ fds' = fds + 1 /\ pc' = [pc EXCEPT ![th] = "original"]
             \/ fds' = fds /\ pc' = [pc EXCEPT ![th] = "open"]
      BY <1>1 DEF Probe, disk, bounds
    <2>2. PICK l \in {"original", "open"} : pc' = [pc EXCEPT ![th] = l]
      BY <2>1
    <2>3. fds' \in 0 .. FdLimit /\ fds' >= fds
      BY <1>0, <2>1
    <2>4. Held'
      <3>1. Counted(th, l)
        BY <1>0, <2>2, <2>3 DEF Counted, Holding
      <3> QED
        BY <1>0, <3>1, HeldStep
    <2>5. pc' \in [Threads -> Labels] /\ HasDex'
      BY <1>0, <2>1, <2>2, SameDex DEF Labels
    <2> QED
      BY <1>0, <2>1, <2>3, <2>4, <2>5 DEF StoreInv, TypeOK
  <1>2. CASE Open(th)
    <2>1. /\ pc[th] = "open" /\ UNCHANGED <<dir, content, dex, next, calls, crashes, opened>>
          /\ \/ /\ fds < FdLimit /\ fds' = fds + 1 /\ pc' = [pc EXCEPT ![th] = "write"]
                /\ present' = present \cup {Path(th)}
             \/ fds' = fds /\ pc' = [pc EXCEPT ![th] = "original"] /\ present' = present
      BY <1>2 DEF Open, bounds
    <2>2. PICK l \in {"write", "original"} : /\ pc' = [pc EXCEPT ![th] = l]
                                             /\ l = "write" => fds' = fds + 1
      BY <2>1
    <2>3. fds' \in 0 .. FdLimit /\ fds' >= fds
      BY <1>0, <2>1
    <2>4. Held'
      <3>1. Counted(th, l)
        BY <1>0, <2>2, <2>3 DEF Counted, Holding
      <3> QED
        BY <1>0, <3>1, HeldStep
    <2>5. pc' \in [Threads -> Labels] /\ HasDex'
      BY <1>0, <2>1, <2>2, SameDex DEF Labels
    <2>6. present' \subseteq Lengths
      BY <1>0, <2>1, PathLength DEF TypeOK
    <2> QED
      BY <1>0, <2>1, <2>3, <2>4, <2>5, <2>6 DEF StoreInv, TypeOK
  <1>3. CASE Write(th)
    <2>1. PICK k \in (IF "short" \in Faults THEN 0 .. Blocks ELSE {Blocks}) :
             content' = [content EXCEPT ![Path(th)] = WriteAt(@, dex[th], 0, k)]
      BY <1>3, ZenonT(30) DEF Write
    <2>2. /\ pc[th] = "write" /\ pc' = [pc EXCEPT ![th] = "close"]
          /\ UNCHANGED <<dir, present, fds, dex, next, calls, crashes, opened>>
      BY <1>3 DEF Write, bounds
    <2>3. content' \in [Lengths -> Seq(Dexes \cup {NoDex})]
      <3>1. k \in Nat /\ pc[th] # "idle"
        BY <2>1, <2>2
      <3> QED
        BY <1>0, <2>1, <3>1, ContentStep
    <2>4. Held'
      <3>1. Counted(th, "close")
        BY <1>0, <2>2 DEF Counted, Holding
      <3> QED
        BY <1>0, <3>1, HeldStep
    <2>5. pc' \in [Threads -> Labels] /\ HasDex'
      BY <1>0, <2>2, SameDex DEF Labels
    <2> QED
      BY <1>0, <2>2, <2>3, <2>4, <2>5 DEF StoreInv, TypeOK
  <1>4. CASE Close(th)
    <2>1. /\ pc[th] = "close" /\ pc' = [pc EXCEPT ![th] = "original"] /\ fds' = fds - 1
          /\ UNCHANGED <<dir, present, content, dex, next, calls, crashes, opened>>
      BY <1>4 DEF Close, disk, bounds
    <2>2. Held' /\ fds' >= 0
      <3>1. Counted(th, "original")
        BY <1>0, <2>1 DEF Counted, Holding
      <3> QED
        BY <1>0, <3>1, HeldStep
    <2>3. pc' \in [Threads -> Labels] /\ HasDex'
      BY <1>0, <2>1, SameDex DEF Labels
    <2>4. fds' \in 0 .. FdLimit
      BY <1>0, <2>1, <2>2
    <2> QED
      BY <1>0, <2>1, <2>2, <2>3, <2>4 DEF StoreInv, TypeOK
  <1>5. CASE CallOriginal(th)
    <2>1. /\ pc[th] = "original" /\ pc' = [pc EXCEPT ![th] = "idle"]
          /\ dex' = [dex EXCEPT ![th] = NoDex]
          /\ UNCHANGED <<dir, present, content, fds, next, calls, crashes, opened>>
      BY <1>5 DEF CallOriginal, disk, bounds
    <2>2. Held'
      <3>1. Counted(th, "idle")
        BY <1>0, <2>1 DEF Counted, Holding
      <3> QED
        BY <1>0, <3>1, HeldStep
    <2>3. /\ pc' \in [Threads -> Labels] /\ dex' \in [Threads -> Dexes \cup {NoDex}] /\ HasDex'
      BY <1>0, <2>1 DEF TypeOK, Labels, HasDex
    <2> QED
      BY <1>0, <2>1, <2>2, <2>3 DEF StoreInv, TypeOK
  <1> QED
    BY <1>1, <1>2, <1>3, <1>4, <1>5 DEF Native

LEMMA JavaStore ==
    ASSUME StoreInv, NEW th \in Threads, Java(th)
    PROVE  StoreInv'
  <1> USE DEF Goto
  <1>0. TypeOK /\ Held /\ HasDex /\ fds \in 0 .. FdLimit
    BY DEF StoreInv, TypeOK
  <1>1. CASE Check(th)
    <2>1. pc[th] = "check" /\ UNCHANGED <<dir, present, content, fds, calls, crashes, opened>>
      BY <1>1 DEF Check, disk, bounds
    <2>2. CASE Return(th)
      <3>1. Held'
        <4>1. Counted(th, "idle")
          BY <1>0, <2>1, <2>2 DEF Counted, Holding, Return
        <4> QED
          BY <1>0, <4>1, HeldStep
      <3> QED
        BY <1>0, <2>1, <2>2, <3>1, ReturnStore DEF StoreInv, TypeOK
    <2>3. CASE pc' = [pc EXCEPT ![th] = "create"] /\ UNCHANGED <<dex, next>>
      <3>1. Held'
        <4>1. Counted(th, "create")
          BY <1>0, <2>1, <2>3 DEF Counted, Holding
        <4> QED
          BY <1>0, <4>1, HeldStep
      <3>2. pc' \in [Threads -> Labels] /\ HasDex'
        BY <1>0, <2>1, <2>3, SameDex DEF Labels
      <3> QED
        BY <1>0, <2>1, <2>3, <3>1, <3>2 DEF StoreInv, TypeOK
    <2> QED
      BY <1>1, <2>2, <2>3 DEF Check
  <1>2. CASE Create(th)
    <2>1. pc[th] = "create" /\ UNCHANGED <<dir, calls, crashes, opened>>
      BY <1>2 DEF Create, bounds
    <2>2. CASE Return(th) /\ UNCHANGED <<fds, present, content>>
      <3>1. Held'
        <4>1. Counted(th, "idle")
          BY <1>0, <2>1, <2>2 DEF Counted, Holding, Return
        <4> QED
          BY <1>0, <4>1, HeldStep
      <3> QED
        BY <1>0, <2>1, <2>2, <3>1, ReturnStore DEF StoreInv, TypeOK
    <2>3. CASE /\ fds < FdLimit /\ fds' = fds + 1
               /\ present' = present \cup {Path(th)}
               /\ content' = [content EXCEPT ![Path(th)] = <<>>]
               /\ pc' = [pc EXCEPT ![th] = "fill"]
               /\ UNCHANGED <<dex, next>>
      <3>1. Held'
        <4>1. Counted(th, "fill")
          BY <1>0, <2>3 DEF Counted, Holding
        <4> QED
          BY <1>0, <4>1, HeldStep
      <3>2. pc' \in [Threads -> Labels] /\ HasDex'
        BY <1>0, <2>1, <2>3, SameDex DEF Labels
      <3>3. /\ present' \subseteq Lengths
            /\ content' \in [Lengths -> Seq(Dexes \cup {NoDex})]
        <4>1. Path(th) \in Lengths /\ <<>> \in Seq(Dexes \cup {NoDex})
          BY <1>0, <2>1, PathLength
        <4> QED
          BY <1>0, <2>3, <4>1 DEF TypeOK
      <3>4. fds' \in 0 .. FdLimit
        BY <1>0, <2>3
      <3> QED
        BY <1>0, <2>1, <2>3, <3>1, <3>2, <3>3, <3>4 DEF StoreInv, TypeOK
    <2> QED
      BY <1>2, <2>2, <2>3 DEF Create
  <1>3. CASE Fill(th)
    <2>1. pc[th] = "fill" /\ UNCHANGED <<dir, present, fds, calls, crashes, opened>>
      BY <1>3 DEF Fill, bounds
    <2>2. CASE Return(th) /\ UNCHANGED content
      <3>1. Held'
        <4>1. Counted(th, "idle")
          BY <1>0, <2>1, <2>2 DEF Counted, Holding, Return
        <4> QED
          BY <1>0, <4>1, HeldStep
      <3> QED
        BY <1>0, <2>1, <2>2, <3>1, ReturnStore DEF StoreInv, TypeOK
    <2>3. ASSUME NEW k \in next[th] + 1 .. Blocks,
                 content' = [content EXCEPT ![Path(th)] = WriteAt(@, dex[th], next[th], k)],
                 next' = [next EXCEPT ![th] = k],
                 pc' = [pc EXCEPT ![th] = IF k = Blocks THEN "shut" ELSE "fill"],
                 UNCHANGED dex
          PROVE  StoreInv'
      <3>1. k \in 0 .. Blocks /\ k \in Nat
        <4>1. next[th] \in 0 .. Blocks
          BY <1>0 DEF TypeOK
        <4> QED
          BY <2>3, <4>1
      <3>2. PICK l \in {"shut", "fill"} : pc' = [pc EXCEPT ![th] = l]
        BY <2>3
      <3>3. Held'
        <4>1. Counted(th, l)
          BY <1>0, <2>1, <3>2 DEF Counted, Holding
        <4> QED
          BY <1>0, <4>1, HeldStep
      <3>4. pc' \in [Threads -> Labels] /\ HasDex'
        BY <1>0, <2>1, <2>3, <3>2, SameDex DEF Labels
      <3>5. content' \in [Lengths -> Seq(Dexes \cup {NoDex})]
        BY <1>0, <2>1, <2>3, <3>1, ContentStep
      <3>6. next' \in [Threads -> 0 .. Blocks]
        BY <1>0, <2>3, <3>1 DEF TypeOK
      <3> QED
        BY <1>0, <2>1, <2>3, <3>3, <3>4, <3>5, <3>6 DEF StoreInv, TypeOK
    <2> QED
      BY <1>3, <2>2, <2>3 DEF Fill
  <1>4. CASE Shut(th)
    <2>1. /\ pc[th] = "shut" /\ Return(th) /\ fds' = fds - 1
          /\ UNCHANGED <<dir, present, content, calls, crashes, opened>>
      BY <1>4 DEF Shut, disk, bounds
    <2>2. Held' /\ fds' >= 0
      <3>1. Counted(th, "idle")
        BY <1>0, <2>1 DEF Counted, Holding, Return
      <3> QED
        BY <1>0, <3>1, HeldStep
    <2>3. fds' \in 0 .. FdLimit
      BY <1>0, <2>1, <2>2
    <2> QED
      BY <1>0, <2>1, <2>2, <2>3, ReturnStore DEF StoreInv, TypeOK
  <1> QED
    BY <1>1, <1>2, <1>3, <1>4 DEF Java

LEMMA StepStore ==
    ASSUME StoreInv, [Next]_vars
    PROVE  StoreInv'
  <1>0. TypeOK /\ Held /\ HasDex /\ fds \in 0 .. FdLimit
    BY DEF StoreInv, TypeOK
  <1>1. ASSUME NEW th \in Threads, NEW d \in Dexes, OpenDex(th, d) \/ LoadClass(th, d)
        PROVE  StoreInv'
    <2>1. /\ pc[th] = "idle" /\ UNCHANGED <<dir, present, content, fds, next, crashes>>
          /\ calls < MaxCalls /\ calls' = calls + 1
          /\ dex' = [dex EXCEPT ![th] = d]
          /\ opened' \in {opened, opened \cup {d}}
      BY <1>1 DEF OpenDex, LoadClass, Begin, disk
    <2>2. PICK l \in {"probe", "original", "check"} : pc' = [pc EXCEPT ![th] = l]
      BY <1>1 DEF OpenDex, LoadClass, Begin, Goto
    <2>3. Held'
      <3>1. Counted(th, l)
        BY <1>0, <2>1, <2>2 DEF Counted, Holding
      <3> QED
        BY <1>0, <3>1, HeldStep
    <2>4. /\ pc' \in [Threads -> Labels] /\ dex' \in [Threads -> Dexes \cup {NoDex}] /\ HasDex'
      BY <1>0, <2>1, <2>2 DEF TypeOK, Labels, HasDex
    <2>5. opened' \subseteq Dexes /\ calls' \in 0 .. MaxCalls
      BY <1>0, <2>1 DEF TypeOK
    <2> QED
      BY <1>0, <2>1, <2>3, <2>4, <2>5 DEF StoreInv, TypeOK
  <1>2. CASE Restart
    <2>1. /\ crashes' = crashes + 1 /\ crashes < MaxCrashes /\ UNCHANGED <<present, content>>
          /\ fds' = 0 /\ calls' = 0 /\ opened' = {}
          /\ pc' = [u \in Threads |-> "idle"] /\ dex' = [u \in Threads |-> NoDex]
          /\ next' = [u \in Threads |-> 0]
      BY <1>2 DEF Restart
    <2>2. dir' \in BOOLEAN
      BY <1>0, <1>2 DEF Restart, TypeOK
    <2>3. Held'
      <3>1. Holders' = {}
        BY <2>1 DEF Holders, Holding
      <3> QED
        BY <2>1, <3>1, FS_EmptySet DEF Held
    <2>4. TypeOK'
      BY <1>0, <2>1, <2>2 DEF TypeOK, Labels
    <2> QED
      BY <2>1, <2>3, <2>4 DEF StoreInv, HasDex
  <1>3. CASE UNCHANGED vars
    BY <1>3 DEF vars, disk, bounds, StoreInv, TypeOK, Held, Holders, HasDex
  <1> QED
    BY <1>1, <1>2, <1>3, NativeStore, JavaStore DEF Next

\* With whichever writers are installed, wherever writes fail, directories are
\* missing and processes are killed, no descriptor is closed that was not open
\* and none is opened beyond the limit; files, streams and calls keep their
\* types (deviceutils.cpp:82-207, fileutils.cpp:20-42, FileUtils.java:25-27).
THEOREM TypeCorrect == Spec => []TypeOK
  <1>1. Init => StoreInv
    BY InitStore
  <1>2. StoreInv /\ [Next]_vars => StoreInv'
    BY StepStore
  <1>3. StoreInv => TypeOK
    BY DEF StoreInv
  <1> QED
    BY <1>1, <1>2, <1>3, PTL DEF Spec

-----------------------------------------------------------------------------
(* Both writers, in a process that is not killed, with writes that succeed *)

\* No write is cut short, nothing is restarted, and no two dexes have one length.
Undisturbed ==
    /\ "short" \notin Faults
    /\ MaxCrashes = 0
    /\ \A d, e \in Dexes : Length[d] = Length[e] => d = e

\* A thread that will still write block k of d's dump.
WillWrite(th, d, k) ==
    /\ dex[th] = d
    /\ pc[th] = "write" \/ (pc[th] = "fill" /\ next[th] < k)

\* Block k of d's dump is there.
Written(d, k) == k <= Len(content[Length[d]]) /\ content[Length[d]][k] = d

\* A block that is missing from a dump that exists is still to be written by a thread
\* that is at work (fileutils.cpp:22-41; FileUtils.java:25-27).
SettleInv ==
    /\ content \in [Lengths -> Seq(Dexes \cup {NoDex})]
    /\ pc \in [Threads -> Labels]
    /\ dex \in [Threads -> Dexes \cup {NoDex}]
    /\ next \in [Threads -> 0 .. Blocks]
    /\ crashes = 0
    /\ \A th \in Threads : /\ pc[th] \notin {"idle", "original", "close", "shut"}
                                 => dex[th] \in Dexes
                           /\ pc[th] \notin {"fill", "shut"} => next[th] = 0
    /\ \A d \in Dexes :
          /\ Len(content[Length[d]]) <= Blocks
          /\ Length[d] \in present =>
                \A k \in 1 .. Blocks :
                    Written(d, k) \/ \E th \in Threads : WillWrite(th, d, k)

\* Blocks from + 1 to to become d's, and all others stay as they are.
LEMMA WriteAtBlocks ==
    ASSUME NEW c \in Seq(Dexes \cup {NoDex}), Len(c) <= Blocks, NEW d \in Dexes,
           NEW from \in 0 .. Blocks, NEW to \in 0 .. Blocks,
           NEW w, w = WriteAt(c, d, from, to)
    PROVE  /\ w \in Seq(Dexes \cup {NoDex})
           /\ Len(w) <= Blocks /\ Len(c) <= Len(w) /\ to <= Len(w)
           /\ \A k \in from + 1 .. to : w[k] = d
           /\ \A k \in 1 .. Len(c) : w[k] = c[k] \/ w[k] = d
  <1> DEFINE n == IF Len(c) > to THEN Len(c) ELSE to
  <1>1. n \in Nat /\ n <= Blocks /\ Len(c) \in Nat /\ Len(c) <= n /\ to <= n
    OBVIOUS
  <1>2. w = [k \in 1 .. n |-> IF k \in from + 1 .. to THEN d
                              ELSE IF k <= Len(c) THEN c[k] ELSE NoDex]
    BY DEF WriteAt
  <1>3. \A k \in 1 .. n : (IF k \in from + 1 .. to THEN d
                           ELSE IF k <= Len(c) THEN c[k] ELSE NoDex) \in Dexes \cup {NoDex}
    BY <1>1
  <1> HIDE DEF n
  <1>4. w \in Seq(Dexes \cup {NoDex}) /\ Len(w) = n
    BY <1>1, <1>2, <1>3
  <1>5. \A k \in from + 1 .. to : w[k] = d
    BY <1>1, <1>2
  <1>6. \A k \in 1 .. Len(c) : w[k] = c[k] \/ w[k] = d
    BY <1>1, <1>2
  <1> QED
    BY <1>1, <1>4, <1>5, <1>6

\* No dump exists yet.
LEMMA InitSettle == Init => SettleInv
  <1> SUFFICES ASSUME Init PROVE SettleInv
    OBVIOUS
  <1>1. \A d \in Dexes : Len(content[Length[d]]) = 0
    BY DEF Init, Lengths
  <1> QED
    BY <1>1 DEF Init, SettleInv, Labels

\* A step that writes no file and begins no write: whoever was to write still is.
LEMMA QuietSettle ==
    ASSUME SettleInv, UNCHANGED <<content, present, crashes>>, NEW th \in Threads,
           \A u \in Threads : u # th => /\ pc'[u] = pc[u] /\ dex'[u] = dex[u]
                                        /\ next'[u] = next[u],
           pc' \in [Threads -> Labels], dex' \in [Threads -> Dexes \cup {NoDex}],
           next' \in [Threads -> 0 .. Blocks],
           pc[th] \notin {"write", "fill"},
           pc'[th] \notin {"idle", "original", "close", "shut"} => dex'[th] \in Dexes,
           pc'[th] \notin {"fill", "shut"} => next'[th] = 0
    PROVE  SettleInv'
  <1>1. \A d \in Dexes, k \in 1 .. Blocks : /\ Written(d, k)' <=> Written(d, k)
                                            /\ \A u \in Threads : WillWrite(u, d, k)
                                                                     => WillWrite(u, d, k)'
    BY DEF Written, WillWrite
  <1> QED
    BY <1>1 DEF SettleInv

\* The native writer announces a whole write, or makes one.
LEMMA NativeSettle ==
    ASSUME Undisturbed, SettleInv, NEW th \in Threads, Native(th)
    PROVE  SettleInv'
  <1> USE DEF Goto
  <1>1. CASE Probe(th)
    <2>1. /\ UNCHANGED <<content, present, crashes, dex, next>>
          /\ pc[th] = "probe" /\ pc' \in [Threads -> Labels] /\ pc'[th] \in {"original", "open"}
          /\ \A u \in Threads : u # th => pc'[u] = pc[u]
      BY <1>1 DEF Probe, SettleInv, disk, bounds, Labels
    <2> QED
      BY <2>1, QuietSettle DEF SettleInv
  <1>2. CASE Open(th)
    <2>1. /\ UNCHANGED <<content, crashes, dex, next>> /\ pc[th] = "open"
          /\ dex[th] \in Dexes /\ next[th] = 0
          /\ \A u \in Threads : u # th => pc'[u] = pc[u]
      BY <1>2 DEF Open, SettleInv, bounds
    <2>2. CASE UNCHANGED present /\ pc' = [pc EXCEPT ![th] = "original"]
      <3>1. pc' \in [Threads -> Labels] /\ pc'[th] = "original"
        BY <2>2 DEF SettleInv, Labels
      <3> QED
        BY <2>1, <2>2, <3>1, QuietSettle DEF SettleInv
    <2>3. CASE present' = present \cup {Path(th)} /\ pc' = [pc EXCEPT ![th] = "write"]
      <3>1. pc' \in [Threads -> Labels] /\ pc'[th] = "write"
        BY <2>3 DEF SettleInv, Labels
      <3>2. ASSUME NEW d \in Dexes, Length[d] \in present', NEW k \in 1 .. Blocks
            PROVE  Written(d, k)' \/ \E u \in Threads : WillWrite(u, d, k)'
        <4>1. CASE d = dex[th]
          BY <2>1, <3>1, <4>1 DEF WillWrite
        <4>2. CASE d # dex[th]
          <5>1. Length[d] \in present
            BY <2>1, <2>3, <3>2, <4>2 DEF Undisturbed, Path
          <5>2. Written(d, k)' <=> Written(d, k)
            BY <2>1 DEF Written
          <5>3. \A u \in Threads : WillWrite(u, d, k) => WillWrite(u, d, k)'
            BY <2>1 DEF WillWrite
          <5> QED
            BY <5>1, <5>2, <5>3 DEF SettleInv
        <4> QED
          BY <4>1, <4>2
      <3> QED
        BY <2>1, <3>1, <3>2 DEF SettleInv
    <2> QED
      BY <1>2, <2>2, <2>3 DEF Open
  <1>3. CASE Write(th)
    <2> DEFINE d == dex[th]
               n == Length[d]
    <2>1. /\ UNCHANGED <<present, crashes, dex, next>> /\ pc[th] = "write"
          /\ d \in Dexes /\ next[th] = 0 /\ n \in Lengths
          /\ pc' \in [Threads -> Labels] /\ pc'[th] = "close"
          /\ \A u \in Threads : u # th => pc'[u] = pc[u]
      BY <1>3 DEF Write, SettleInv, bounds, Labels, Lengths
    <2>2. content' = [content EXCEPT ![n] = WriteAt(@, d, 0, Blocks)]
      BY <1>3 DEF Write, Undisturbed, Path
    <2>3. /\ content'[n] \in Seq(Dexes \cup {NoDex})
          /\ Len(content'[n]) <= Blocks /\ Blocks <= Len(content'[n])
          /\ \A k \in 1 .. Blocks : content'[n][k] = d
      <3>1. content[n] \in Seq(Dexes \cup {NoDex}) /\ Len(content[n]) <= Blocks
        BY <2>1 DEF SettleInv
      <3>2. 0 \in 0 .. Blocks /\ Blocks \in 0 .. Blocks /\ 0 + 1 = 1
        OBVIOUS
      <3>3. content'[n] = WriteAt(content[n], d, 0, Blocks)
        BY <2>1, <2>2 DEF SettleInv
      <3>4. d \in Dexes
        BY <2>1
      <3> HIDE DEF d, n
      <3>5. /\ content'[n] \in Seq(Dexes \cup {NoDex})
            /\ Len(content'[n]) <= Blocks /\ Blocks <= Len(content'[n])
            /\ \A k \in 0 + 1 .. Blocks : content'[n][k] = d
        BY ONLY <3>1, <3>2, <3>3, <3>4, WriteAtBlocks
      <3> QED
        BY <3>2, <3>5
    <2>4. /\ \A m \in Lengths : m # n => content'[m] = content[m]
          /\ content' \in [Lengths -> Seq(Dexes \cup {NoDex})]
      BY <2>1, <2>2, <2>3 DEF SettleInv
    <2>5. \A e \in Dexes : Length[e] \in Lengths /\ (Length[e] = n => e = d)
      BY <2>1 DEF Undisturbed, Lengths
    <2>6. ASSUME NEW e \in Dexes, Length[e] \in present', NEW k \in 1 .. Blocks
          PROVE  Written(e, k)' \/ \E u \in Threads : WillWrite(u, e, k)'
      <3>1. CASE e = d
        BY <2>3, <3>1 DEF Written
      <3>2. CASE e # d
        <4>1. Written(e, k)' <=> Written(e, k)
          BY <2>4, <2>5, <3>2 DEF Written
        <4>2. \A u \in Threads : WillWrite(u, e, k) => WillWrite(u, e, k)'
          BY <2>1, <3>2 DEF WillWrite
        <4> QED
          BY <2>1, <2>6, <4>1, <4>2 DEF SettleInv
      <3> QED
        BY <3>1, <3>2
    <2>7. \A e \in Dexes : Len(content'[Length[e]]) <= Blocks
      BY <2>3, <2>4, <2>5 DEF SettleInv
    <2> QED
      BY <2>1, <2>4, <2>6, <2>7 DEF SettleInv
  <1>4. CASE Close(th)
    <2>1. /\ UNCHANGED <<content, present, crashes, dex, next>>
          /\ pc[th] = "close" /\ pc' \in [Threads -> Labels] /\ pc'[th] = "original"
          /\ \A u \in Threads : u # th => pc'[u] = pc[u]
      BY <1>4 DEF Close, SettleInv, disk, bounds, Labels
    <2> QED
      BY <2>1, QuietSettle DEF SettleInv
  <1>5. CASE CallOriginal(th)
    <2>1. /\ UNCHANGED <<content, present, crashes, next>>
          /\ pc[th] = "original" /\ pc' \in [Threads -> Labels] /\ pc'[th] = "idle"
          /\ dex' \in [Threads -> Dexes \cup {NoDex}]
          /\ \A u \in Threads : u # th => pc'[u] = pc[u] /\ dex'[u] = dex[u]
      BY <1>5 DEF CallOriginal, SettleInv, disk, bounds, Labels
    <2> QED
      BY <2>1, QuietSettle DEF SettleInv
  <1> QED
    BY <1>1, <1>2, <1>3, <1>4, <1>5 DEF Native

\* The Java writer truncates a dump only to write all of it, from where it is.
LEMMA JavaSettle ==
    ASSUME Undisturbed, SettleInv, NEW th \in Threads, Java(th)
    PROVE  SettleInv'
  <1> USE DEF Goto
  <1> DEFINE Back == /\ pc' = [pc EXCEPT ![th] = "idle"]
                     /\ dex' = [dex EXCEPT ![th] = NoDex]
                     /\ next' = [next EXCEPT ![th] = 0]
  <1>1. ASSUME Back, UNCHANGED <<content, present, crashes>>, pc[th] # "fill", pc[th] # "write"
        PROVE  SettleInv'
    <2>1. /\ pc' \in [Threads -> Labels] /\ pc'[th] = "idle" /\ next'[th] = 0
          /\ dex' \in [Threads -> Dexes \cup {NoDex}] /\ next' \in [Threads -> 0 .. Blocks]
          /\ \A u \in Threads : u # th => pc'[u] = pc[u] /\ dex'[u] = dex[u] /\ next'[u] = next[u]
      BY <1>1 DEF SettleInv, Labels
    <2> QED
      BY <1>1, <2>1, QuietSettle
  <1> DEFINE d == dex[th]
             n == Length[d]
  <1>2. CASE Check(th)
    <2>1. CASE Return(th)
      BY <1>1, <1>2, <2>1 DEF Check, Return, disk, bounds
    <2>2. CASE pc' = [pc EXCEPT ![th] = "create"] /\ UNCHANGED <<dex, next>>
      <3>1. /\ UNCHANGED <<content, present, crashes, dex, next>>
            /\ pc[th] = "check" /\ pc' \in [Threads -> Labels] /\ pc'[th] = "create"
            /\ \A u \in Threads : u # th => pc'[u] = pc[u]
        BY <1>2, <2>2 DEF Check, SettleInv, disk, bounds, Labels
      <3> QED
        BY <3>1, QuietSettle DEF SettleInv
    <2> QED
      BY <1>2, <2>1, <2>2 DEF Check
  <1>3. CASE Create(th)
    <2>1. pc[th] = "create" /\ UNCHANGED crashes
      BY <1>3 DEF Create, bounds
    <2>2. CASE Return(th) /\ UNCHANGED <<present, content>>
      BY <1>1, <2>1, <2>2 DEF Return
    <2>3. CASE /\ present' = present \cup {Path(th)}
               /\ content' = [content EXCEPT ![Path(th)] = <<>>]
               /\ pc' = [pc EXCEPT ![th] = "fill"]
               /\ UNCHANGED <<dex, next>>
      <3>1. /\ d \in Dexes /\ next[th] = 0 /\ n \in Lengths /\ Path(th) = n
            /\ pc' \in [Threads -> Labels] /\ pc'[th] = "fill"
            /\ \A u \in Threads : u # th => pc'[u] = pc[u]
        BY <2>1, <2>3 DEF SettleInv, Labels, Lengths, Path
      <3>2. \A e \in Dexes : Length[e] \in Lengths /\ (Length[e] = n => e = d)
        BY <3>1 DEF Undisturbed, Lengths
      <3>3. /\ \A m \in Lengths : m # n => content'[m] = content[m]
            /\ content' \in [Lengths -> Seq(Dexes \cup {NoDex})] /\ content'[n] = <<>>
        BY <2>3, <3>1 DEF SettleInv
      <3>4. ASSUME NEW e \in Dexes, Length[e] \in present', NEW k \in 1 .. Blocks
            PROVE  Written(e, k)' \/ \E u \in Threads : WillWrite(u, e, k)'
        <4>1. CASE e = d
          BY <2>3, <3>1, <4>1 DEF WillWrite
        <4>2. CASE e # d
          <5>1. Length[e] \in present /\ (Written(e, k)' <=> Written(e, k))
            BY <2>3, <3>1, <3>2, <3>3, <3>4, <4>2 DEF Written
          <5>2. \A u \in Threads : WillWrite(u, e, k) => WillWrite(u, e, k)'
            BY <2>3, <3>1, <4>2 DEF WillWrite
          <5> QED
            BY <5>1, <5>2 DEF SettleInv
        <4> QED
          BY <4>1, <4>2
      <3>5. \A e \in Dexes : Len(content'[Length[e]]) <= Blocks
        <4>1. Len(content'[n]) <= Blocks
          BY <3>3, DumpAssumption
        <4>2. \A m \in Lengths : m = n \/ content'[m] = content[m]
          BY <3>3
        <4>3. \A e \in Dexes : Len(content[Length[e]]) <= Blocks
          BY DEF SettleInv
        <4> QED
          BY <3>2, <4>1, <4>2, <4>3
      <3> QED
        BY <2>1, <2>3, <3>1, <3>3, <3>4, <3>5 DEF SettleInv
    <2> QED
      BY <1>3, <2>2, <2>3 DEF Create
  <1>4. CASE Fill(th)
    <2>1. PICK j \in next[th] + 1 .. Blocks :
             /\ content' = [content EXCEPT ![Path(th)] = WriteAt(@, d, next[th], j)]
             /\ next' = [next EXCEPT ![th] = j]
             /\ pc' = [pc EXCEPT ![th] = IF j = Blocks THEN "shut" ELSE "fill"]
             /\ UNCHANGED <<dex, present, crashes>> /\ pc[th] = "fill"
      BY <1>4 DEF Fill, Undisturbed, bounds
    <2>2. /\ d \in Dexes /\ n \in Lengths /\ Path(th) = n
          /\ pc' \in [Threads -> Labels] /\ pc'[th] = IF j = Blocks THEN "shut" ELSE "fill"
          /\ next[th] \in 0 .. Blocks /\ j \in 0 .. Blocks
          /\ next' \in [Threads -> 0 .. Blocks] /\ next'[th] = j
          /\ \A u \in Threads : u # th => pc'[u] = pc[u] /\ next'[u] = next[u]
      <3>1. d \in Dexes /\ n \in Lengths /\ Path(th) = n
        BY <2>1 DEF SettleInv, Lengths, Path
      <3>2. next[th] \in 0 .. Blocks /\ j \in 0 .. Blocks
        <4>1. next[th] \in 0 .. Blocks
          BY DEF SettleInv
        <4> QED
          BY <2>1, <4>1, DumpAssumption
      <3>3. /\ pc' \in [Threads -> Labels]
            /\ pc'[th] = IF j = Blocks THEN "shut" ELSE "fill"
            /\ \A u \in Threads : u # th => pc'[u] = pc[u]
        BY <2>1 DEF SettleInv, Labels
      <3>4. /\ next' \in [Threads -> 0 .. Blocks] /\ next'[th] = j
            /\ \A u \in Threads : u # th => next'[u] = next[u]
        BY <2>1, <3>2 DEF SettleInv
      <3> QED
        BY <3>1, <3>2, <3>3, <3>4
    <2>3. \A e \in Dexes : Length[e] \in Lengths /\ (Length[e] = n => e = d)
      BY <2>2 DEF Undisturbed, Lengths
    <2>4. /\ content[n] \in Seq(Dexes \cup {NoDex}) /\ Len(content[n]) <= Blocks
          /\ content'[n] = WriteAt(content[n], d, next[th], j)
      BY <2>1, <2>2 DEF SettleInv
    <2>5. /\ content'[n] \in Seq(Dexes \cup {NoDex})
          /\ Len(content'[n]) <= Blocks /\ Len(content[n]) <= Len(content'[n])
          /\ j <= Len(content'[n])
          /\ \A k \in next[th] + 1 .. j : content'[n][k] = d
          /\ \A k \in 1 .. Len(content[n]) : content'[n][k] = content[n][k] \/ content'[n][k] = d
      <3>1. d \in Dexes /\ next[th] \in 0 .. Blocks /\ j \in 0 .. Blocks
        BY <2>2
      <3> HIDE DEF d, n
      <3> QED
        BY ONLY <2>4, <3>1, WriteAtBlocks
    <2>6. /\ \A m \in Lengths : m # n => content'[m] = content[m]
          /\ content' \in [Lengths -> Seq(Dexes \cup {NoDex})]
      BY <2>1, <2>2, <2>5 DEF SettleInv
    <2>7. ASSUME NEW e \in Dexes, Length[e] \in present', NEW k \in 1 .. Blocks
          PROVE  Written(e, k)' \/ \E u \in Threads : WillWrite(u, e, k)'
      <3>1. Written(e, k) \/ \E u \in Threads : WillWrite(u, e, k)
        BY <2>1, <2>7 DEF SettleInv
      <3>2. CASE e # d
        <4>1. Written(e, k)' <=> Written(e, k)
          BY <2>3, <2>6, <3>2 DEF Written
        <4>2. \A u \in Threads : WillWrite(u, e, k) => WillWrite(u, e, k)'
          BY <2>1, <2>2, <3>2 DEF WillWrite
        <4> QED
          BY <3>1, <4>1, <4>2
      <3>3. CASE e = d
        <4>1. Written(e, k) => Written(e, k)'
          <5>1. SUFFICES ASSUME k <= Len(content[n]), content[n][k] = d
                         PROVE  k <= Len(content'[n]) /\ content'[n][k] = d
            BY <2>1, <3>3 DEF Written
          <5> QED
            BY <2>4, <2>5, <5>1
        <4>2. \A u \in Threads : u # th /\ WillWrite(u, e, k) => WillWrite(u, e, k)'
          BY <2>1, <2>2 DEF WillWrite
        <4>3. WillWrite(th, e, k) => Written(e, k)' \/ WillWrite(th, e, k)'
          <5>1. CASE k <= j
            <6>1. WillWrite(th, e, k) => k \in next[th] + 1 .. j
              BY <2>1, <2>2, <5>1 DEF WillWrite
            <6> QED
              BY <2>1, <2>5, <3>3, <5>1, <6>1 DEF Written
          <5>2. CASE k > j
            BY <2>1, <2>2, <5>2 DEF WillWrite
          <5> QED
            BY <2>2, <5>1, <5>2
        <4>4. Written(e, k) \/ \E u \in Threads : WillWrite(u, e, k)
          BY <3>1
        <4>5. CASE Written(e, k)
          BY <4>1, <4>5
        <4>6. CASE \E u \in Threads : WillWrite(u, e, k)
          BY <4>2, <4>3, <4>6
        <4> QED
          BY <4>4, <4>5, <4>6
      <3> QED
        BY <3>2, <3>3
    <2>8. \A e \in Dexes : Len(content'[Length[e]]) <= Blocks
      BY <2>3, <2>5, <2>6 DEF SettleInv
    <2> QED
      BY <2>1, <2>2, <2>6, <2>7, <2>8 DEF SettleInv
  <1>5. CASE Shut(th)
    BY <1>1, <1>5 DEF Shut, Return, disk, bounds
  <1> QED
    BY <1>2, <1>3, <1>4, <1>5 DEF Java

\* Every step keeps the invariant: the beginning of a call writes nothing.
LEMMA StepSettle ==
    ASSUME Undisturbed, SettleInv, [Next]_vars
    PROVE  SettleInv'
  <1>1. ASSUME NEW th \in Threads, NEW d \in Dexes, OpenDex(th, d) \/ LoadClass(th, d)
        PROVE  SettleInv'
    <2>1. /\ pc[th] = "idle" /\ UNCHANGED <<content, present, crashes, next>>
          /\ dex' = [dex EXCEPT ![th] = d]
          /\ \E label \in {"probe", "original", "check"} : pc' = [pc EXCEPT ![th] = label]
      BY <1>1 DEF OpenDex, LoadClass, Begin, Goto, disk
    <2>2. /\ pc' \in [Threads -> Labels] /\ pc'[th] \in {"probe", "original", "check"}
          /\ dex' \in [Threads -> Dexes \cup {NoDex}] /\ dex'[th] = d
          /\ \A u \in Threads : u # th => pc'[u] = pc[u] /\ dex'[u] = dex[u]
      BY <2>1 DEF SettleInv, Labels
    <2> QED
      BY <2>1, <2>2, QuietSettle DEF SettleInv
  <1>2. ASSUME Restart
        PROVE  FALSE
    BY <1>2 DEF Restart, SettleInv, Undisturbed
  <1>3. CASE UNCHANGED vars
    BY <1>3 DEF vars, disk, bounds, SettleInv, Written, WillWrite
  <1> QED
    BY <1>1, <1>2, <1>3, NativeSettle, JavaSettle DEF Next

\* However the two writers overlap, a dump that nobody is writing is the whole of
\* its dex: whoever truncates it writes all of it again afterwards (fileutils.cpp:22-41;
\* LowSdkDump.java:54-59; FileUtils.java:25-27).
THEOREM SettledWhole ==
    ASSUME Undisturbed
    PROVE  Spec => []SettledIsWhole
  <1>1. Init => SettleInv
    BY InitSettle
  <1>2. SettleInv /\ [Next]_vars => SettleInv'
    BY StepSettle
  <1>3. SettleInv => SettledIsWhole
    <2> SUFFICES ASSUME SettleInv, NEW d \in Dexes, Length[d] \in present,
                        ~Writing(Length[d])
                 PROVE  content[Length[d]] = [k \in 1 .. Blocks |-> d]
      BY DEF SettledIsWhole, Whole
    <2> DEFINE c == content[Length[d]]
    <2>1. c \in Seq(Dexes \cup {NoDex}) /\ Len(c) <= Blocks
      BY DEF SettleInv, Lengths
    <2>2. \A k \in 1 .. Blocks, u \in Threads : ~WillWrite(u, d, k)
      BY DEF Writing, WillWrite, Path
    <2>3. \A k \in 1 .. Blocks : k <= Len(c) /\ c[k] = d
      BY <2>2 DEF SettleInv, Written
    <2> HIDE DEF c
    <2>4. Len(c) = Blocks
      <3>1. Blocks \in 1 .. Blocks
        OBVIOUS
      <3> QED
        BY <2>1, <2>3, <3>1
    <2>5. c = [k \in 1 .. Blocks |-> d]
      BY <2>1, <2>3, <2>4
    <2> QED
      BY <2>5 DEF c
  <1> QED
    BY <1>1, <1>2, <1>3, PTL DEF Spec
=============================================================================
