---------------------------- MODULE ThreadProofs ----------------------------
(***************************************************************************)
(* What the 32-bit hook library does to the threads of the process, for    *)
(* any number of them and wherever they are: the protocol of freeze, patch *)
(* and unFreeze derails only threads it left unprotected, and hooking from *)
(* the main thread leaves none unprotected but those that will return from *)
(* a call into the patch.                                                  *)
(***************************************************************************)
EXTENDS InlineHookProofs

USE ThreadAssumption, TargetAssumption, TableAssumption, LayoutAssumption

-----------------------------------------------------------------------------
(* The invariants *)

\* The child lives from freeze to unFreeze, and holds threads only then
\* (inlineHook.c:142-184).
ChildInv ==
    /\ pc \in {"idle", "crashed", "overrun"} => child = "none"
    /\ pc = "freezing" => child \in {"attaching", "stopped"}
    /\ pc = "reaping" => child = "detaching"
    /\ pc \notin {"freezing", "reaping"} => child \in {"none", "stopped"}
    /\ child = "none" => traced = {}
    /\ child # "attaching" => todo = {}

\* The loops over the table leave no entry with the status they work on behind
\* them (inlineHook.c:326-331, 409-413).
ScanInv ==
    /\ pc = "freezing" /\ ForAll(op) => pos = 0
    /\ op = "hookAll" =>
          /\ pc \in {"scan", "opcode", "address"} =>
                \A j \in Live : j < pos => item[j].status = "HOOKED"
          /\ pc \in {"thaw", "reaping"} => \A j \in Live : item[j].status = "HOOKED"
    /\ op = "unhookAll" =>
          /\ pc \in {"scan", "restoreOpcode", "restoreAddress", "release"} =>
                \A j \in Live : j < pos => item[j].status = "REGISTERED"
          /\ pc \in {"thaw", "reaping"} => \A j \in Live : item[j].status = "REGISTERED"

\* The boundaries of an entry that was used once are those of its function, but
\* for the first ones of the copy of a long prologue (relocate.c:518-527).
BoundaryInv ==
    \A j \in Live :
        LET e == item[j]
            L == Layout[e.target]
        IN  e.count = L.count =>
               \A k \in 0 .. L.count - 1 :
                   /\ e.bnd[k] = L.orig[k]
                   /\ OrigSlots + k >= L.count => e.bnd[OrigSlots + k] = L.tramp[k]

\* The call in progress restores t before it lets the stopped threads go.
WillRestore(t) ==
    \/ /\ op = "unhook" /\ item[pos].target = t
       /\ pc \in {"freezing", "restoreOpcode", "restoreAddress"}
    \/ /\ op = "unhookAll"
       /\ pc \in {"freezing", "scan", "restoreOpcode", "restoreAddress", "release"}

\* Where thread th can be that the protocol protected: in the prologue, or in a function
\* called from there, only where nothing was overwritten, at its first instruction,
\* behind the patch, or stopped until the prologue is restored; in the replacement only
\* while the patch leads there; in a copy, or in a function called from there, only while
\* that is mapped and is not about to be unmapped.
InPrologue(l) == l.at = "orig" \/ (l.at = "callee" /\ l.page = NoPage)
InCopy(l)     == l.at = "tramp" \/ (l.at = "callee" /\ l.page # NoPage)

Protected(th) ==
    LET l == loc[th]
    IN  /\ l.at # "lost"
        /\ InPrologue(l) => \/ code[l.tgt] = {}
                            \/ l.at = "orig" /\ l.off = 0
                            \/ l.off \notin Beneath(l.tgt)
                            \/ th \in traced /\ WillRestore(l.tgt)
        /\ l.at = "new" => "opcode" \in code[l.tgt]
        /\ InCopy(l) => /\ page[l.page] = l.tgt
                        /\ ~(pc = "restoreAddress" /\ item[pos].page = l.page)

\* The caller and the threads not yet born are nowhere; whoever runs while a patch is
\* half there is exposed; whoever is not is protected (inlineHook.c:84-184, 336-368).
ThreadInv ==
    /\ \A th \in Threads : th = Caller \/ th \notin alive => loc[th] = Out
    /\ pc \in {"address", "restoreAddress"} => Unfrozen \subseteq exposed
    /\ \A th \in Threads \ exposed : Protected(th)

\* The main thread hooks functions, and releases none; nothing fails; no entry was used
\* before, and every prologue fits its boundaries.
Quiet ==
    /\ Caller = Main
    /\ Faults = {}
    /\ Counts = {0}
    /\ Calls \subseteq {"hook", "hookAll"}
    /\ \A t \in Targets : Layout[t].count <= OrigSlots

\* Then only threads in functions that return beneath the patch are left unprotected,
\* no patch is stale, ...
CalmInv == exposed \subseteq called /\ stale = {} /\ op \in {"none", "hook", "hookAll"}

\* ... every entry is used once, ...
CountInv ==
    \A j \in 0 .. Cap - 1 :
        item[j].count = IF j \in Live THEN Layout[item[j].target].count ELSE 0

\* ... every thread but the caller is stopped while code is written, ...
FrozenInv ==
    /\ pc = "freezing" => alive \ {Main} \subseteq traced \cup todo
    /\ pc \in {"scan", "opcode", "address"} => alive \ {Main} \subseteq traced

\* ... a thread is between two instructions, ...
SpotInv ==
    \A th \in Threads : InPrologue(loc[th]) => loc[th].off \in {0} \cup Origs(loc[th].tgt)

\* ... and none that is stopped is behind the first one of a prologue that the call is
\* about to patch (inlineHook.c:93-175).
MovedInv ==
    pc \in {"freezing", "scan", "opcode", "address"} =>
        \A th \in traced : (loc[th].at = "orig" /\ loc[th].off # 0) =>
           \A j \in Scope : item[j].target # loc[th].tgt

QuietInv == CalmInv /\ CountInv /\ FrozenInv /\ SpotInv /\ MovedInv
-----------------------------------------------------------------------------
(* The child and the loops over the table *)

LEMMA InitChild == Init => ChildInv /\ ScanInv
  BY DEF Init, ChildInv, ScanInv, Live, ForAll

LEMMA StepChild ==
    ASSUME TypeOK, CallInv, ChildInv, [Next]_vars
    PROVE  ChildInv'
  <1> USE DEF ChildInv, table, memory, call, tracer, process
  <1>1. ASSUME NEW o, NEW j, Freeze(o, j)
        PROVE  ChildInv'
    BY <1>1 DEF Freeze, Resume
  <1>2. ASSUME NEW t \in Targets, Register(t)
        PROVE  ChildInv'
    BY <1>2 DEF Register
  <1>3. CASE Request
    BY <1>1, <1>2, <1>3 DEF Request, Hook, Unhook, HookAll, UnhookAll
  <1>4. CASE FreezeDone
    BY <1>4 DEF FreezeDone, Resume
  <1>5. CASE Thaw \/ Reap \/ Scan
    BY <1>5 DEF Thaw, Reap, Scan
  <1>6. CASE WriteOpcode \/ WriteAddress \/ RestoreOpcode \/ RestoreAddress \/ Release
    BY <1>6 DEF WriteOpcode, WriteAddress, RestoreOpcode, RestoreAddress, Release
  <1>7. CASE ChildStep
    BY <1>7 DEF ChildStep, ChildStop, ChildAttach, ChildDetach, CallInv
  <1>8. ASSUME NEW th \in Threads, ThreadStep(th)
        PROVE  ChildInv'
    BY <1>8, OthersKeep
  <1>9. CASE UNCHANGED vars
    BY <1>9 DEF vars
  <1> QED
    BY <1>3, <1>4, <1>5, <1>6, <1>7, <1>8, <1>9 DEF Next, CallerStep

\* Steps that leave the table and the call alone, or only begin or end one.
LEMMA ScanKept ==
    ASSUME ScanInv, UNCHANGED table, UNCHANGED call \/ pc' \in {"idle", "crashed", "overrun"}
    PROVE  ScanInv'
  BY DEF ScanInv, table, call, Live, ForAll

\* What a loop over the table has passed keeps its status, and what deletion
\* moves down is not passed yet.
LEMMA StepScan ==
    ASSUME TypeOK, CallInv, TableInv, ScanInv, [Next]_vars
    PROVE  ScanInv'
  <1>1. ASSUME NEW o, NEW j, Freeze(o, j), ForAll(o) => j = 0
        PROVE  ScanInv'
    BY <1>1 DEF Freeze, ScanInv, Resume, ForAll, Enabling, Live, TypeOK
  <1>2. ASSUME NEW t \in Targets, Register(t)
        PROVE  ScanInv'
    BY <1>2 DEF Register, ScanInv, ForAll, TypeOK
  <1>3. CASE Request
    BY <1>1, <1>2, <1>3 DEF Request, Hook, Unhook, HookAll, UnhookAll, ForAll
  <1>4. CASE FreezeDone
    BY <1>4 DEF FreezeDone, ScanInv, Resume, ForAll, Enabling, Live, table
  <1>5. CASE Thaw
    BY <1>5 DEF Thaw, ScanInv, Live, table
  <1>6. CASE Reap
    BY <1>6, ScanKept DEF Reap
  <1>7. CASE Scan
    <2> DEFINE wanted == IF Enabling(op) THEN "REGISTERED" ELSE "HOOKED"
               nxt    == {j \in pos .. size - 1 : item[j].status = wanted}
    <2>1. pc = "scan" /\ UNCHANGED <<item, size, op>>
      BY <1>7 DEF Scan, table
    <2>2. \A j \in Live : item[j].status \in {"REGISTERED", "HOOKED"}
      <3>1. \A j \in Live : item[j] \in Entries
        BY DEF TypeOK, Live
      <3> QED
        BY <3>1 DEF Entries
    <2>3. op \in {"hookAll", "unhookAll"}
      BY <2>1 DEF CallInv, ForAll
    <2>4. \A j \in Live : j < pos => item[j].status # wanted
      BY <2>1, <2>3 DEF ScanInv, Enabling
    <2>5. CASE \E j \in nxt : /\ \A k \in nxt : j <= k
                              /\ pos' = j
                              /\ pc' = IF Enabling(op) THEN "opcode" ELSE "restoreOpcode"
      <3>1. PICK j \in nxt : (\A k \in nxt : j <= k) /\ pos' = j
        BY <2>5
      <3>2. \A k \in Live : k < pos' => item[k].status # wanted
        BY <2>4, <3>1 DEF Live, TypeOK
      <3>3. pc' \notin {"freezing", "thaw", "reaping"}
        BY <2>5
      <3> QED
        BY <2>1, <2>2, <2>3, <3>2, <3>3 DEF ScanInv, Live, Enabling
    <2>6. CASE nxt = {} /\ pc' = "thaw" /\ UNCHANGED pos
      <3>1. \A k \in Live : item[k].status # wanted
        BY <2>4, <2>6 DEF Live, TypeOK
      <3> QED
        BY <2>1, <2>2, <2>3, <2>6, <3>1 DEF ScanInv, Live, Enabling
    <2> QED
      BY <1>7, <2>5, <2>6 DEF Scan
  <1>8. CASE WriteOpcode
    BY <1>8 DEF WriteOpcode, ScanInv, CallInv, Enabling, Live, table
  <1>9. CASE WriteAddress
    <2>1. /\ pc = "address" /\ op' = op /\ pc' = IF ForAll(op) THEN "scan" ELSE "thaw"
          /\ pos' = IF ForAll(op) THEN pos + 1 ELSE pos
          /\ op \in {"hook", "hookAll"}
      BY <1>9 DEF WriteAddress, CallInv, Enabling
    <2>2. /\ Live' = Live /\ item'[pos].status = "HOOKED"
          /\ \A j \in Live : j # pos => item'[j].status = item[j].status
      BY <1>9, WriteAddressMarks
    <2>3. \A j \in Live : j < pos + 1 => j = pos \/ j < pos
      BY DEF Live, TypeOK
    <2> QED
      BY <2>1, <2>2, <2>3 DEF ScanInv, ForAll
  <1>10. CASE RestoreOpcode \/ RestoreAddress
    BY <1>10 DEF RestoreOpcode, RestoreAddress, ScanInv, CallInv, Live, table
  <1>11. CASE Release
    <2>1. /\ pc = "release" /\ UNCHANGED <<op, pos>>
          /\ pc' = IF ForAll(op) THEN "scan" ELSE "thaw"
          /\ op \in {"unhook", "unhookAll"}
      BY <1>11 DEF Release, CallInv
    <2>2. \A i \in Live' : i \in Live /\ (i # pos => item'[i] = item[i])
      BY <1>11, ReleaseDeletes DEF Moved
    <2>3. pos \in Nat /\ \A i \in Live' : i < pos => i # pos
      BY DEF TypeOK
    <2> QED
      BY <2>1, <2>2, <2>3 DEF ScanInv, ForAll
  <1>12. CASE ChildStep
    BY <1>12, ChildKeeps, ScanKept
  <1>13. ASSUME NEW th \in Threads, ThreadStep(th)
         PROVE  ScanInv'
    BY <1>13, OthersKeep, ScanKept
  <1>14. CASE UNCHANGED vars
    BY <1>14, ScanKept DEF vars
  <1> QED
    BY <1>3, <1>4, <1>5, <1>6, <1>7, <1>8, <1>9, <1>10, <1>11, <1>12, <1>13, <1>14
       DEF Next, CallerStep

\* inlineHookAll leaves no entry registered and inlineUnHookAll none hooked
\* (inlineHook.c:326-331, 409-413).
THEOREM AllIsAll == Spec => AllMeansAll
  <1> DEFINE Inv == HookInv /\ ScanInv
  <1>1. Init => Inv
    BY InitHookInv, InitChild
  <1>2. Inv /\ [Next]_vars => Inv'
    BY StepHookInv, StepScan DEF HookInv, TableInv
  <1>3. Inv /\ [Next]_vars =>
           [/\ op = "hookAll" /\ op' = "none" =>
                  \A j \in Live' : item'[j].status = "HOOKED"
            /\ op = "unhookAll" /\ op' = "none" =>
                  \A j \in Live' : item'[j].status = "REGISTERED"]_vars
    <2> SUFFICES ASSUME Inv, Next, op \in {"hookAll", "unhookAll"}, op' = "none"
                 PROVE  pc \in {"thaw", "reaping"} /\ Live' = Live /\ item' = item
      BY DEF ScanInv
    <2>1. ASSUME NEW o \in {"hook", "unhook", "hookAll", "unhookAll"}, NEW j, Freeze(o, j)
          PROVE  FALSE
      BY <2>1 DEF Freeze
    <2>2. ~Request
      BY <2>1 DEF Request, Hook, Unhook, HookAll, UnhookAll, Register, call
    <2>3. ~ChildStep /\ \A th \in Threads : ~ThreadStep(th)
      BY ChildKeeps, OthersKeep DEF call
    <2>4. CallerStep
      BY <2>2, <2>3 DEF Next
    <2> QED
      BY <2>4 DEF CallerStep, FreezeDone, Thaw, Reap, Scan, WriteOpcode, WriteAddress,
                  RestoreOpcode, RestoreAddress, Release, table, Live
  <1> QED
    BY <1>1, <1>2, <1>3, PTL DEF Spec, AllMeansAll
-----------------------------------------------------------------------------
(* The boundaries *)

\* What one relocation records, if it is the first for the entry.
LEMMA FirstOverlay ==
    ASSUME NEW b \in Block, NEW t \in Targets, NEW k \in 0 .. Layout[t].count - 1
    PROVE  LET L == Layout[t]
               w == Overlay(b, 0, L.count, L.orig, L.tramp)
           IN  /\ w[k] = L.orig[k]
               /\ OrigSlots + k >= L.count => w[OrigSlots + k] = L.tramp[k]
  <1> DEFINE L == Layout[t]
             w == Overlay(b, 0, L.count, L.orig, L.tramp)
  <1>1. L.count \in 1 .. 6
    BY DEF IsLayout
  <1> HIDE DEF L
  <1>2. k \in Cells /\ OrigSlots + k \in Cells
    BY <1>1 DEF Cells, OrigSlots, TrampSlots, L
  <1>3. w[k] = L.orig[k]
    BY <1>1, <1>2 DEF Overlay, L
  <1>4. OrigSlots + k >= L.count => w[OrigSlots + k] = L.tramp[k]
    BY <1>1, <1>2 DEF Overlay, L, OrigSlots
  <1> QED
    BY <1>3, <1>4 DEF L

LEMMA BoundaryKept ==
    ASSUME BoundaryInv, UNCHANGED table
    PROVE  BoundaryInv'
  BY DEF BoundaryInv, table, Live

\* An entry's boundaries change when it is registered, and move with it.
LEMMA StepBoundary ==
    ASSUME TypeOK, CallInv, TableInv, BoundaryInv, [Next]_vars
    PROVE  BoundaryInv'
  <1>1. ASSUME NEW t \in Targets, Register(t), size < Cap, pc' # "overrun"
        PROVE  BoundaryInv'
    <2> DEFINE e == item[size]
    <2>1. PICK p \in Pages :
             item' = [item EXCEPT ![size] =
                [target |-> t, page |-> p, saved |-> code[t],
                 bnd |-> Overlay(@.bnd, @.count, Layout[t].count,
                                 Layout[t].orig, Layout[t].tramp),
                 count |-> @.count + Layout[t].count,
                 status |-> "REGISTERED"]]
      BY <1>1 DEF Register, TypeOK
    <2>2. /\ size \in 0 .. Cap - 1 /\ Live' = Live \cup {size} /\ size \notin Live
          /\ \A j \in Live : item'[j] = item[j]
      BY <1>1, <2>1 DEF Register, TypeOK, Live
    <2>3. e \in Entries
      BY <2>2 DEF TypeOK
    <2>4. e.bnd \in Block /\ e.count \in Nat /\ Layout[t].count \in Nat
      BY <2>3 DEF Entries, IsLayout
    <2>5. /\ item'[size].target = t /\ item'[size].count = e.count + Layout[t].count
          /\ item'[size].bnd = Overlay(e.bnd, e.count, Layout[t].count,
                                       Layout[t].orig, Layout[t].tramp)
      BY <2>1, <2>2 DEF TypeOK
    <2>6. ASSUME item'[size].count = Layout[t].count, NEW k \in 0 .. Layout[t].count - 1
          PROVE  /\ item'[size].bnd[k] = Layout[t].orig[k]
                 /\ OrigSlots + k >= Layout[t].count =>
                       item'[size].bnd[OrigSlots + k] = Layout[t].tramp[k]
      <3>1. e.count = 0
        BY <2>4, <2>5, <2>6
      <3> QED
        BY <2>4, <2>5, <2>6, <3>1, FirstOverlay
    <2> QED
      BY <2>2, <2>5, <2>6 DEF BoundaryInv
  <1>2. CASE WriteAddress
    <2>1. \A j \in Live : j \in 0 .. Cap - 1 /\ item[j] \in Entries
      BY DEF Live, TypeOK
    <2>2. /\ Live' = Live
          /\ \A j \in Live : /\ item'[j].target = item[j].target
                             /\ item'[j].bnd = item[j].bnd
                             /\ item'[j].count = item[j].count
      BY <1>2, <2>1 DEF WriteAddress, Live, TypeOK, Entries
    <2> QED
      BY <2>2 DEF BoundaryInv
  <1>3. CASE Release
    BY <1>3, ReleaseDeletes DEF BoundaryInv
  <1>4. CASE \/ FreezeDone \/ Thaw \/ Reap \/ Scan \/ WriteOpcode \/ RestoreOpcode
             \/ RestoreAddress \/ ChildStep \/ UNCHANGED vars
    BY <1>4, BoundaryKept, ChildKeeps
       DEF FreezeDone, Thaw, Reap, Scan, WriteOpcode, RestoreOpcode, RestoreAddress, vars
  <1>5. ASSUME NEW th \in Threads, ThreadStep(th)
        PROVE  BoundaryInv'
    BY <1>5, OthersKeep, BoundaryKept
  <1>6. CASE Request
    <2>1. ASSUME NEW o, NEW j, Freeze(o, j)
          PROVE  BoundaryInv'
      BY <2>1, BoundaryKept DEF Freeze
    <2>2. ASSUME NEW t \in Targets, Register(t)
          PROVE  BoundaryInv'
      <3>1. CASE size < Cap /\ pc' # "overrun"
        BY <1>1, <2>2, <3>1
      <3>2. CASE size = Cap \/ pc' = "overrun"
        BY <2>2, <3>2, BoundaryKept DEF Register, TypeOK
      <3> QED
        BY <3>1, <3>2 DEF TypeOK
    <2> QED
      BY <1>6, <2>1, <2>2 DEF Request, Hook, Unhook, HookAll, UnhookAll
  <1> QED
    BY <1>2, <1>3, <1>4, <1>5, <1>6 DEF Next, CallerStep

-----------------------------------------------------------------------------
(* Moving a stopped thread *)

\* The entries doProcessThreadPC looks at while the child attaches are live.
LEMMA ScopeLive ==
    ASSUME TypeOK, CallInv, child = "attaching"
    PROVE  /\ Scope \subseteq Live
           /\ op \in {"hook", "unhook", "hookAll", "unhookAll"} /\ pc = "freezing"
           /\ \A j \in Scope : /\ item[j].bnd \in Block
                               /\ item[j].count \in 0 .. TrampSlots
  <1>1. Scope \subseteq Live
    BY DEF CallInv, Scope, ForAll, TypeOK
  <1>2. \A j \in Scope : item[j] \in Entries
    BY <1>1 DEF Live, TypeOK
  <1> QED
    BY <1>1, <1>2 DEF CallInv, TypeOK, Entries

\* Where the boundaries are reliable, hooking moves a thread from an instruction of
\* the prologue to its copy, in a page that is mapped (inlineHook.c:93-121).
LEMMA EnableMoves ==
    ASSUME TypeOK, CallInv, TableInv, BoundaryInv, child = "attaching", Enabling(op),
           NEW l \in Places, NEW m \in Moves(l),
           \A j \in Scope : ~Unreliable(item[j], l)
    PROVE  /\ Land(l, m) = m /\ m.at = "tramp"
           /\ page[m.page] = m.tgt
  <1>1. PICK j \in Scope : /\ l.at = "orig" /\ item[j].target = l.tgt
                           /\ \E r \in EnableOffset(item[j].bnd, item[j].count, l.off) :
                                 m = AtTramp(l.tgt, r, item[j].page)
    BY DEF Moves
  <1> DEFINE e == item[j]
             L == Layout[e.target]
  <1>2. PICK i \in FirstMatch(e.bnd, 0, e.count, l.off) :
           m = AtTramp(l.tgt, e.bnd[OrigSlots + i], e.page)
    BY <1>1 DEF EnableOffset
  <1>3. j \in Live /\ e.target \in Targets /\ pc = "freezing"
    BY ScopeLive DEF TableInv, LiveInv
  <1>4. L.count \in 1 .. 6 /\ e.count = L.count
    BY <1>3 DEF Unreliable, IsLayout
  <1>5. i \in 0 .. L.count - 1 /\ e.bnd[i] = l.off
    BY <1>2, <1>4 DEF FirstMatch
  <1>6. /\ e.bnd[i] = L.orig[i]
        /\ OrigSlots + i >= L.count => e.bnd[OrigSlots + i] = L.tramp[i]
    BY <1>3, <1>4, <1>5 DEF BoundaryInv
  <1>7. OrigSlots + i >= L.count
    <2>1. CASE L.count <= OrigSlots
      BY <1>4, <1>5, <2>1 DEF OrigSlots
    <2>2. CASE L.count > OrigSlots
      <3>1. \A k \in 0 .. e.count - OrigSlots - 1 : L.orig[k] # l.off
        BY <1>1, <1>4, <2>2 DEF Unreliable
      <3> QED
        BY <1>4, <1>5, <1>6, <2>2, <3>1 DEF OrigSlots
    <2> QED
      BY <1>4, <2>1, <2>2 DEF OrigSlots
  <1>8. SameInstruction(l.tgt, l.off, e.bnd[OrigSlots + i])
    BY <1>1, <1>5, <1>6, <1>7 DEF SameInstruction
  <1>9. page[e.page] = e.target
    BY <1>3 DEF TableInv, TableConsistent
  <1> QED
    BY <1>1, <1>2, <1>8, <1>9 DEF Land, AtTramp, Place

\* Likewise releasing moves a thread from the copy back, into the prologue of a
\* function that the call will restore (inlineHook.c:122-137).
LEMMA DisableMoves ==
    ASSUME TypeOK, CallInv, TableInv, BoundaryInv, child = "attaching", ~Enabling(op),
           NEW l \in Places, page[l.page] = l.tgt, NEW m \in Moves(l),
           \A j \in Scope : ~Unreliable(item[j], l)
    PROVE  Land(l, m) = m /\ m.at = "orig" /\ WillRestore(m.tgt)
  <1>1. PICK j \in Scope : /\ l.at = "tramp" /\ item[j].page = l.page
                           /\ \E o \in DisableOffset(item[j].bnd, item[j].count, l.off) :
                                 m = AtOrig(item[j].target, o)
    BY DEF Moves
  <1> DEFINE e == item[j]
             L == Layout[e.target]
  <1>2. PICK i \in FirstMatch(e.bnd, OrigSlots, e.count, l.off) :
           m = AtOrig(e.target, e.bnd[i])
    BY <1>1 DEF DisableOffset
  <1>3. /\ j \in Live /\ e.target \in Targets /\ pc = "freezing"
        /\ op \in {"unhook", "unhookAll"}
    BY ScopeLive DEF TableInv, LiveInv, Enabling
  <1>4. L.count \in 1 .. 6 /\ e.count = L.count /\ L.count <= OrigSlots
    <2>1. L.count \in 1 .. 6 /\ e.count = L.count
      BY <1>3 DEF Unreliable, IsLayout
    <2>2. ~(e.count > OrigSlots)
      BY <1>1 DEF Unreliable
    <2> QED
      BY <2>1, <2>2 DEF OrigSlots
  <1>5. i \in 0 .. L.count - 1 /\ e.bnd[OrigSlots + i] = l.off
    BY <1>2, <1>4 DEF FirstMatch
  <1>6. e.bnd[i] = L.orig[i] /\ e.bnd[OrigSlots + i] = L.tramp[i]
    BY <1>3, <1>4, <1>5 DEF BoundaryInv, OrigSlots
  <1>7. e.target = l.tgt
    BY <1>1, <1>3 DEF TableInv, TableConsistent
  <1>8. SameInstruction(l.tgt, e.bnd[i], l.off)
    BY <1>5, <1>6, <1>7 DEF SameInstruction
  <1>9. WillRestore(e.target)
    BY <1>3 DEF WillRestore, Scope, ForAll
  <1> QED
    BY <1>2, <1>7, <1>8, <1>9 DEF Land, AtOrig, Place
-----------------------------------------------------------------------------
(* The threads *)

\* What the steps of the library and of the child rely on.
Base == HookInv /\ ChildInv /\ ScanInv /\ BoundaryInv

LEMMA InitThreadInv == Init => BoundaryInv /\ ThreadInv
  BY DEF Init, BoundaryInv, ThreadInv, Protected, InPrologue, InCopy, Out, Place, Live

\* Nobody but a running thread, a stopped one and the caller is inside a function.
LEMMA Whereabouts ==
    ASSUME ThreadInv, NEW th \in Threads
    PROVE  loc[th] = Out \/ th \in traced \/ th \in Unfrozen
  BY DEF ThreadInv, Unfrozen, Running

\* A thread in the prologue or in the replacement is in that of a target.
LEMMA PlaceTypes ==
    ASSUME TypeOK, NEW th \in Threads
    PROVE  /\ loc[th] \in Places
           /\ loc[th].at \in {"orig", "new", "tramp", "callee"} => loc[th].tgt \in Targets
           /\ InPrologue(loc[th]) => loc[th].off \in Nat
           /\ InCopy(loc[th]) => loc[th].page \in Pages
  BY DEF TypeOK, Places, InPrologue, InCopy

\* A step that writes no code and moves no thread, and after which whoever waits for a
\* restoration still does.
LEMMA ProtectionKept ==
    ASSUME TypeOK, ThreadInv, UNCHANGED <<code, page, loc, alive, exposed>>,
           pc' \notin {"address", "restoreAddress"},
           \A th \in Threads, t \in Targets :
              th \in traced /\ WillRestore(t) /\ code[t] # {} => th \in traced' /\ WillRestore(t)'
    PROVE  ThreadInv'
  <1>1. \A th \in Threads : Protected(th) => Protected(th)'
    BY PlaceTypes DEF Protected, InPrologue, InCopy
  <1> QED
    BY <1>1 DEF ThreadInv

\* The steps before the first store and after the last.
LEMMA QuietThreads ==
    ASSUME Base, ThreadInv,
           \/ \E o, j : Freeze(o, j)
           \/ FreezeDone \/ Thaw \/ Reap \/ Scan \/ ChildStop
           \/ \E th \in Threads : ChildDetach(th)
    PROVE  ThreadInv'
  <1> USE DEF Base
  <1>1. TypeOK /\ CallInv
    BY DEF HookInv
  <1>2. ASSUME NEW o, NEW j, Freeze(o, j)
        PROVE  ThreadInv'
    <2>1. \A t \in Targets : ~WillRestore(t)
      BY <1>2 DEF Freeze, WillRestore
    <2> QED
      BY <1>1, <1>2, <2>1, ProtectionKept
         DEF Freeze, Resume, ForAll, Enabling, memory, process, history
  <1>3. CASE FreezeDone
    <2>1. \A t \in Targets : WillRestore(t) => WillRestore(t)'
      BY <1>3 DEF FreezeDone, WillRestore, Resume, ForAll, Enabling, table
    <2> QED
      BY <1>1, <1>3, <2>1, ProtectionKept
         DEF FreezeDone, Resume, ForAll, Enabling, memory, tracer, process, history
  <1>4. CASE Thaw \/ Reap
    <2>1. \A t \in Targets : ~WillRestore(t)
      BY <1>4 DEF Thaw, Reap, WillRestore
    <2> QED
      BY <1>1, <1>4, <2>1, ProtectionKept DEF Thaw, Reap, memory, process, history
  <1>5. CASE Scan
    <2>1. /\ UNCHANGED <<code, page, loc, alive, exposed, traced, op, item, size>>
          /\ pc = "scan" /\ pc' \in {"opcode", "restoreOpcode", "thaw"}
          /\ pc' = "opcode" => Enabling(op)
      BY <1>5 DEF Scan, memory, tracer, process, table, history
    <2>2. ASSUME NEW t \in Targets, WillRestore(t), code[t] # {}
          PROVE  WillRestore(t)'
      <3>1. op = "unhookAll"
        BY <2>1, <2>2 DEF WillRestore
      <3>2. CASE pc' = "thaw"
        <4>1. ScanInv'
          BY <1>1, <1>5, StepScan DEF HookInv, TableInv, Next, CallerStep
        <4>2. \A j \in Live : item[j].status = "REGISTERED"
          BY <2>1, <3>1, <3>2, <4>1 DEF ScanInv, Live
        <4>3. HookedTargets = {}
          BY <4>2 DEF HookedTargets
        <4>4. code[t] = Patch(t)
          BY DEF HookInv, CodeMatchesTable
        <4> QED
          BY <2>1, <2>2, <4>3, <4>4 DEF Patch
      <3> QED
        BY <2>1, <3>1, <3>2 DEF WillRestore, Enabling
    <2> QED
      BY <1>1, <2>1, <2>2, ProtectionKept
  <1>6. CASE ChildStop
    <2>1. \A t \in Targets : WillRestore(t) => WillRestore(t)'
      BY <1>6 DEF ChildStop, WillRestore, table, call
    <2> QED
      BY <1>1, <1>6, <2>1, ProtectionKept
         DEF ChildStop, ChildInv, CallInv, memory, call, process, history
  <1>7. ASSUME NEW th \in Threads, ChildDetach(th)
        PROVE  ThreadInv'
    <2>1. pc = "reaping"
      BY <1>7 DEF ChildDetach, ChildInv
    <2>2. \A t \in Targets : ~WillRestore(t)
      BY <2>1 DEF WillRestore
    <2> QED
      BY <1>1, <1>7, <2>1, <2>2, ProtectionKept
         DEF ChildDetach, memory, call, process, history
  <1> QED
    BY <1>2, <1>3, <1>4, <1>5, <1>6, <1>7

\* A registration takes a page nobody can be in.
LEMMA RegisterThreads ==
    ASSUME Base, ThreadInv, NEW t \in Targets, Register(t)
    PROVE  ThreadInv'
  <1>1. TypeOK
    BY DEF Base, HookInv
  <1>2. /\ UNCHANGED <<code, loc, alive, exposed, traced>>
        /\ pc = "idle" /\ pc' \in {"idle", "crashed", "overrun"}
    BY DEF Register, tracer, process, history
  <1>3. \A p \in Pages : page[p] # NoTarget => page'[p] = page[p]
    BY <1>1 DEF Register, TypeOK
  <1>4. \A u : ~WillRestore(u)
    BY <1>2 DEF WillRestore
  <1>5. ASSUME NEW th \in Threads, Protected(th)
        PROVE  Protected(th)'
    BY <1>1, <1>2, <1>3, <1>4, <1>5, PlaceTypes DEF Protected, InPrologue, InCopy
  <1> QED
    BY <1>2, <1>5 DEF ThreadInv

-----------------------------------------------------------------------------
(* Stores to code *)

\* The first half of the patch: only threads at the first instruction, and stopped, or
\* in another function, are not exposed (inlineHook.c:336-360).
LEMMA WriteOpcodeThreads ==
    ASSUME Base, ThreadInv, WriteOpcode
    PROVE  ThreadInv'
  <1> DEFINE t == item[pos].target
  <1>1. TypeOK /\ CallInv /\ TableInv
    BY DEF Base, HookInv, TableInv
  <1>2. /\ pc = "opcode" /\ pc' = "address"
        /\ UNCHANGED <<item, page, loc, alive, traced, op, pos>>
        /\ code' = [code EXCEPT ![t] = @ \cup {"opcode"}]
        /\ exposed' = exposed \cup Unfrozen \cup Midway(t) \cup Calling(t)
    BY DEF WriteOpcode, table, tracer, process
  <1>3. t \in Targets /\ Enabling(op)
    BY <1>1, <1>2, WorkedOn DEF CallInv
  <1>4. Unfrozen' = Unfrozen
    BY <1>2 DEF Unfrozen, Running
  <1>5. /\ \A u \in Targets : u # t => code'[u] = code[u]
        /\ \A u \in Targets : code[u] \subseteq code'[u]
    BY <1>1, <1>2, <1>3 DEF TypeOK
  <1>6. ASSUME NEW th \in Threads, th \notin exposed'
        PROVE  Protected(th)'
    <2>1. CASE loc[th] = Out
      BY <1>2, <2>1 DEF Protected, Out, Place, InPrologue, InCopy
    <2>2. CASE th \in traced
      <3>1. Protected(th) /\ ~WillRestore(loc[th].tgt)
        BY <1>2, <1>3, <1>6 DEF ThreadInv, WillRestore
      <3>2. InPrologue(loc[th]) /\ loc[th].tgt = t =>
               (loc[th].at = "orig" /\ loc[th].off = 0) \/ loc[th].off \notin Beneath(t)
        BY <1>2, <1>6, <2>2 DEF Midway, Calling, InPrologue
      <3> QED
        BY <1>1, <1>2, <1>5, <3>1, <3>2, PlaceTypes DEF Protected
    <2> QED
      BY <1>2, <1>6, <2>1, <2>2, Whereabouts
  <1> QED
    BY <1>2, <1>4, <1>6 DEF ThreadInv

\* The second half: whoever runs is exposed, and who is stopped there is at the first
\* instruction (inlineHook.c:360-368).
LEMMA WriteAddressThreads ==
    ASSUME Base, ThreadInv, WriteAddress
    PROVE  ThreadInv'
  <1> DEFINE t == item[pos].target
  <1>1. TypeOK /\ CallInv /\ TableInv
    BY DEF Base, HookInv, TableInv
  <1>2. /\ pc = "address" /\ pc' \in {"scan", "thaw"}
        /\ UNCHANGED <<page, loc, alive, exposed, traced, op>>
        /\ code' = [code EXCEPT ![t] = @ \cup {"address"}]
    BY DEF WriteAddress, tracer, process, history
  <1>3. t \in Targets /\ pos \in Live /\ pos < size /\ Enabling(op)
    BY <1>1, <1>2, WorkedOn DEF CallInv, Live, TypeOK
  <1>4. code[t] = {"opcode"}
    BY <1>1, <1>2, <1>3 DEF TableInv, CodeMatchesTable, Patch
  <1>5. /\ \A u \in Targets : u # t => code'[u] = code[u]
        /\ \A u \in Targets : code[u] \subseteq code'[u]
    BY <1>1, <1>2, <1>3 DEF TypeOK
  <1>6. ASSUME NEW th \in Threads, th \notin exposed'
        PROVE  Protected(th)'
    <2>1. Protected(th) /\ ~WillRestore(loc[th].tgt)
      BY <1>2, <1>3, <1>6 DEF ThreadInv, WillRestore, Enabling
    <2> QED
      BY <1>1, <1>2, <1>4, <1>5, <2>1, PlaceTypes DEF Protected
  <1> QED
    BY <1>2, <1>6 DEF ThreadInv

\* Restoring the first half: threads in the replacement and in the copy are exposed.
LEMMA RestoreOpcodeThreads ==
    ASSUME Base, ThreadInv, RestoreOpcode
    PROVE  ThreadInv'
  <1> DEFINE e == item[pos]
             t == e.target
  <1>1. TypeOK /\ CallInv /\ TableInv
    BY DEF Base, HookInv, TableInv
  <1>2. /\ pc = "restoreOpcode" /\ pc' = "restoreAddress"
        /\ UNCHANGED <<item, page, loc, alive, traced, op, pos>>
        /\ code' = [code EXCEPT ![t] = (@ \ {"opcode"}) \cup (e.saved \cap {"opcode"})]
        /\ exposed' = exposed \cup Unfrozen \cup Inside(e)
    BY DEF RestoreOpcode, table, tracer, process
  <1>3. t \in Targets /\ e.saved = {}
    BY <1>1, <1>2, WorkedOn
  <1>4. Unfrozen' = Unfrozen
    BY <1>2 DEF Unfrozen, Running
  <1>5. /\ \A u \in Targets : u # t => code'[u] = code[u]
        /\ \A u \in Targets : code[u] = {} => code'[u] = {}
    BY <1>1, <1>2, <1>3 DEF TypeOK
  <1>6. \A u \in Targets : WillRestore(u) => WillRestore(u)'
    BY <1>2 DEF WillRestore
  <1>7. ASSUME NEW th \in Threads, th \notin exposed'
        PROVE  Protected(th)'
    <2>1. CASE loc[th] = Out
      BY <1>2, <2>1 DEF Protected, Out, Place, InPrologue, InCopy
    <2>2. CASE th \in traced
      <3>1. Protected(th)
        BY <1>2, <1>7 DEF ThreadInv
      <3>2. /\ InCopy(loc[th]) => loc[th].page # e.page
            /\ loc[th].at = "new" => loc[th].tgt # t
        BY <1>2, <1>7, <2>2 DEF Inside, InCopy
      <3> QED
        BY <1>1, <1>2, <1>5, <1>6, <3>1, <3>2, PlaceTypes
           DEF Protected, InPrologue, InCopy
    <2> QED
      BY <1>2, <1>7, <2>1, <2>2, Whereabouts
  <1> QED
    BY <1>2, <1>4, <1>7 DEF ThreadInv

\* Restoring the second half, and unmapping the copy, in which nobody is left.
LEMMA RestoreAddressThreads ==
    ASSUME Base, ThreadInv, RestoreAddress
    PROVE  ThreadInv'
  <1> DEFINE e == item[pos]
             t == e.target
  <1>1. TypeOK /\ CallInv /\ TableInv
    BY DEF Base, HookInv, TableInv
  <1>2. /\ pc = "restoreAddress" /\ pc' = "release"
        /\ UNCHANGED <<item, loc, alive, exposed, traced, op, pos>>
        /\ code' = [code EXCEPT ![t] = (@ \ {"address"}) \cup (e.saved \cap {"address"})]
        /\ page' = [page EXCEPT ![e.page] = NoTarget]
    BY DEF RestoreAddress, table, tracer, process, history
  <1>3. t \in Targets /\ e.saved = {} /\ pos < size /\ e.page \in Pages
    BY <1>1, <1>2, WorkedOn DEF Live, TypeOK
  <1>4. code[t] = {"address"}
    BY <1>1, <1>2, <1>3 DEF TableInv, CodeMatchesTable, Patch
  <1>5. /\ \A u \in Targets : u # t => code'[u] = code[u]
        /\ code'[t] = {}
        /\ \A p \in Pages : p # e.page => page'[p] = page[p]
    BY <1>1, <1>2, <1>3, <1>4 DEF TypeOK
  <1>6. \A u \in Targets : u # t /\ WillRestore(u) => WillRestore(u)'
    BY <1>2 DEF WillRestore
  <1>7. ASSUME NEW th \in Threads, th \notin exposed'
        PROVE  Protected(th)'
    <2>1. Protected(th)
      BY <1>2, <1>7 DEF ThreadInv
    <2>2. /\ InCopy(loc[th]) => loc[th].page # e.page
          /\ loc[th].at = "new" => loc[th].tgt # t
      BY <1>2, <1>4, <2>1 DEF Protected
    <2> QED
      BY <1>1, <1>2, <1>5, <1>6, <2>1, <2>2, PlaceTypes DEF Protected, InPrologue, InCopy
  <1> QED
    BY <1>2, <1>7 DEF ThreadInv

\* Deleting the entry: its function is restored already.
LEMMA ReleaseThreads ==
    ASSUME Base, ThreadInv, Release
    PROVE  ThreadInv'
  <1>1. TypeOK /\ CallInv
    BY DEF Base, HookInv
  <1>2. /\ UNCHANGED <<code, page, loc, alive, exposed, traced, op>>
        /\ pc = "release" /\ pc' = IF ForAll(op) THEN "scan" ELSE "thaw"
    BY DEF Release, tracer, process, history
  <1>3. \A t \in Targets : WillRestore(t) => WillRestore(t)'
    BY <1>2 DEF WillRestore, ForAll
  <1> QED
    BY <1>1, <1>2, <1>3, ProtectionKept

-----------------------------------------------------------------------------
(* Threads that are stopped, and threads that run *)

\* Attaching to a thread: it stays where it is, or is moved to where it is protected,
\* or its entry's boundaries could not be relied on (inlineHook.c:93-139).
LEMMA AttachThreads ==
    ASSUME Base, ThreadInv, NEW th \in Threads, ChildAttach(th)
    PROVE  ThreadInv'
  <1>1. TypeOK /\ CallInv /\ TableInv /\ BoundaryInv /\ child = "attaching" /\ pc = "freezing"
    BY DEF Base, HookInv, TableInv, ChildAttach, CallInv
  <1>2. /\ UNCHANGED <<item, size, code, page, pc, op, pos, alive>>
        /\ traced \subseteq traced'
    BY DEF ChildAttach, table, memory, call
  <1>3. \A t : WillRestore(t) => WillRestore(t)'
    BY <1>2 DEF WillRestore
  <1>4. \A u \in Threads : loc'[u] = loc[u] /\ Protected(u) => Protected(u)'
    BY <1>1, <1>2, <1>3, PlaceTypes DEF Protected
  <1>5. CASE UNCHANGED <<loc, exposed>>
    BY <1>1, <1>2, <1>4, <1>5 DEF ThreadInv
  <1>6. ASSUME NEW m \in Moves(loc[th]),
               loc' = [loc EXCEPT ![th] = Land(loc[th], m)],
               exposed' = IF \E j \in Scope : Unreliable(item[j], loc[th])
                            THEN exposed \cup {th} ELSE exposed,
               traced' = traced \cup {th}
        PROVE  ThreadInv'
    <2> DEFINE l == loc[th]
    <2>1. l \in Places /\ l.at \in {"orig", "tramp"}
      BY <1>1, <1>6, PlaceTypes DEF Moves
    <2>2. l # Out
      BY <2>1 DEF Out, Place
    <2>3. \A u \in Threads : u # th => loc'[u] = loc[u]
      BY <1>6
    <2>4. loc'[th] = Land(l, m)
      BY <1>1, <1>6 DEF TypeOK
    <2>5. ASSUME th \notin exposed'
          PROVE  Protected(th)'
      <3>1. (\A j \in Scope : ~Unreliable(item[j], l)) /\ Protected(th)
        BY <1>6, <2>5 DEF ThreadInv
      <3>2. CASE Enabling(op)
        <4>1. /\ loc'[th] = m /\ m.at = "tramp"
              /\ page[m.page] = m.tgt
          BY <1>1, <1>6, <2>1, <2>4, <3>1, <3>2, EnableMoves
        <4> QED
          BY <1>1, <1>2, <4>1 DEF Protected, InPrologue, InCopy
      <3>3. CASE ~Enabling(op)
        <4>1. l.at = "tramp" /\ page[l.page] = l.tgt
          BY <1>6, <3>1, <3>3 DEF Moves, Protected, InCopy
        <4>2. loc'[th] = m /\ m.at = "orig" /\ WillRestore(m.tgt)
          BY <1>1, <1>6, <2>1, <2>4, <3>1, <3>3, <4>1, DisableMoves
        <4>3. WillRestore(m.tgt)'
          BY <1>3, <4>2
        <4> QED
          BY <1>6, <4>2, <4>3 DEF Protected, InPrologue, InCopy
      <3> QED
        BY <3>2, <3>3
    <2> QED
      BY <1>1, <1>2, <1>4, <1>6, <2>2, <2>3, <2>5 DEF ThreadInv
  <1>7. UNCHANGED <<loc, exposed>> \/
        \E m \in Moves(loc[th]) :
           /\ loc' = [loc EXCEPT ![th] = Land(loc[th], m)]
           /\ exposed' = IF \E j \in Scope : Unreliable(item[j], loc[th])
                           THEN exposed \cup {th} ELSE exposed
           /\ traced' = traced \cup {th}
    BY DEF ChildAttach
  <1> QED
    BY <1>5, <1>6, <1>7

\* A running thread's step to a place where it is protected, or exposed.
LEMMA MoveThreads ==
    ASSUME TypeOK, ThreadInv, NEW th \in Threads, Running(th), NEW l, MoveTo(th, l),
           exposed' = exposed \/ exposed' = exposed \cup {th},
           th \notin exposed' =>
              /\ l.at # "lost"
              /\ InPrologue(l) => \/ code[l.tgt] = {}
                                  \/ l.at = "orig" /\ l.off = 0
                                  \/ l.off \notin Beneath(l.tgt)
              /\ l.at = "new" => "opcode" \in code[l.tgt]
              /\ InCopy(l) => page[l.page] = l.tgt
    PROVE  ThreadInv'
  <1>1. /\ UNCHANGED <<item, size, code, page, pc, op, pos, traced, alive>>
        /\ loc'[th] = l /\ \A u \in Threads : u # th => loc'[u] = loc[u]
    BY DEF MoveTo, table, memory, call, tracer, TypeOK
  <1>2. th # Caller /\ th \in alive /\ th \in Unfrozen
    BY DEF Running, Unfrozen
  <1>3. Unfrozen' = Unfrozen
    BY <1>1 DEF Unfrozen, Running
  <1>4. ASSUME NEW u \in Threads, u \notin exposed'
        PROVE  Protected(u)'
    <2>1. CASE u = th
      <3>1. pc' # "restoreAddress"
        BY <1>1, <1>2, <1>4, <2>1 DEF ThreadInv
      <3> QED
        BY <1>1, <1>4, <2>1, <3>1 DEF Protected
    <2>2. CASE u # th
      <3>1. Protected(u) /\ loc'[u] = loc[u]
        BY <1>1, <1>4, <2>2 DEF ThreadInv
      <3> QED
        BY <1>1, <3>1 DEF Protected, WillRestore
    <2> QED
      BY <2>1, <2>2
  <1> QED
    BY <1>1, <1>2, <1>3, <1>4 DEF ThreadInv

\* A running thread executes an instruction of its own, or the whole patch
\* (inlineHook.c:336-368).
LEMMA ExecOrigThreads ==
    ASSUME Base, ThreadInv, NEW th \in Threads, ExecOrig(th)
    PROVE  ThreadInv'
  <1> DEFINE t == loc[th].tgt
             o == loc[th].off
  <1>1. TypeOK /\ CodeMatchesTable /\ t \in Targets /\ Running(th) /\ loc[th].at = "orig"
    BY PlaceTypes DEF Base, HookInv, ExecOrig
  <1>2. PICK seen, l :
           /\ seen \in Fetched(t)
           /\ MoveTo(th, l)
           /\ \/ seen = Halves /\ o = 0 /\ l = AtNew(t)
              \/ /\ seen # Halves \/ o # 0
                 /\ \E h \in seen : o \in Layout[t].under[h]
                 /\ l = Lost
              \/ /\ \A h \in seen : o \notin Layout[t].under[h]
                 /\ l = Out \/ \E x \in After(Origs(t), o) :
                                  l \in {AtOrig(t, x), InCallee(t, x, NoPage)}
           /\ exposed' = IF seen # code[t] THEN exposed \cup {th} ELSE exposed
    BY DEF ExecOrig
  <1>3. ASSUME th \notin exposed'
        PROVE  /\ seen = code[t] /\ th \notin exposed
               /\ code[t] = {} \/ (code[t] = Halves /\ (o = 0 \/ o \notin Beneath(t)))
    <2>1. seen = code[t] /\ th \notin exposed
      BY <1>2, <1>3
    <2>2. code[t] = {} \/ o = 0 \/ o \notin Beneath(t)
      BY <1>1, <2>1 DEF ThreadInv, Protected, InPrologue, Running
    <2>3. pc \notin {"address", "restoreAddress"}
      BY <1>1, <2>1 DEF ThreadInv, Unfrozen
    <2>4. code[t] \in {{}, Halves}
      BY <1>1, <2>3 DEF CodeMatchesTable, Patch
    <2> QED
      BY <2>1, <2>2, <2>4
  <1>4. /\ 0 \in Layout[t].under["opcode"]
        /\ \A h \in Halves : Layout[t].under[h] \subseteq Nat
        /\ Origs(t) \subseteq Nat /\ o \in Nat
    <2>1. IsLayout(Layout[t])
      BY <1>1
    <2>2. /\ Layout[t].orig \in [0 .. Layout[t].count - 1 -> Nat]
          /\ Layout[t].under \in [Halves -> SUBSET Nat]
          /\ 0 \in Layout[t].under["opcode"]
      BY <2>1, Zenon DEF IsLayout
    <2> QED
      BY <1>1, <2>2, PlaceTypes DEF Origs, InPrologue
  <1>6. ASSUME o \notin Beneath(t)
        PROVE  /\ \A h \in Halves : o \notin Layout[t].under[h]
               /\ \A x \in After(Origs(t), o) : x \notin Beneath(t)
    BY <1>4, <1>6 DEF Beneath, After
  <1>5. th \notin exposed' =>
           /\ l.at # "lost"
           /\ InPrologue(l) => \/ code[l.tgt] = {}
                               \/ l.at = "orig" /\ l.off = 0
                               \/ l.off \notin Beneath(l.tgt)
           /\ l.at = "new" => "opcode" \in code[l.tgt]
           /\ InCopy(l) => page[l.page] = l.tgt
    <2> SUFFICES ASSUME th \notin exposed'
                 PROVE  /\ l.at # "lost"
                        /\ InPrologue(l) => \/ code[l.tgt] = {}
                                            \/ l.at = "orig" /\ l.off = 0
                                            \/ l.off \notin Beneath(l.tgt)
                        /\ l.at = "new" => "opcode" \in code[l.tgt]
                        /\ InCopy(l) => page[l.page] = l.tgt
      OBVIOUS
    <2> USE DEF AtNew, AtOrig, InCallee, Lost, Out, Place, InPrologue, InCopy
    <2>1. CASE code[t] = {}
      BY <1>2, <1>3, <2>1 DEF Halves
    <2>2. CASE code[t] = Halves /\ o = 0
      BY <1>2, <1>3, <1>4, <2>2 DEF Halves
    <2>3. CASE code[t] = Halves /\ o # 0 /\ o \notin Beneath(t)
      BY <1>2, <1>3, <1>6, <2>3
    <2> QED
      BY <1>3, <2>1, <2>2, <2>3
  <1> QED
    BY <1>1, <1>2, <1>5, MoveThreads

\* ... calls the original through a copy that is mapped ...
LEMMA ExecNewThreads ==
    ASSUME Base, ThreadInv, NEW th \in Threads, ExecNew(th)
    PROVE  ThreadInv'
  <1> DEFINE t == loc[th].tgt
  <1>1. TypeOK /\ ProtoReady /\ t \in Targets /\ Running(th) /\ loc[th].at = "new"
    BY PlaceTypes, ProtoFollows DEF Base, HookInv, ExecNew
  <1>2. PICK l : /\ MoveTo(th, l) /\ exposed' = exposed
                 /\ \/ l = Out
                    \/ /\ t \in Chaining
                       /\ l = IF proto[t] \in Pages /\ page[proto[t]] = t
                                THEN AtTramp(t, 0, proto[t]) ELSE Lost
    BY DEF ExecNew
  <1>3. th \notin exposed => "opcode" \in code[t]
    BY <1>1 DEF ThreadInv, Protected
  <1>4. th \notin exposed' =>
           /\ l.at # "lost"
           /\ InPrologue(l) => \/ code[l.tgt] = {}
                               \/ l.at = "orig" /\ l.off = 0
                               \/ l.off \notin Beneath(l.tgt)
           /\ l.at = "new" => "opcode" \in code[l.tgt]
           /\ InCopy(l) => page[l.page] = l.tgt
    BY <1>1, <1>2, <1>3 DEF ProtoReady, AtTramp, Out, Place, InPrologue, InCopy
  <1> QED
    BY <1>1, <1>2, <1>4, MoveThreads

\* ... and goes on in it.
LEMMA ExecTrampThreads ==
    ASSUME Base, ThreadInv, NEW th \in Threads, ExecTramp(th)
    PROVE  ThreadInv'
  <1> DEFINE k == loc[th]
  <1>1. TypeOK /\ Running(th) /\ k.at = "tramp"
    BY DEF Base, HookInv, ExecTramp
  <1>2. PICK l : /\ MoveTo(th, l)
                 /\ \/ /\ exposed' = exposed
                       /\ \/ page[k.page] # k.tgt
                          \/ l = Out
                          \/ \E x : l \in {AtTramp(k.tgt, x, k.page),
                                           InCallee(k.tgt, x, k.page)}
                    \/ exposed' = exposed \cup {th}
    BY DEF ExecTramp
  <1>3. /\ th \notin exposed => page[k.page] = k.tgt
        /\ k.page # NoPage
    BY <1>1, PlaceTypes DEF ThreadInv, Protected, InCopy
  <1>4. th \notin exposed' =>
           /\ l.at # "lost"
           /\ InPrologue(l) => \/ code[l.tgt] = {}
                               \/ l.at = "orig" /\ l.off = 0
                               \/ l.off \notin Beneath(l.tgt)
           /\ l.at = "new" => "opcode" \in code[l.tgt]
           /\ InCopy(l) => page[l.page] = l.tgt
    BY <1>1, <1>2, <1>3 DEF AtTramp, InCallee, Out, Place, InPrologue, InCopy
  <1> QED
    BY <1>1, <1>2, <1>4, MoveThreads

\* A called function returns to where its caller is as protected as it was.
LEMMA ReturnThreads ==
    ASSUME Base, ThreadInv, NEW th \in Threads, Return(th)
    PROVE  ThreadInv'
  <1> DEFINE k == loc[th]
             l == IF k.page = NoPage THEN AtOrig(k.tgt, k.off)
                                     ELSE AtTramp(k.tgt, k.off, k.page)
  <1>1. /\ TypeOK /\ Running(th) /\ k.at = "callee"
        /\ MoveTo(th, l) /\ exposed' = exposed
    BY DEF Base, HookInv, Return
  <1>2. th \notin exposed =>
           /\ k.page = NoPage => code[k.tgt] = {} \/ k.off \notin Beneath(k.tgt)
           /\ k.page # NoPage => page[k.page] = k.tgt
    BY <1>1 DEF ThreadInv, Protected, InPrologue, InCopy, Running
  <1>3. th \notin exposed' =>
           /\ l.at # "lost"
           /\ InPrologue(l) => \/ code[l.tgt] = {}
                               \/ l.at = "orig" /\ l.off = 0
                               \/ l.off \notin Beneath(l.tgt)
           /\ l.at = "new" => "opcode" \in code[l.tgt]
           /\ InCopy(l) => page[l.page] = l.tgt
    BY <1>1, <1>2 DEF AtOrig, AtTramp, Place, InPrologue, InCopy
  <1> HIDE DEF l
  <1> QED
    BY <1>1, <1>3, MoveThreads

LEMMA StepThreads ==
    ASSUME Base, ThreadInv, NEW th \in Threads, ThreadStep(th)
    PROVE  ThreadInv'
  <1>1. TypeOK
    BY DEF Base, HookInv
  <1>2. ASSUME NEW t \in Targets, Enter(th, t)
        PROVE  ThreadInv'
    <2>1. Running(th) /\ MoveTo(th, AtOrig(t, 0)) /\ exposed' = exposed
      BY <1>2 DEF Enter
    <2>2. /\ AtOrig(t, 0).at = "orig" /\ AtOrig(t, 0).off = 0
          /\ ~InCopy(AtOrig(t, 0))
      BY DEF AtOrig, Place, InCopy
    <2> QED
      BY <1>1, <2>1, <2>2, MoveThreads
  <1>3. CASE HeapLock(th) \/ HeapUnlock(th)
    <2>1. UNCHANGED <<item, size, code, page, pc, op, pos, traced, alive, loc, exposed>>
      BY <1>3 DEF HeapLock, HeapUnlock, table, memory, call, tracer, history
    <2> QED
      BY <2>1 DEF ThreadInv, Protected, WillRestore, Unfrozen, Running
  <1>4. CASE Spawn(th)
    <2>1. /\ UNCHANGED <<item, size, code, page, pc, op, pos, traced, loc>>
          /\ th \notin alive /\ alive' = alive \cup {th}
          /\ exposed \subseteq exposed'
          /\ pc \in {"address", "restoreAddress"} => th \in exposed'
      BY <1>4 DEF Spawn, table, memory, call, tracer
    <2>2. Unfrozen' \subseteq Unfrozen \cup {th}
      BY <2>1 DEF Unfrozen, Running
    <2>3. \A u \in Threads : Protected(u) => Protected(u)'
      BY <2>1 DEF Protected, WillRestore
    <2> QED
      BY <2>1, <2>2, <2>3 DEF ThreadInv
  <1> QED
    BY <1>2, <1>3, <1>4, ExecOrigThreads, ExecNewThreads, ExecTrampThreads, ReturnThreads
       DEF ThreadStep

-----------------------------------------------------------------------------
(* The theorems *)

LEMMA StepBase == Base /\ [Next]_vars => Base'
  BY StepHookInv, StepChild, StepScan, StepBoundary DEF Base, HookInv, TableInv

LEMMA StepThreadInv == Base /\ ThreadInv /\ [Next]_vars => ThreadInv'
  <1> SUFFICES ASSUME Base, ThreadInv, [Next]_vars
               PROVE  ThreadInv'
    OBVIOUS
  <1>1. CASE Request
    BY <1>1, QuietThreads, RegisterThreads DEF Request, Hook, Unhook, HookAll, UnhookAll
  <1>2. CASE CallerStep
    BY <1>2, QuietThreads, WriteOpcodeThreads, WriteAddressThreads, RestoreOpcodeThreads,
       RestoreAddressThreads, ReleaseThreads DEF CallerStep
  <1>3. CASE ChildStep
    BY <1>3, QuietThreads, AttachThreads DEF ChildStep
  <1>4. ASSUME NEW th \in Threads, ThreadStep(th)
        PROVE  ThreadInv'
    BY <1>4, StepThreads
  <1>5. CASE UNCHANGED vars
    <2>1. UNCHANGED <<item, size, code, page, pc, op, pos, traced, alive, loc, exposed>>
      BY <1>5 DEF vars, table, memory, call, tracer, process, history
    <2> QED
      BY <2>1 DEF ThreadInv, Protected, WillRestore, Unfrozen, Running
  <1> QED
    BY <1>1, <1>2, <1>3, <1>4, <1>5 DEF Next

\* Whoever was never left unprotected is where the protocol expects it, also when it is
\* in a function called from the prologue or from the copy, in every state of every
\* behaviour, whatever fails (inlineHook.c:84-184, 336-368).
THEOREM ThreadsProtected == Spec => [](Base /\ ThreadInv)
  <1>1. Init => Base /\ ThreadInv
    BY InitHookInv, InitChild, InitThreadInv DEF Base
  <1>2. Base /\ ThreadInv /\ [Next]_vars => (Base /\ ThreadInv)'
    BY StepBase, StepThreadInv
  <1> QED
    BY <1>1, <1>2, PTL DEF Spec

\* Whatever fails, and whatever is hooked and released, in whichever order: a thread
\* that derails was left unprotected, for instance by a patch written over the place it
\* will return to (inlineHook.c:84-184, 336-368).
THEOREM OnlyExposedLost == Spec => []LostOnlyIfExposed
  <1>1. ThreadInv => LostOnlyIfExposed
    BY DEF ThreadInv, Protected, LostOnlyIfExposed
  <1> QED
    BY <1>1, ThreadsProtected, PTL
-----------------------------------------------------------------------------
(* Nothing fails and nothing is released *)

LEMMA InitQuiet ==
    ASSUME Quiet, Init
    PROVE  QuietInv
  <1>1. CalmInv /\ FrozenInv /\ MovedInv
    BY DEF Init, CalmInv, FrozenInv, MovedInv
  <1>2. CountInv
    <2>1. item \in [0 .. Cap - 1 -> {Used(0)}]
      BY DEF Init, Quiet
    <2>2. \A j \in 0 .. Cap - 1 : item[j].count = 0
      BY <2>1 DEF Used, Empty
    <2> QED
      BY <2>2 DEF Init, CountInv, Live
  <1>3. SpotInv
    BY DEF Init, SpotInv, InPrologue, Out, Place
  <1> QED
    BY <1>1, <1>2, <1>3 DEF QuietInv

\* Of the library's steps, those that release are never taken.
LEMMA NeverReleases ==
    ASSUME Quiet, CallInv, CalmInv
    PROVE  /\ ~RestoreOpcode /\ ~RestoreAddress /\ ~Release
           /\ ~UnhookAll /\ \A t : ~Unhook(t)
           /\ \A th : ~Spawn(th)
  <1>1. "unhook" \notin Calls /\ "unhookAll" \notin Calls /\ "spawn" \notin Faults
    BY DEF Quiet
  <1>2. pc \notin {"restoreOpcode", "restoreAddress", "release"}
    BY DEF CallInv, CalmInv
  <1> QED
    BY <1>1, <1>2
       DEF RestoreOpcode, RestoreAddress, Release, UnhookAll, Unhook, Freeze, Spawn

\* Next, under Quiet.
LEMMA QuietSteps ==
    ASSUME Quiet, CallInv, CalmInv, [Next]_vars
    PROVE  \/ \E o \in {"hook", "hookAll"} : \E j : Freeze(o, j)
           \/ \E t \in Targets : Register(t)
           \/ FreezeDone \/ Thaw \/ Reap \/ Scan \/ WriteOpcode \/ WriteAddress
           \/ ChildStop \/ \E th \in Threads : ChildAttach(th) \/ ChildDetach(th)
           \/ \E th \in Threads, t \in Targets : Enter(th, t)
           \/ \E th \in Threads : ExecOrig(th) \/ ExecNew(th) \/ ExecTramp(th) \/ Return(th)
           \/ \E th \in Threads : HeapLock(th) \/ HeapUnlock(th)
           \/ UNCHANGED vars
  BY NeverReleases DEF Next, Request, Hook, HookAll, CallerStep, ChildStep, ThreadStep

\* With the threads stopped, and moved, a store exposes nobody.
LEMMA NobodyRuns ==
    ASSUME Quiet, TypeOK, FrozenInv, pc \in {"scan", "opcode", "address"}
    PROVE  Unfrozen = {}
  BY DEF Quiet, FrozenInv, Unfrozen, Running

\* The boundaries of an entry that is used once, and whose prologue fits them, can be
\* relied on.
LEMMA Reliable ==
    ASSUME Quiet, TypeOK, CountInv, TableInv, NEW j \in Live, NEW l
    PROVE  ~Unreliable(item[j], l)
  <1>1. j \in 0 .. Cap - 1 /\ item[j].target \in Targets
    BY DEF Live, TypeOK, TableInv, LiveInv
  <1>2. item[j].count = Layout[item[j].target].count /\ item[j].count <= OrigSlots
    BY <1>1 DEF CountInv, Quiet
  <1>3. item[j].count \in Nat
    BY <1>1, <1>2 DEF IsLayout
  <1> QED
    BY <1>2, <1>3 DEF Unreliable, OrigSlots

LEMMA StepCalm ==
    ASSUME Quiet, Base, ThreadInv, QuietInv, [Next]_vars
    PROVE  CalmInv'
  <1> USE DEF CalmInv
  <1>1. TypeOK /\ CallInv /\ TableInv
    BY DEF Base, HookInv, TableInv
  <1>2. CalmInv /\ CountInv /\ FrozenInv /\ SpotInv /\ MovedInv
    BY DEF QuietInv
  <1>3. ASSUME NEW o \in {"hook", "hookAll"}, NEW j, Freeze(o, j)
        PROVE  CalmInv'
    BY <1>2, <1>3 DEF Freeze, memory, history
  <1>4. ASSUME NEW t \in Targets, Register(t)
        PROVE  CalmInv'
    BY <1>2, <1>4 DEF Register, history
  <1>5. CASE FreezeDone \/ Thaw \/ Reap \/ Scan
    BY <1>2, <1>5 DEF FreezeDone, Thaw, Reap, Scan, memory, history
  <1>6. CASE WriteOpcode
    <2>1. pos \in Scope
      BY <1>1, <1>6 DEF WriteOpcode, CallInv, Scope
    <2>2. Midway(item[pos].target) = {}
      BY <1>2, <1>6, <2>1 DEF WriteOpcode, MovedInv, Midway
    <2>3. Unfrozen = {}
      BY <1>1, <1>2, <1>6, NobodyRuns DEF WriteOpcode
    <2> QED
      BY <1>2, <1>6, <2>2, <2>3 DEF WriteOpcode
  <1>7. CASE WriteAddress
    BY <1>2, <1>7 DEF WriteAddress, history
  <1>8. CASE ChildStop \/ \E th \in Threads : ChildDetach(th)
    BY <1>2, <1>8 DEF ChildStop, ChildDetach, memory, call, history
  <1>9. ASSUME NEW th \in Threads, ChildAttach(th)
        PROVE  CalmInv'
    <2>1. Scope \subseteq Live
      BY <1>1, <1>9, ScopeLive DEF ChildAttach
    <2>2. \A j \in Scope : ~Unreliable(item[j], loc[th])
      BY <1>1, <1>2, <2>1, Reliable
    <2> QED
      BY <1>2, <1>9, <2>2 DEF ChildAttach, memory, call
  <1>10. ASSUME NEW th \in Threads, ExecOrig(th)
         PROVE  CalmInv'
    BY <1>2, <1>10 DEF ExecOrig, Fetched, MoveTo, memory, call
  <1>11. ASSUME NEW th \in Threads, ExecTramp(th)
         PROVE  CalmInv'
    <2>1. "cold" \notin Faults
      BY DEF Quiet
    <2> QED
      BY <1>2, <1>11, <2>1 DEF ExecTramp, MoveTo, memory, call
  <1>12. ASSUME NEW th \in Threads,
                \/ ExecNew(th) \/ Return(th) \/ HeapLock(th) \/ HeapUnlock(th)
                \/ \E t \in Targets : Enter(th, t)
         PROVE  CalmInv'
    BY <1>2, <1>12
       DEF ExecNew, Return, HeapLock, HeapUnlock, Enter, MoveTo, memory, call, history
  <1>13. CASE UNCHANGED vars
    BY <1>2, <1>13 DEF vars, memory, call, history
  <1> QED
    BY <1>1, <1>2, <1>3, <1>4, <1>5, <1>6, <1>7, <1>8, <1>9, <1>10, <1>11, <1>12, <1>13,
       QuietSteps

\* Registration fills an entry that nobody used.
LEMMA StepCount ==
    ASSUME Quiet, Base, QuietInv, [Next]_vars
    PROVE  CountInv'
  <1>1. TypeOK /\ CallInv /\ TableInv /\ CalmInv /\ CountInv
    BY DEF Base, HookInv, TableInv, QuietInv
  <1>2. ASSUME UNCHANGED table
        PROVE  CountInv'
    BY <1>1, <1>2 DEF CountInv, table, Live
  <1>3. ASSUME NEW t \in Targets, Register(t)
        PROVE  CountInv'
    <2>1. CASE size = Cap \/ pc' = "overrun"
      BY <1>1, <1>2, <1>3, <2>1 DEF Register, TypeOK
    <2>2. CASE size < Cap /\ pc' # "overrun"
      <3>1. PICK p \in Pages :
               item' = [item EXCEPT ![size] =
                  [target |-> t, page |-> p, saved |-> code[t],
                   bnd |-> Overlay(@.bnd, @.count, Layout[t].count,
                                   Layout[t].orig, Layout[t].tramp),
                   count |-> @.count + Layout[t].count,
                   status |-> "REGISTERED"]]
        BY <1>1, <1>3, <2>2 DEF Register, TypeOK
      <3>2. /\ size \in 0 .. Cap - 1 /\ Live' = Live \cup {size} /\ size \notin Live
            /\ \A j \in 0 .. Cap - 1 : j # size => item'[j] = item[j]
        BY <1>1, <1>3, <2>2, <3>1 DEF Register, TypeOK, Live
      <3>3. item[size].count = 0
        BY <1>1, <3>2 DEF CountInv
      <3>4. item'[size].target = t /\ item'[size].count = 0 + Layout[t].count
        BY <1>1, <3>1, <3>2, <3>3 DEF TypeOK
      <3>5. Layout[t].count \in Nat
        BY DEF IsLayout
      <3> QED
        BY <1>1, <3>2, <3>4, <3>5 DEF CountInv
    <2> QED
      BY <1>1, <2>1, <2>2 DEF TypeOK
  <1>4. CASE WriteAddress
    <2>1. \A j \in 0 .. Cap - 1 : item[j] \in Entries
      BY <1>1 DEF TypeOK
    <2>2. /\ Live' = Live
          /\ \A j \in 0 .. Cap - 1 : /\ item'[j].target = item[j].target
                                     /\ item'[j].count = item[j].count
      BY <1>1, <1>4, <2>1 DEF WriteAddress, Live, TypeOK, Entries
    <2> QED
      BY <1>1, <2>2 DEF CountInv
  <1>5. CASE \/ \E o, j : Freeze(o, j)
             \/ FreezeDone \/ Thaw \/ Reap \/ Scan \/ WriteOpcode
             \/ ChildStep \/ \E th \in Threads : ThreadStep(th)
             \/ UNCHANGED vars
    BY <1>2, <1>5, ChildKeeps, OthersKeep
       DEF Freeze, FreezeDone, Thaw, Reap, Scan, WriteOpcode, vars
  <1> QED
    BY <1>1, <1>3, <1>4, <1>5, QuietSteps DEF ChildStep, ThreadStep

\* The child attaches to every thread freeze listed, and lets none go before unFreeze.
LEMMA StepFrozen ==
    ASSUME Quiet, Base, QuietInv, [Next]_vars
    PROVE  FrozenInv'
  <1> USE DEF FrozenInv
  <1>1. TypeOK /\ CallInv /\ ChildInv /\ CalmInv /\ FrozenInv
    BY DEF Base, HookInv, QuietInv
  <1>2. ASSUME NEW o \in {"hook", "hookAll"}, NEW j, Freeze(o, j)
        PROVE  FrozenInv'
    <2>1. "fork" \notin Faults
      BY DEF Quiet
    <2> QED
      BY <1>1, <1>2, <2>1 DEF Freeze, Resume, process
  <1>3. CASE (\E t \in Targets : Register(t)) \/ Thaw \/ Reap
    BY <1>3 DEF Register, Thaw, Reap
  <1>4. CASE FreezeDone
    BY <1>1, <1>4
       DEF FreezeDone, Resume, ChildInv, CalmInv, Enabling, ForAll, tracer, process
  <1>5. CASE Scan \/ WriteOpcode \/ WriteAddress
    BY <1>1, <1>5 DEF Scan, WriteOpcode, WriteAddress, tracer, process
  <1>6. CASE ChildStop \/ \E th \in Threads : ChildDetach(th)
    BY <1>1, <1>6 DEF ChildStop, ChildDetach, ChildInv, CallInv, call, process
  <1>7. ASSUME NEW th \in Threads, ChildAttach(th)
        PROVE  FrozenInv'
    <2>1. "attach" \notin Faults
      BY DEF Quiet
    <2> QED
      BY <1>1, <1>7, <2>1 DEF ChildAttach, CallInv, call
  <1>8. ASSUME NEW th \in Threads,
               \/ ExecOrig(th) \/ ExecNew(th) \/ ExecTramp(th) \/ Return(th)
               \/ HeapLock(th) \/ HeapUnlock(th) \/ \E t \in Targets : Enter(th, t)
        PROVE  FrozenInv'
    <2>1. UNCHANGED <<pc, alive, traced, todo>>
      BY <1>8
         DEF ExecOrig, ExecNew, ExecTramp, Return, HeapLock, HeapUnlock, Enter, MoveTo,
                  call, tracer
    <2> QED
      BY <1>1, <2>1
  <1>9. CASE UNCHANGED vars
    BY <1>1, <1>9 DEF vars, call, tracer, process
  <1> QED
    BY <1>1, <1>2, <1>3, <1>4, <1>5, <1>6, <1>7, <1>8, <1>9, QuietSteps

\* Hooking moves threads into copies only.
LEMMA AttachMoves ==
    ASSUME Quiet, Base, QuietInv, NEW th \in Threads, ChildAttach(th)
    PROVE  /\ \/ loc' = loc /\ Moves(loc[th]) = {}
              \/ loc' = [loc EXCEPT ![th] = loc'[th]] /\ loc'[th].at = "tramp"
           /\ traced' = traced \cup {th}
  <1>1. TypeOK /\ CallInv /\ TableInv /\ BoundaryInv /\ child = "attaching"
    BY DEF Base, HookInv, TableInv, ChildAttach
  <1>2. CalmInv /\ CountInv
    BY DEF QuietInv
  <1>3. "attach" \notin Faults /\ "getregs" \notin Faults
    BY DEF Quiet
  <1>4. Enabling(op)
    BY <1>1, <1>2, ScopeLive DEF CalmInv, Enabling
  <1>5. Scope \subseteq Live
    BY <1>1, ScopeLive
  <1>6. \A j \in Scope : ~Unreliable(item[j], loc[th])
    BY <1>1, <1>2, <1>5, Reliable
  <1>7. loc[th] \in Places
    BY <1>1, PlaceTypes
  <1>8. \A m \in Moves(loc[th]) : Land(loc[th], m).at = "tramp"
    BY <1>1, <1>4, <1>6, <1>7, EnableMoves
  <1> QED
    BY <1>1, <1>3, <1>8 DEF ChildAttach, TypeOK

\* Threads enter a function at its first instruction and leave each for the next.
LEMMA StepSpot ==
    ASSUME Quiet, Base, QuietInv, [Next]_vars
    PROVE  SpotInv'
  <1> USE DEF SpotInv
  <1>1. TypeOK /\ CallInv /\ CalmInv /\ SpotInv
    BY DEF Base, HookInv, QuietInv
  <1>2. ASSUME UNCHANGED loc
        PROVE  SpotInv'
    BY <1>1, <1>2
  <1>3. ASSUME NEW th \in Threads, NEW l, loc' = [loc EXCEPT ![th] = l],
               InPrologue(l) => l.off \in {0} \cup Origs(l.tgt)
        PROVE  SpotInv'
    BY <1>1, <1>3 DEF TypeOK
  <1>4. ASSUME NEW th \in Threads, ChildAttach(th)
        PROVE  SpotInv'
    <2>1. CASE loc' = loc
      BY <1>2, <2>1
    <2>2. CASE loc' = [loc EXCEPT ![th] = loc'[th]] /\ loc'[th].at = "tramp"
      BY <1>3, <2>2 DEF InPrologue
    <2> QED
      BY <1>4, <2>1, <2>2, AttachMoves
  <1>5. ASSUME NEW th \in Threads, NEW t \in Targets, Enter(th, t)
        PROVE  SpotInv'
    BY <1>3, <1>5 DEF Enter, MoveTo, AtOrig, Place, InPrologue
  <1>6. ASSUME NEW th \in Threads, ExecOrig(th)
        PROVE  SpotInv'
    <2>1. PICK l : /\ MoveTo(th, l)
                   /\ \/ l.at \in {"new", "lost", "out"}
                      \/ \E x \in Origs(loc[th].tgt) :
                            l \in {AtOrig(loc[th].tgt, x), InCallee(loc[th].tgt, x, NoPage)}
      <3>1. /\ Lost.at = "lost" /\ Out.at = "out"
            /\ AtNew(loc[th].tgt).at = "new"
        BY DEF Lost, Out, AtNew, Place
      <3> QED
        BY <1>6, <3>1 DEF ExecOrig, After
    <2> QED
      BY <1>3, <2>1 DEF MoveTo, AtOrig, InCallee, Place, InPrologue
  <1>7. ASSUME NEW th \in Threads, ExecNew(th) \/ ExecTramp(th) \/ Return(th)
        PROVE  SpotInv'
    <2> USE DEF InPrologue
    <2>1. /\ ~InPrologue(Out) /\ ~InPrologue(Lost)
          /\ \A t, o, p : ~InPrologue(AtTramp(t, o, p))
          /\ \A t, o, p : p # NoPage => ~InPrologue(InCallee(t, o, p))
      BY DEF Out, Lost, AtTramp, InCallee, Place
    <2>2. CASE ExecNew(th)
      BY <1>3, <2>1, <2>2 DEF ExecNew, MoveTo
    <2>3. CASE ExecTramp(th)
      <3>1. loc[th].page # NoPage
        BY <1>1, <2>3, PlaceTypes DEF ExecTramp, InCopy
      <3> QED
        BY <1>3, <2>1, <2>3, <3>1 DEF ExecTramp, MoveTo
    <2>4. CASE Return(th)
      <3>1. CASE loc[th].page = NoPage
        <4>1. MoveTo(th, AtOrig(loc[th].tgt, loc[th].off)) /\ InPrologue(loc[th])
          BY <2>4, <3>1 DEF Return
        <4> QED
          BY <1>1, <1>3, <4>1 DEF MoveTo, AtOrig, Place
      <3>2. CASE loc[th].page # NoPage
        <4>1. MoveTo(th, AtTramp(loc[th].tgt, loc[th].off, loc[th].page))
          BY <2>4, <3>2 DEF Return
        <4> QED
          BY <1>3, <2>1, <4>1 DEF MoveTo
      <3> QED
        BY <3>1, <3>2
    <2> QED
      BY <1>7, <2>2, <2>3, <2>4
  <1>8. CASE \/ \E o, j : Freeze(o, j)
             \/ \E t \in Targets : Register(t)
             \/ FreezeDone \/ Thaw \/ Reap \/ Scan \/ WriteOpcode \/ WriteAddress
             \/ ChildStop \/ \E th \in Threads : ChildDetach(th)
             \/ \E th \in Threads : HeapLock(th) \/ HeapUnlock(th)
             \/ UNCHANGED vars
    BY <1>2, <1>8 DEF Freeze, Register, FreezeDone, Thaw, Reap, Scan, WriteOpcode,
       WriteAddress, ChildStop, ChildDetach, HeapLock, HeapUnlock, vars, process
  <1> QED
    BY <1>1, <1>4, <1>5, <1>6, <1>7, <1>8, QuietSteps

\* A thread stopped behind the first instruction of a prologue in scope is at one of the
\* boundaries, so it does not stay there.
LEMMA MidwayMoves ==
    ASSUME Quiet, Base, QuietInv, child = "attaching",
           NEW l, l.at = "orig", l.off \in Origs(l.tgt),
           NEW j \in Scope, item[j].target = l.tgt
    PROVE  Moves(l) # {}
  <1> DEFINE e == item[j]
             L == Layout[e.target]
  <1>1. TypeOK /\ CallInv /\ TableInv /\ BoundaryInv /\ CountInv /\ CalmInv
    BY DEF Base, HookInv, TableInv, QuietInv
  <1>2. j \in Live /\ j \in 0 .. Cap - 1 /\ Enabling(op)
    BY <1>1, ScopeLive DEF Live, TypeOK, CalmInv, Enabling
  <1>3. /\ e.count = L.count
        /\ L.count \in 1 .. OrigSlots
    <2>1. e.target \in Targets
      BY <1>1, <1>2 DEF TableInv, LiveInv
    <2> QED
      BY <1>1, <1>2, <2>1 DEF CountInv, Quiet, IsLayout, OrigSlots
  <1>4. PICK k \in 0 .. L.count - 1 : L.orig[k] = l.off
    BY DEF Origs
  <1>5. e.bnd[k] = l.off
    BY <1>1, <1>2, <1>3, <1>4 DEF BoundaryInv
  <1>6. \E i \in 0 .. e.count - 1 :
           e.bnd[i] = l.off /\ \A x \in 0 .. i - 1 : e.bnd[x] # l.off
    <2>1. k \in 0 .. 3 /\ k < e.count /\ e.count \in Nat
      BY <1>3, <1>4 DEF OrigSlots
    <2> HIDE DEF e, L
    <2> QED
      BY <1>5, <2>1
  <1>7. PICK i \in FirstMatch(e.bnd, 0, e.count, l.off) : TRUE
    BY <1>6 DEF FirstMatch
  <1>8. e.bnd[OrigSlots + i] \in EnableOffset(e.bnd, e.count, l.off)
    BY <1>7 DEF EnableOffset
  <1>9. AtTramp(l.tgt, e.bnd[OrigSlots + i], e.page) \in
           UNION {{AtTramp(l.tgt, r, item[n].page) :
                       r \in EnableOffset(item[n].bnd, item[n].count, l.off)} :
                  n \in {n \in Scope : l.at = "orig" /\ item[n].target = l.tgt}}
    BY <1>8
  <1> QED
    BY <1>2, <1>9 DEF Moves

LEMMA StepMoved ==
    ASSUME Quiet, Base, QuietInv, [Next]_vars
    PROVE  MovedInv'
  <1> USE DEF MovedInv
  <1>1. TypeOK /\ CallInv /\ TableInv /\ ChildInv /\ CalmInv /\ SpotInv /\ MovedInv
    BY DEF Base, HookInv, TableInv, QuietInv
  <1>2. ASSUME NEW o, NEW j, Freeze(o, j)
        PROVE  MovedInv'
    BY <1>1, <1>2 DEF Freeze, ChildInv
  <1>3. CASE (\E t \in Targets : Register(t)) \/ Thaw \/ Reap
    BY <1>3 DEF Register, Thaw, Reap
  <1>4. CASE FreezeDone \/ WriteOpcode
    BY <1>1, <1>4 DEF FreezeDone, WriteOpcode, Resume, Scope, Live, table, tracer, process
  <1>5. CASE Scan
    BY <1>1, <1>5 DEF Scan, Scope, Live, CallInv, table, tracer, process
  <1>6. CASE WriteAddress
    <2>1. CASE ForAll(op)
      <3>1. /\ Scope' = Scope /\ \A j \in Scope : item'[j].target = item[j].target
        BY <1>1, <1>6, <2>1, WriteAddressMarks DEF WriteAddress, Scope, ForAll
      <3> QED
        BY <1>1, <1>6, <3>1 DEF WriteAddress, tracer, process
    <2>2. CASE ~ForAll(op)
      BY <1>6, <2>2 DEF WriteAddress
    <2> QED
      BY <2>1, <2>2
  <1>7. CASE ChildStop \/ \E th \in Threads : ChildDetach(th)
    BY <1>1, <1>7 DEF ChildStop, ChildDetach, Scope, Live, table, call, process
  <1>8. ASSUME NEW th \in Threads, ChildAttach(th)
        PROVE  MovedInv'
    <2>1. /\ child = "attaching" /\ pc = "freezing" /\ UNCHANGED <<item, size, pc, op, pos>>
      BY <1>1, <1>8 DEF ChildAttach, CallInv, table, call
    <2>2. Scope' = Scope
      BY <2>1 DEF Scope, Live
    <2>3. ASSUME NEW u \in traced', loc'[u].at = "orig", loc'[u].off # 0, NEW j \in Scope
          PROVE  item[j].target # loc'[u].tgt
      <3>1. CASE loc' = loc /\ Moves(loc[th]) = {}
        <4>1. CASE u = th
          <5>1. loc[th].off \in Origs(loc[th].tgt)
            BY <1>1, <2>3, <3>1, <4>1 DEF SpotInv, InPrologue
          <5> QED
            BY <2>1, <2>3, <3>1, <4>1, <5>1, MidwayMoves
        <4>2. CASE u # th
          <5>1. u \in traced
            BY <1>8, <2>3, <4>2, AttachMoves
          <5> QED
            BY <1>1, <2>1, <2>3, <3>1, <5>1
        <4> QED
          BY <4>1, <4>2
      <3>2. CASE loc' = [loc EXCEPT ![th] = loc'[th]] /\ loc'[th].at = "tramp"
        <4>1. u # th
          BY <2>3, <3>2
        <4>2. u \in traced /\ u \in Threads
          BY <1>1, <1>8, <2>3, <4>1, AttachMoves DEF TypeOK
        <4>3. loc'[u] = loc[u]
          BY <1>1, <3>2, <4>1, <4>2 DEF TypeOK
        <4> QED
          BY <1>1, <2>1, <2>3, <4>2, <4>3
      <3> QED
        BY <1>8, <3>1, <3>2, AttachMoves
    <2> QED
      BY <2>1, <2>2, <2>3
  <1>9. ASSUME NEW th \in Threads,
               \/ ExecOrig(th) \/ ExecNew(th) \/ ExecTramp(th) \/ Return(th)
               \/ HeapLock(th) \/ HeapUnlock(th) \/ \E t \in Targets : Enter(th, t)
        PROVE  MovedInv'
    <2>1. /\ UNCHANGED <<item, size, pc, op, pos, traced>>
      BY <1>9
         DEF ExecOrig, ExecNew, ExecTramp, Return, HeapLock, HeapUnlock, Enter, MoveTo,
                  table, call, tracer
    <2>2. \A u \in traced : loc'[u] = loc[u]
      BY <1>1, <1>9
         DEF ExecOrig, ExecNew, ExecTramp, Return, HeapLock, HeapUnlock, Enter, MoveTo,
                        Running, TypeOK
    <2> QED
      BY <1>1, <2>1, <2>2 DEF Scope, Live
  <1>10. CASE UNCHANGED vars
    BY <1>1, <1>10 DEF vars, table, call, tracer, process, Scope, Live
  <1> QED
    BY <1>1, <1>2, <1>3, <1>4, <1>5, <1>6, <1>7, <1>8, <1>9, <1>10, QuietSteps

\* Hooking from the main thread, with nothing failing and prologues that fit their
\* boundaries, derails no thread that was in the function, its copy or its replacement,
\* but only those that were in a function called from beneath the patch
\* (inlineHook.c:84-184, 336-368).
THEOREM HookingLosesOnlyReturners ==
    ASSUME Quiet
    PROVE  Spec => []OnlyReturnersLost
  <1> DEFINE Inv == Base /\ ThreadInv /\ QuietInv
  <1>1. Init => Inv
    BY InitHookInv, InitChild, InitThreadInv, InitQuiet DEF Base
  <1>2. Inv /\ [Next]_vars => Inv'
    <2> SUFFICES ASSUME Inv, [Next]_vars
                 PROVE  Inv'
      OBVIOUS
    <2>1. Base' /\ ThreadInv'
      BY StepBase, StepThreadInv
    <2>2. CalmInv' /\ CountInv' /\ FrozenInv' /\ SpotInv' /\ MovedInv'
      BY StepCalm, StepCount, StepFrozen, StepSpot, StepMoved
    <2> QED
      BY <2>1, <2>2 DEF QuietInv
  <1>3. Inv => OnlyReturnersLost
    BY DEF ThreadInv, QuietInv, CalmInv, Protected, OnlyReturnersLost
  <1> QED
    BY <1>1, <1>2, <1>3, PTL DEF Spec

\* No prologue calls a function that returns beneath the patch.
NoReturnBeneath ==
    \A t \in Targets : \A o \in CallsAt(t) : After(Origs(t), o) \cap Beneath(t) = {}

\* Then no thread ever returns there.
NoReturner ==
    /\ called = {}
    /\ \A th \in Threads : loc[th].at = "callee" /\ loc[th].page = NoPage =>
                              loc[th].off \notin Beneath(loc[th].tgt)

LEMMA StepNoReturner ==
    ASSUME NoReturnBeneath, TypeOK, CallInv, NoReturner, [Next]_vars
    PROVE  NoReturner'
  <1> USE DEF NoReturner
  <1>1. ASSUME UNCHANGED <<loc, called>>
        PROVE  NoReturner'
    BY <1>1
  <1>2. ASSUME NEW th \in Threads, NEW l, loc' = [loc EXCEPT ![th] = l], called' = called,
               l.at = "callee" /\ l.page = NoPage => l.off \notin Beneath(l.tgt)
        PROVE  NoReturner'
    BY <1>2 DEF TypeOK
  <1>3. CASE WriteOpcode
    <2>1. Calling(item[pos].target) = {}
      BY DEF Calling
    <2> QED
      BY <1>1, <1>3, <2>1 DEF WriteOpcode, process
  <1>4. ASSUME NEW th \in Threads, ChildAttach(th)
        PROVE  NoReturner'
    <2>1. CASE loc' = loc
      BY <1>1, <1>4, <2>1 DEF ChildAttach
    <2>2. ASSUME NEW m \in Moves(loc[th]), loc' = [loc EXCEPT ![th] = Land(loc[th], m)]
          PROVE  NoReturner'
      <3>1. Land(loc[th], m).at \in {"tramp", "orig", "lost"}
        BY <2>2 DEF Moves, Land, AtTramp, AtOrig, Lost, Place
      <3> QED
        BY <1>2, <1>4, <2>2, <3>1 DEF ChildAttach
    <2> QED
      BY <1>4, <2>1, <2>2 DEF ChildAttach
  <1>5. ASSUME NEW th \in Threads, NEW l, MoveTo(th, l),
               l.at = "callee" /\ l.page = NoPage => l.off \notin Beneath(l.tgt)
        PROVE  NoReturner'
    BY <1>2, <1>5 DEF MoveTo
  <1>6. /\ Out.at # "callee" /\ Lost.at # "callee"
        /\ \A t : AtNew(t).at # "callee"
        /\ \A t, o : AtOrig(t, o).at # "callee"
        /\ \A t, o, p : AtTramp(t, o, p).at # "callee"
    BY DEF Out, Lost, AtNew, AtOrig, AtTramp, Place
  <1>7. ASSUME NEW th \in Threads, ExecOrig(th)
        PROVE  NoReturner'
    <2> DEFINE t == loc[th].tgt
               o == loc[th].off
    <2>1. t \in Targets
      BY <1>7, PlaceTypes DEF ExecOrig
    <2>2. PICK l : /\ MoveTo(th, l)
                   /\ \/ l.at # "callee"
                      \/ \E x \in After(Origs(t), o) :
                            o \in CallsAt(t) /\ l = InCallee(t, x, NoPage)
      BY <1>6, <1>7 DEF ExecOrig
    <2>3. ASSUME l.at = "callee"
          PROVE  l.off \notin Beneath(l.tgt)
      <3>1. PICK x \in After(Origs(t), o) : o \in CallsAt(t) /\ l = InCallee(t, x, NoPage)
        BY <2>2, <2>3
      <3>2. x \notin Beneath(t)
        BY <2>1, <3>1 DEF NoReturnBeneath
      <3> QED
        BY <3>1, <3>2 DEF InCallee, Place
    <2> QED
      BY <1>5, <2>2, <2>3
  <1>8. ASSUME NEW th \in Threads, ExecTramp(th)
        PROVE  NoReturner'
    <2>1. loc[th].page # NoPage
      BY <1>8, PlaceTypes DEF ExecTramp, InCopy
    <2>2. \A t, o : InCallee(t, o, loc[th].page).page # NoPage
      BY <2>1 DEF InCallee, Place
    <2> QED
      BY <1>5, <1>6, <1>8, <2>2 DEF ExecTramp
  <1>9. ASSUME NEW th \in Threads,
               ExecNew(th) \/ Return(th) \/ \E t \in Targets : Enter(th, t)
        PROVE  NoReturner'
    BY <1>5, <1>6, <1>9 DEF ExecNew, Return, Enter
  <1>10. CASE \/ \E th \in Threads : HeapLock(th) \/ HeapUnlock(th) \/ Spawn(th)
              \/ ChildStop \/ \E th \in Threads : ChildDetach(th)
              \/ \E o, j : Freeze(o, j)
              \/ \E t \in Targets : Register(t)
              \/ FreezeDone \/ Thaw \/ Reap \/ Scan \/ WriteAddress
              \/ RestoreOpcode \/ RestoreAddress \/ Release
              \/ UNCHANGED vars
    BY <1>1, <1>10 DEF HeapLock, HeapUnlock, Spawn, ChildStop, ChildDetach, Freeze, Register,
       FreezeDone, Thaw, Reap, Scan, WriteAddress, RestoreOpcode, RestoreAddress, Release,
       vars, process, history
  <1> QED
    BY <1>3, <1>4, <1>7, <1>8, <1>9, <1>10
       DEF Next, Request, Hook, Unhook, HookAll, UnhookAll, CallerStep, ChildStep, ThreadStep

\* With no such call in any prologue, hooking derails no thread wherever it is
\* (inlineHook.c:84-184, 336-368).
THEOREM HookingLosesNobody ==
    ASSUME Quiet, NoReturnBeneath
    PROVE  Spec => [](\A th \in Threads : loc[th].at # "lost")
  <1>1. Init => NoReturner
    BY DEF Init, NoReturner, Out, Place
  <1>2. HookInv /\ NoReturner /\ [Next]_vars => NoReturner'
    BY StepNoReturner DEF HookInv
  <1>3. NoReturner /\ OnlyReturnersLost => \A th \in Threads : loc[th].at # "lost"
    BY DEF NoReturner, OnlyReturnersLost
  <1>4. Base => HookInv
    BY DEF Base
  <1>5. Spec => []OnlyReturnersLost
    BY HookingLosesOnlyReturners
  <1> QED
    BY <1>1, <1>2, <1>3, <1>4, <1>5, ThreadsProtected, PTL DEF Spec
=============================================================================
