-------------------------- MODULE InlineHookProofs --------------------------
(***************************************************************************)
(* Proofs about InlineHook, for any number of threads, targets, pages and  *)
(* entries and any relocation layout.                                      *)
(***************************************************************************)
EXTENDS InlineHook, FiniteSetTheorems, FunctionTheorems, TLAPS

USE ThreadAssumption, TargetAssumption, TableAssumption, LayoutAssumption

-----------------------------------------------------------------------------
(* Operators the steps are built from *)

\* relocateInstruction fills the boundary arrays with offsets only.
LEMMA OverlayType ==
    ASSUME NEW b \in Block, NEW c \in Nat, NEW t \in Targets
    PROVE  Overlay(b, c, Layout[t].count, Layout[t].orig, Layout[t].tramp) \in Block
  <1>1. IsLayout(Layout[t])
    OBVIOUS
  <1> QED
    BY <1>1 DEF Overlay, Block, Cells, OrigSlots, TrampSlots, IsLayout

\* An offset doProcessThreadPC finds is one of the entry's boundaries.
LEMMA OffsetType ==
    ASSUME NEW b \in Block, NEW c \in 0 .. TrampSlots, NEW o \in Nat
    PROVE  /\ EnableOffset(b, c, o) \subseteq Nat
           /\ DisableOffset(b, c, o) \subseteq Nat
  BY DEF EnableOffset, DisableOffset, FirstMatch, Block, Cells, OrigSlots, TrampSlots

\* Where processThreadPC moves a thread is a place in the model.
LEMMA MovesType ==
    ASSUME TypeOK, CallInv, LiveInv, child = "attaching",
           NEW l \in Places, NEW m \in Moves(l)
    PROVE  Land(l, m) \in Places
  <1>1. Scope \subseteq Live
    BY DEF CallInv, Scope, ForAll, TypeOK
  <1>2. \A j \in Scope : /\ item[j].bnd \in Block
                         /\ item[j].count \in 0 .. TrampSlots
                         /\ item[j].target \in Targets
                         /\ item[j].page \in Pages
    BY <1>1 DEF TypeOK, Live, LiveInv, Entries
  <1>3. Lost \in Places
    BY DEF Lost, Place, Places
  <1>4. l.off \in Nat /\ (l.at = "orig" => l.tgt \in Targets)
    BY DEF Places
  <1>5. m \in Places
    <2>1. CASE Enabling(op)
      <3>1. PICK j \in Scope : /\ l.at = "orig"
                               /\ \E r \in EnableOffset(item[j].bnd, item[j].count, l.off) :
                                     m = AtTramp(l.tgt, r, item[j].page)
        BY <2>1 DEF Moves
      <3>2. PICK r \in Nat : m = AtTramp(l.tgt, r, item[j].page)
        BY <3>1, <1>2, <1>4, OffsetType
      <3> QED
        BY <3>1, <3>2, <1>2, <1>4 DEF Places, AtTramp, Place
    <2>2. CASE ~Enabling(op)
      <3>1. PICK j \in Scope : \E o \in DisableOffset(item[j].bnd, item[j].count, l.off) :
                m = AtOrig(item[j].target, o)
        BY <2>2 DEF Moves
      <3>2. PICK o \in Nat : m = AtOrig(item[j].target, o)
        BY <3>1, <1>2, <1>4, OffsetType
      <3> QED
        BY <3>2, <1>2 DEF Places, AtOrig, Place
    <2> QED
      BY <2>1, <2>2
  <1> QED
    BY <1>3, <1>5 DEF Land

-----------------------------------------------------------------------------
(* Type correctness *)

\* Entries that have been used start within the arrays.
LEMMA LeftType ==
    ASSUME NEW c \in 0 .. TrampSlots
    PROVE  Left(c) \in Block
  <1> DEFINE plain == [k \in 0 .. c - 1 |-> 4 * (k % 2)]
  <1>1. \A k \in 0 .. c - 1 : plain[k] \in Nat
    BY DEF TrampSlots
  <1>2. Blank \in Block
    BY DEF Blank, Block
  <1>3. ASSUME NEW x \in Cells
        PROVE  Overlay(Blank, 0, c, plain, plain)[x] \in Nat
    <2> HIDE DEF plain
    <2> QED
      BY <1>1, <1>2, <1>3 DEF Overlay, Block, Cells, OrigSlots, TrampSlots
  <1> HIDE DEF plain
  <1>4. Overlay(Blank, 0, c, plain, plain) \in Block
    BY <1>3 DEF Overlay, Block
  <1> QED
    BY <1>4 DEF Left, plain

LEMMA UsedType == \A c \in Counts : Used(c) \in Entries
  <1> SUFFICES ASSUME NEW c \in Counts
               PROVE  Used(c) \in Entries
    OBVIOUS
  <1>1. c \in 0 .. TrampSlots
    OBVIOUS
  <1>2. Left(c) \in Block
    BY <1>1, LeftType
  <1> HIDE DEF Left
  <1>3. Empty \in Entries
    BY DEF Empty, Entries, Blank, Block, TrampSlots
  <1> QED
    BY <1>1, <1>2, <1>3 DEF Used, Entries

LEMMA InitType == Init => TypeOK
  <1> SUFFICES ASSUME Init
               PROVE  TypeOK
    OBVIOUS
  <1>1. item \in [0 .. Cap - 1 -> Entries]
    BY UsedType DEF Init
  <1>2. Out \in Places
    BY DEF Out, Place, Places
  <1> QED
    BY <1>1, <1>2 DEF Init, TypeOK, Halves

LEMMA RegisterType ==
    ASSUME TypeOK, NEW t \in Targets, Register(t)
    PROVE  TypeOK'
  <1>1. CASE size = Cap
    BY <1>1 DEF Register, TypeOK, table, memory, tracer, process, history
  <1>2. CASE pc' = "overrun"
    BY <1>2 DEF Register, TypeOK, table, memory, tracer, process, history
  <1>3. CASE size < Cap /\ pc' # "overrun"
    <2>1. PICK p \in Pages :
             /\ page' = [page EXCEPT ![p] = t]
             /\ item' = [item EXCEPT ![size] =
                   [target |-> t, page |-> p, saved |-> code[t],
                    bnd |-> Overlay(@.bnd, @.count, Layout[t].count,
                                    Layout[t].orig, Layout[t].tramp),
                    count |-> @.count + Layout[t].count,
                    status |-> "REGISTERED"]]
      BY <1>3 DEF Register, TypeOK
    <2>2. item[size] \in Entries
      BY <1>3 DEF TypeOK
    <2>3. item[size].count + Layout[t].count \in 0 .. TrampSlots
      <3>1. item[size].count \in Nat
        BY <2>2 DEF Entries
      <3>2. Layout[t].count \in Nat
        BY DEF IsLayout
      <3>3. item[size].count + Layout[t].count <= TrampSlots
        BY <1>3 DEF Register, TypeOK
      <3> QED
        BY <3>1, <3>2, <3>3
    <2>4. Overlay(item[size].bnd, item[size].count, Layout[t].count,
                  Layout[t].orig, Layout[t].tramp) \in Block
      BY <2>2, OverlayType DEF Entries
    <2>5. item' \in [0 .. Cap - 1 -> Entries]
      BY <2>1, <2>3, <2>4 DEF TypeOK, Entries
    <2>6. /\ size' \in 0 .. Cap
          /\ page' \in [Pages -> Targets \cup {NoTarget}]
      BY <1>3, <2>1 DEF Register, TypeOK
    <2> QED
      BY <1>3, <2>5, <2>6 DEF Register, TypeOK, table, memory, tracer, process, history
  <1> QED
    BY <1>1, <1>2, <1>3 DEF Register

LEMMA FreezeType ==
    ASSUME TypeOK, NEW o \in {"hook", "unhook", "hookAll", "unhookAll"},
           NEW j \in 0 .. Cap, Freeze(o, j)
    PROVE  TypeOK'
  BY DEF Freeze, TypeOK, Resume, ForAll, Enabling, table, memory, process, history

LEMMA RequestType ==
    ASSUME TypeOK, Request
    PROVE  TypeOK'
  <1>1. ASSUME NEW t \in Targets, Hook(t)
        PROVE  TypeOK'
    <2>1. PICK j \in Find(t) : Freeze("hook", j)
      BY <1>1 DEF Hook
    <2>2. j \in 0 .. Cap
      BY <2>1 DEF Find, Live, TypeOK
    <2> QED
      BY <2>1, <2>2, FreezeType
  <1>2. ASSUME NEW t \in Targets, Unhook(t)
        PROVE  TypeOK'
    <2>1. PICK j \in Live : Freeze("unhook", j)
      BY <1>2 DEF Unhook
    <2>2. j \in 0 .. Cap
      BY <2>1 DEF Live, TypeOK
    <2> QED
      BY <2>1, <2>2, FreezeType
  <1>3. CASE HookAll
    BY <1>3, FreezeType DEF HookAll
  <1>4. CASE UnhookAll
    BY <1>4, FreezeType DEF UnhookAll
  <1> QED
    BY <1>1, <1>2, <1>3, <1>4, RegisterType DEF Request

LEMMA CallerType ==
    ASSUME TypeOK, CallInv, LiveInv, CallerStep
    PROVE  TypeOK'
  <1>1. CASE FreezeDone
    BY <1>1 DEF FreezeDone, TypeOK, Resume, table, memory, tracer, process, history
  <1>2. CASE Thaw
    BY <1>2 DEF Thaw, TypeOK, table, memory, process, history
  <1>3. CASE Reap
    BY <1>3 DEF Reap, TypeOK, table, memory, process, history
  <1>4. CASE Scan
    BY <1>4 DEF Scan, TypeOK, table, memory, tracer, process, history
  <1>5. CASE WriteOpcode
    <2>1. item[pos] \in Entries
      BY <1>5 DEF WriteOpcode, CallInv, TypeOK, Live
    <2>2. /\ proto' \in [Targets -> Pages \cup {NoPage}]
          /\ code' \in [Targets -> SUBSET Halves]
      BY <1>5, <2>1 DEF WriteOpcode, TypeOK, Entries, Halves
    <2>3. exposed' \subseteq Threads /\ called' \subseteq Threads
      BY <1>5 DEF WriteOpcode, TypeOK, Unfrozen, Midway, Calling
    <2> QED
      BY <1>5, <2>2, <2>3 DEF WriteOpcode, TypeOK, table, tracer, process
  <1>6. CASE WriteAddress
    <2>1. pos \in 0 .. Cap - 1 /\ item[pos] \in Entries
      BY <1>6 DEF WriteAddress, CallInv, TypeOK, Live
    <2>2. item' \in [0 .. Cap - 1 -> Entries]
      BY <1>6, <2>1 DEF WriteAddress, TypeOK, Entries
    <2>3. code' \in [Targets -> SUBSET Halves]
      BY <1>6, <2>1 DEF WriteAddress, TypeOK, Halves
    <2> QED
      BY <1>6, <2>1, <2>2, <2>3 DEF WriteAddress, TypeOK, tracer, process, history
  <1>7. CASE RestoreOpcode
    <2>1. code' \in [Targets -> SUBSET Halves]
      BY <1>7 DEF RestoreOpcode, TypeOK, Halves
    <2>2. exposed' \subseteq Threads
      BY <1>7 DEF RestoreOpcode, TypeOK, Unfrozen, Inside
    <2> QED
      BY <1>7, <2>1, <2>2 DEF RestoreOpcode, TypeOK, table, tracer, process
  <1>8. CASE RestoreAddress
    <2>1. code' \in [Targets -> SUBSET Halves]
      BY <1>8 DEF RestoreAddress, TypeOK, Halves
    <2>2. page' \in [Pages -> Targets \cup {NoTarget}]
      BY <1>8 DEF RestoreAddress, TypeOK
    <2> QED
      BY <1>8, <2>1, <2>2 DEF RestoreAddress, TypeOK, table, tracer, process, history
  <1>9. CASE Release
    <2>1. pos \in Live /\ item[size - 1] \in Entries /\ item[pos] \in Entries
          /\ item[pos].target \in Targets
      BY <1>9 DEF Release, CallInv, LiveInv, TypeOK, Live
    <2>2. item' \in [0 .. Cap - 1 -> Entries]
      BY <1>9, <2>1 DEF Release, TypeOK
    <2> QED
      BY <1>9, <2>1, <2>2 DEF Release, TypeOK, Live, tracer, process, history
  <1> QED
    BY <1>1, <1>2, <1>3, <1>4, <1>5, <1>6, <1>7, <1>8, <1>9 DEF CallerStep

LEMMA ChildType ==
    ASSUME TypeOK, CallInv, LiveInv, ChildStep
    PROVE  TypeOK'
  <1>1. CASE ChildStop
    BY <1>1 DEF ChildStop, TypeOK, table, memory, call, process, history
  <1>2. ASSUME NEW th \in Threads, ChildAttach(th)
        PROVE  TypeOK'
    <2>1. loc' \in [Threads -> Places]
      <3>1. CASE UNCHANGED loc
        BY <3>1 DEF TypeOK
      <3>2. ASSUME NEW m \in Moves(loc[th]),
                   loc' = [loc EXCEPT ![th] = Land(loc[th], m)]
            PROVE  loc' \in [Threads -> Places]
        <4>1. Land(loc[th], m) \in Places
          BY <1>2, MovesType DEF ChildAttach, TypeOK
        <4> QED
          BY <3>2, <4>1 DEF TypeOK
      <3> QED
        BY <1>2, <3>1, <3>2 DEF ChildAttach
    <2>2. /\ todo' \subseteq Threads
          /\ traced' \subseteq Threads
          /\ exposed' \subseteq Threads
      BY <1>2 DEF ChildAttach, TypeOK
    <2> QED
      BY <1>2, <2>1, <2>2 DEF ChildAttach, TypeOK, table, memory, call
  <1>3. ASSUME NEW th \in Threads, ChildDetach(th)
        PROVE  TypeOK'
    BY <1>3 DEF ChildDetach, TypeOK, table, memory, call, process, history
  <1> QED
    BY <1>1, <1>2, <1>3 DEF ChildStep

\* A thread's own step takes it to a place in the model.
LEMMA MoveToType ==
    ASSUME TypeOK, NEW th \in Threads, NEW l \in Places, MoveTo(th, l),
           exposed' \subseteq Threads
    PROVE  TypeOK'
  BY DEF MoveTo, TypeOK, table, memory, call, tracer

LEMMA ThreadType ==
    ASSUME TypeOK, NEW th \in Threads, ThreadStep(th)
    PROVE  TypeOK'
  <1>1. /\ Out \in Places
        /\ Lost \in Places
        /\ \A t \in Targets : AtNew(t) \in Places
        /\ \A t \in Targets, o \in Nat : AtOrig(t, o) \in Places
        /\ \A t \in Targets, o \in Nat, p \in Pages : AtTramp(t, o, p) \in Places
        /\ \A t \in Targets, o \in Nat, p \in Pages \cup {NoPage} : InCallee(t, o, p) \in Places
    BY DEF Out, Lost, AtNew, AtOrig, AtTramp, InCallee, Place, Places
  <1>2. /\ loc[th] \in Places
        /\ loc[th].at \in {"orig", "new", "tramp", "callee"} => loc[th].tgt \in Targets
        /\ loc[th].at = "tramp" => loc[th].page \in Pages
        /\ loc[th].at = "callee" => loc[th].off \in Nat /\ loc[th].page \in Pages \cup {NoPage}
    BY DEF TypeOK, Places
  <1>3. \A t \in Targets : Origs(t) \subseteq Nat /\ Points(t) \subseteq Nat
    <2> TAKE t \in Targets
    <2>1. IsLayout(Layout[t])
      OBVIOUS
    <2>2. /\ Layout[t].orig \in [0 .. Layout[t].count - 1 -> Nat]
          /\ Layout[t].tramp \in [0 .. Layout[t].count - 1 -> Nat]
          /\ Layout[t].tail \in Nat
          /\ Layout[t].inner \subseteq Nat
      BY <2>1, Zenon DEF IsLayout
    <2> QED
      BY <2>2 DEF Origs, Points, Tramps
  <1>4. \A S, o : After(S, o) \subseteq S
    BY DEF After
  <1>5. ASSUME NEW t \in Targets, Enter(th, t)
        PROVE  TypeOK'
    BY <1>1, <1>5, MoveToType DEF Enter, TypeOK
  <1>6. CASE ExecOrig(th)
    <2>1. PICK seen \in Fetched(loc[th].tgt) :
             /\ \E l \in Places : MoveTo(th, l)
             /\ exposed' = IF seen # code[loc[th].tgt] THEN exposed \cup {th} ELSE exposed
      BY <1>1, <1>2, <1>3, <1>4, <1>6 DEF ExecOrig
    <2>2. exposed' \subseteq Threads
      BY <2>1 DEF TypeOK
    <2> QED
      BY <2>1, <2>2, MoveToType
  <1>7. CASE ExecNew(th)
    <2>1. \E l \in Places : MoveTo(th, l)
      BY <1>1, <1>2, <1>7, 0 \in Nat DEF ExecNew
    <2>2. exposed' \subseteq Threads
      BY <1>7 DEF ExecNew, TypeOK
    <2> QED
      BY <2>1, <2>2, MoveToType
  <1>8. CASE ExecTramp(th)
    <2>1. \E l \in Places : MoveTo(th, l)
      BY <1>1, <1>2, <1>3, <1>4, <1>8 DEF ExecTramp
    <2>2. exposed' \subseteq Threads
      BY <1>8 DEF ExecTramp, TypeOK
    <2> QED
      BY <2>1, <2>2, MoveToType
  <1>9. CASE Return(th)
    <2>1. \E l \in Places : MoveTo(th, l)
      BY <1>1, <1>2, <1>9 DEF Return
    <2>2. exposed' \subseteq Threads
      BY <1>9 DEF Return, TypeOK
    <2> QED
      BY <2>1, <2>2, MoveToType
  <1>10. CASE HeapLock(th) \/ HeapUnlock(th) \/ Spawn(th)
    BY <1>10 DEF HeapLock, HeapUnlock, Spawn, TypeOK, table, memory, call, tracer, history
  <1> QED
    BY <1>5, <1>6, <1>7, <1>8, <1>9, <1>10 DEF ThreadStep

-----------------------------------------------------------------------------
(* Where a call is *)

\* The steps of the traced threads and of the child leave the call, the table
\* and the memory alone.
LEMMA OthersKeep ==
    ASSUME NEW th \in Threads, ThreadStep(th)
    PROVE  UNCHANGED <<table, memory, call, tracer>>
  BY DEF ThreadStep, Enter, ExecOrig, ExecNew, ExecTramp, Return, MoveTo,
         HeapLock, HeapUnlock, Spawn

LEMMA ChildKeeps ==
    ASSUME ChildStep
    PROVE  UNCHANGED <<table, memory, call>> /\ (child' = "attaching" => child = "attaching")
  BY DEF ChildStep, ChildStop, ChildAttach, ChildDetach

LEMMA InitCall == Init => CallInv
  BY DEF Init, CallInv

LEMMA RequestCall ==
    ASSUME TypeOK, CallInv, Request
    PROVE  CallInv'
  <1>1. ASSUME NEW t \in Targets, Register(t)
        PROVE  CallInv'
    BY <1>1 DEF Register, CallInv, call, tracer
  <1>2. ASSUME NEW t \in Targets, Hook(t)
        PROVE  CallInv'
    <2>1. PICK j \in Live : item[j].status = "REGISTERED" /\ Freeze("hook", j)
      BY <1>2 DEF Hook, Find
    <2> QED
      BY <2>1 DEF Freeze, CallInv, Resume, ForAll, Enabling, Live, table
  <1>3. ASSUME NEW t \in Targets, Unhook(t)
        PROVE  CallInv'
    <2>1. PICK j \in Live : item[j].status = "HOOKED" /\ Freeze("unhook", j)
      BY <1>3 DEF Unhook
    <2> QED
      BY <2>1 DEF Freeze, CallInv, Resume, ForAll, Enabling, Live, table
  <1>4. CASE HookAll \/ UnhookAll
    BY <1>4 DEF HookAll, UnhookAll, Freeze, CallInv, Resume, ForAll, Enabling
  <1> QED
    BY <1>1, <1>2, <1>3, <1>4 DEF Request

LEMMA CallerCall ==
    ASSUME TypeOK, CallInv, CallerStep
    PROVE  CallInv'
  <1>1. CASE FreezeDone
    BY <1>1 DEF FreezeDone, CallInv, TypeOK, Resume, ForAll, Enabling, Live, table, tracer
  <1>2. CASE Thaw
    BY <1>2 DEF Thaw, CallInv
  <1>3. CASE Reap
    BY <1>3 DEF Reap, CallInv
  <1>4. CASE Scan
    BY <1>4 DEF Scan, CallInv, TypeOK, ForAll, Enabling, Live, table, tracer
  <1>5. CASE WriteOpcode
    BY <1>5 DEF WriteOpcode, CallInv, Enabling, Live, table, tracer
  <1>6. CASE WriteAddress
    BY <1>6 DEF WriteAddress, CallInv, tracer
  <1>7. CASE RestoreOpcode
    BY <1>7 DEF RestoreOpcode, CallInv, Live, table, tracer
  <1>8. CASE RestoreAddress
    BY <1>8 DEF RestoreAddress, CallInv, Live, table, tracer
  <1>9. CASE Release
    BY <1>9 DEF Release, CallInv, tracer
  <1> QED
    BY <1>1, <1>2, <1>3, <1>4, <1>5, <1>6, <1>7, <1>8, <1>9 DEF CallerStep

\* A call is changed by its own steps and by requests only.
LEMMA CallKept ==
    ASSUME CallInv, UNCHANGED <<table, call>>, child' = "attaching" => child = "attaching"
    PROVE  CallInv'
  BY DEF CallInv, table, call, Live, Enabling, ForAll

-----------------------------------------------------------------------------
(* Table, code and copies *)

TableInv ==
    /\ LiveInv
    /\ TableConsistent
    /\ CodeMatchesTable
    /\ ProtoInv
    /\ HookedIsFlushed

\* The phases in which an entry and the memory disagree.
Midst == {"address", "restoreAddress", "release"}

LEMMA InitTable == Init => TableInv
  BY DEF Init, TableInv, LiveInv, TableConsistent, CodeMatchesTable, ProtoInv,
         HookedIsFlushed, Patch, HookedTargets, Live

\* Steps that only move a call on, between its stores, keep everything.
LEMMA TableKept ==
    ASSUME TableInv, UNCHANGED <<table, memory>>,
           UNCHANGED call \/ (pc \notin Midst /\ pc' \notin Midst)
    PROVE  TableInv'
  <1> USE DEF table, memory, call, Live, Midst
  <1>1. LiveInv'
    BY DEF TableInv, LiveInv
  <1>2. TableConsistent'
    BY DEF TableInv, TableConsistent
  <1>3. CodeMatchesTable'
    BY DEF TableInv, CodeMatchesTable, Patch, HookedTargets
  <1>4. ProtoInv'
    BY DEF TableInv, ProtoInv
  <1>5. HookedIsFlushed'
    BY DEF TableInv, HookedIsFlushed, HookedTargets
  <1> QED
    BY <1>1, <1>2, <1>3, <1>4, <1>5 DEF TableInv

LEMMA RegisterTable ==
    ASSUME TypeOK, TableInv, NEW t \in Targets, Register(t)
    PROVE  TableInv'
  <1>1. CASE size = Cap
    BY <1>1, TableKept DEF Register, Midst, TypeOK, table, memory
  <1>2. CASE pc' = "overrun"
    BY <1>2, TableKept DEF Register, Midst, TypeOK, table, memory
  <1>3. CASE size < Cap /\ pc' # "overrun"
    <2>1. PICK p \in Pages :
             /\ page[p] = NoTarget
             /\ page' = [page EXCEPT ![p] = t]
             /\ item' = [item EXCEPT ![size] =
                   [target |-> t, page |-> p, saved |-> code[t],
                    bnd |-> Overlay(@.bnd, @.count, Layout[t].count,
                                    Layout[t].orig, Layout[t].tramp),
                    count |-> @.count + Layout[t].count,
                    status |-> "REGISTERED"]]
      BY <1>3 DEF Register, TypeOK
    <2>2. /\ item'[size].target = t
          /\ item'[size].page = p
          /\ item'[size].saved = code[t]
          /\ item'[size].status = "REGISTERED"
          /\ \A j \in Live : item'[j] = item[j]
          /\ Live' = Live \cup {size}
          /\ size \notin Live
      BY <1>3, <2>1 DEF Register, TypeOK, Live
    <2>3. /\ \A j \in Live : item[j].target # t
          /\ pc = "idle" /\ pc' = pc
          /\ UNCHANGED <<code, proto, stale, pos>>
      BY <1>3 DEF Register, Known, TypeOK, Live
    <2>4. /\ \A j \in Live : item[j].page # p
          /\ page'[p] = t
          /\ \A q \in Pages : q # p => page'[q] = page[q]
      BY <2>1, <2>3 DEF TypeOK, TableInv, LiveInv, TableConsistent
    <2>5. HookedTargets' = HookedTargets
      BY <2>2 DEF HookedTargets
    <2>6. code[t] = {}
      BY <2>3 DEF TableInv, CodeMatchesTable, Patch, HookedTargets
    <2>7. LiveInv'
      BY <2>1, <2>2, <2>6 DEF TableInv, LiveInv
    <2>8. TableConsistent'
      BY <2>2, <2>3, <2>4 DEF TableInv, LiveInv, TableConsistent
    <2>9. CodeMatchesTable'
      BY <2>3, <2>5 DEF TableInv, CodeMatchesTable, Patch
    <2>10. ProtoInv'
      BY <2>2, <2>3 DEF TableInv, ProtoInv
    <2>11. HookedIsFlushed'
      BY <2>3, <2>5 DEF TableInv, HookedIsFlushed
    <2> QED
      BY <2>7, <2>8, <2>9, <2>10, <2>11 DEF TableInv
  <1> QED
    BY <1>1, <1>2, <1>3 DEF Register

LEMMA RequestTable ==
    ASSUME TypeOK, TableInv, Request
    PROVE  TableInv'
  <1>1. ASSUME NEW o, NEW j, o \in {"hook", "unhook", "hookAll", "unhookAll"}, Freeze(o, j)
        PROVE  TableInv'
    BY <1>1, TableKept DEF Freeze, Resume, ForAll, Enabling, Midst, table, memory
  <1> QED
    BY <1>1, RegisterTable DEF Request, Hook, Unhook, HookAll, UnhookAll

\* The entry a call works on, and that no other is for the same target.
LEMMA WorkedOn ==
    ASSUME TypeOK, CallInv, TableInv,
           pc \in {"opcode", "address", "restoreOpcode", "restoreAddress", "release"}
    PROVE  /\ pos \in Live /\ pos \in 0 .. Cap - 1
           /\ item[pos].target \in Targets
           /\ item[pos].page \in Pages
           /\ item[pos].saved = {}
           /\ \A j \in Live : item[j].target = item[pos].target => j = pos
  <1>1. pos \in Live
    BY DEF CallInv
  <1>2. pos \in 0 .. Cap - 1
    BY <1>1 DEF TypeOK, Live
  <1> QED
    BY <1>1, <1>2 DEF TableInv, LiveInv, TableConsistent

LEMMA WriteOpcodeTable ==
    ASSUME TypeOK, CallInv, TableInv, WriteOpcode
    PROVE  TableInv'
  <1> DEFINE t == item[pos].target
  <1>1. /\ pc = "opcode" /\ pc' = "address"
        /\ UNCHANGED <<item, size, page, stale, pos>>
        /\ code' = [code EXCEPT ![t] = @ \cup {"opcode"}]
        /\ proto' = IF t \in Chaining THEN [proto EXCEPT ![t] = item[pos].page]
                                       ELSE proto
    BY DEF WriteOpcode, table
  <1>2. item[pos].status = "REGISTERED"
    BY <1>1 DEF CallInv
  <1>3. /\ pos \in Live
        /\ t \in Targets
        /\ \A j \in Live : item[j].target = t => j = pos
    BY <1>1, WorkedOn
  <1>4. t \notin HookedTargets /\ HookedTargets' = HookedTargets
    BY <1>1, <1>2, <1>3 DEF HookedTargets, Live
  <1>5. code[t] = {}
    BY <1>1, <1>3, <1>4 DEF TableInv, CodeMatchesTable, Patch
  <1>6. pos < size /\ Live' = Live
    BY <1>1, <1>3 DEF Live, TypeOK
  <1>7. LiveInv' /\ TableConsistent'
    BY <1>1, <1>6 DEF TableInv, LiveInv, TableConsistent
  <1>8. CodeMatchesTable'
    <2> SUFFICES ASSUME NEW u \in Targets
                 PROVE  code'[u] = Patch(u)'
      BY DEF CodeMatchesTable
    <2>1. CASE u = t
      BY <2>1, <1>1, <1>3, <1>5, <1>6 DEF TypeOK, Patch
    <2>2. CASE u # t
      BY <2>2, <1>1, <1>4, <1>6 DEF TypeOK, TableInv, CodeMatchesTable, Patch
    <2> QED
      BY <2>1, <2>2
  <1>9. ProtoInv'
    <2> SUFFICES ASSUME NEW j \in Live, item[j].target \in Chaining,
                        item[j].status = "HOOKED" \/ j = pos
                 PROVE  proto'[item[j].target] = item[j].page
      BY <1>1, <1>6 DEF ProtoInv
    <2>1. CASE j = pos
      BY <2>1, <1>1, <1>3 DEF TypeOK
    <2>2. CASE j # pos
      BY <2>2, <1>1, <1>3 DEF TypeOK, TableInv, ProtoInv, LiveInv
    <2> QED
      BY <2>1, <2>2
  <1>10. HookedIsFlushed'
    BY <1>1, <1>4 DEF TableInv, HookedIsFlushed
  <1> QED
    BY <1>7, <1>8, <1>9, <1>10 DEF TableInv

\* Marking the entry: it alone changes, and only in its status.
LEMMA WriteAddressMarks ==
    ASSUME TypeOK, CallInv, TableInv, WriteAddress
    PROVE  /\ Live' = Live
           /\ \A j \in Live : /\ item'[j].target = item[j].target
                              /\ item'[j].page = item[j].page
                              /\ item'[j].saved = item[j].saved
                              /\ j # pos => item'[j].status = item[j].status
           /\ item'[pos].status = "HOOKED"
           /\ HookedTargets' = HookedTargets \cup {item[pos].target}
  <1> DEFINE t == item[pos].target
  <1>1. /\ pc = "address" /\ UNCHANGED size
        /\ item' = [item EXCEPT ![pos].status = "HOOKED"]
    BY DEF WriteAddress
  <1>2. /\ pos \in Live /\ pos \in 0 .. Cap - 1 /\ pos < size
        /\ t \in Targets
    BY <1>1, WorkedOn DEF Live, TypeOK
  <1>3. /\ Live' = Live
        /\ \A j \in Live : /\ item'[j].target = item[j].target
                           /\ item'[j].page = item[j].page
                           /\ item'[j].saved = item[j].saved
                           /\ j # pos => item'[j].status = item[j].status
        /\ item'[pos].status = "HOOKED"
    <2>1. Live' = Live /\ \A j \in Live : j \in 0 .. Cap - 1
      BY <1>1 DEF Live, TypeOK
    <2>2. \A j \in Live : j # pos => item'[j] = item[j]
      BY <1>1, <2>1 DEF TypeOK
    <2>3. item'[pos] = [item[pos] EXCEPT !.status = "HOOKED"]
      BY <1>1, <1>2 DEF TypeOK
    <2>4. item[pos] \in Entries
      BY <1>2 DEF TypeOK
    <2>5. /\ item'[pos].target = item[pos].target
          /\ item'[pos].page = item[pos].page
          /\ item'[pos].saved = item[pos].saved
          /\ item'[pos].status = "HOOKED"
      BY <2>3, <2>4 DEF Entries
    <2> QED
      BY <2>1, <2>2, <2>5
  <1>4. HookedTargets' = HookedTargets \cup {t}
    <2> SUFFICES ASSUME NEW u \in Targets
                 PROVE  u \in HookedTargets' <=> u \in HookedTargets \/ u = t
      BY <1>2 DEF HookedTargets
    <2>1. ASSUME u \in HookedTargets'
          PROVE  u \in HookedTargets \/ u = t
      <3>1. PICK j \in Live' : item'[j].target = u /\ item'[j].status = "HOOKED"
        BY <2>1 DEF HookedTargets
      <3> QED
        BY <1>3, <3>1 DEF HookedTargets
    <2>2. ASSUME u \in HookedTargets
          PROVE  u \in HookedTargets'
      <3>1. PICK j \in Live : item[j].target = u /\ item[j].status = "HOOKED"
        BY <2>2 DEF HookedTargets
      <3> QED
        BY <1>3, <3>1 DEF HookedTargets
    <2>3. t \in HookedTargets'
      BY <1>2, <1>3 DEF HookedTargets
    <2> QED
      BY <2>1, <2>2, <2>3
  <1> QED
    BY <1>3, <1>4

LEMMA WriteAddressTable ==
    ASSUME TypeOK, CallInv, TableInv, WriteAddress
    PROVE  TableInv'
  <1> DEFINE t == item[pos].target
  <1>1. /\ pc = "address" /\ pc' \in {"scan", "thaw"}
        /\ UNCHANGED <<size, page, proto>>
        /\ code' = [code EXCEPT ![t] = @ \cup {"address"}]
        /\ item' = [item EXCEPT ![pos].status = "HOOKED"]
        /\ stale' = stale \ {t}
    BY DEF WriteAddress
  <1>2. /\ pos \in Live /\ pos \in 0 .. Cap - 1 /\ pos < size
        /\ t \in Targets
        /\ \A j \in Live : item[j].target = t => j = pos
    BY <1>1, WorkedOn DEF Live, TypeOK
  <1>3. /\ Live' = Live
        /\ \A j \in Live : /\ item'[j].target = item[j].target
                           /\ item'[j].page = item[j].page
                           /\ item'[j].saved = item[j].saved
                           /\ j # pos => item'[j].status = item[j].status
        /\ item'[pos].status = "HOOKED"
    BY WriteAddressMarks
  <1>4. HookedTargets' = HookedTargets \cup {t}
    BY WriteAddressMarks
  <1>5. code[t] = {"opcode"}
    BY <1>1, <1>2 DEF TableInv, CodeMatchesTable, Patch
  <1>6. LiveInv'
    BY <1>3 DEF TableInv, LiveInv
  <1>7. TableConsistent'
    BY <1>1, <1>3 DEF TableInv, TableConsistent
  <1>8. CodeMatchesTable'
    <2> SUFFICES ASSUME NEW u \in Targets
                 PROVE  code'[u] = Patch(u)'
      BY DEF CodeMatchesTable
    <2>1. CASE u = t
      BY <2>1, <1>1, <1>2, <1>4, <1>5 DEF TypeOK, Patch, Halves
    <2>2. CASE u # t
      BY <2>2, <1>1, <1>4 DEF TypeOK, TableInv, CodeMatchesTable, Patch
    <2> QED
      BY <2>1, <2>2
  <1>9. ProtoInv'
    BY <1>1, <1>2, <1>3 DEF TableInv, ProtoInv
  <1>10. HookedIsFlushed'
    BY <1>1, <1>4 DEF TableInv, HookedIsFlushed
  <1> QED
    BY <1>6, <1>7, <1>8, <1>9, <1>10 DEF TableInv

\* Restoring either half of the patch: the other targets keep their code.
LEMMA RestoreOpcodeTable ==
    ASSUME TypeOK, CallInv, TableInv, RestoreOpcode
    PROVE  TableInv'
  <1> DEFINE t == item[pos].target
  <1>1. /\ pc = "restoreOpcode" /\ pc' = "restoreAddress"
        /\ UNCHANGED <<item, size, page, proto, stale, pos>>
        /\ code' = [code EXCEPT ![t] = (@ \ {"opcode"}) \cup (item[pos].saved \cap {"opcode"})]
    BY DEF RestoreOpcode, table
  <1>2. /\ pos \in Live /\ pos < size
        /\ t \in Targets
        /\ item[pos].saved = {}
        /\ item[pos].status = "HOOKED"
        /\ \A j \in Live : item[j].target = t => j = pos
    BY <1>1, WorkedOn DEF Live, TypeOK, CallInv
  <1>3. t \in HookedTargets /\ HookedTargets' = HookedTargets /\ Live' = Live
    BY <1>1, <1>2 DEF HookedTargets, Live
  <1>4. code[t] = Halves
    BY <1>1, <1>2, <1>3 DEF TableInv, CodeMatchesTable, Patch
  <1>5. LiveInv' /\ TableConsistent' /\ ProtoInv'
    BY <1>1, <1>3 DEF TableInv, LiveInv, TableConsistent, ProtoInv
  <1>6. CodeMatchesTable'
    <2> SUFFICES ASSUME NEW u \in Targets
                 PROVE  code'[u] = Patch(u)'
      BY DEF CodeMatchesTable
    <2>1. CASE u = t
      BY <2>1, <1>1, <1>2, <1>4 DEF TypeOK, Patch, Halves
    <2>2. CASE u # t
      BY <2>2, <1>1, <1>3 DEF TypeOK, TableInv, CodeMatchesTable, Patch
    <2> QED
      BY <2>1, <2>2
  <1>7. HookedIsFlushed'
    BY <1>1, <1>3 DEF TableInv, HookedIsFlushed
  <1> QED
    BY <1>5, <1>6, <1>7 DEF TableInv

LEMMA RestoreAddressTable ==
    ASSUME TypeOK, CallInv, TableInv, RestoreAddress
    PROVE  TableInv'
  <1> DEFINE t == item[pos].target
  <1>1. /\ pc = "restoreAddress" /\ pc' = "release"
        /\ UNCHANGED <<item, size, proto, stale, pos>>
        /\ code' = [code EXCEPT ![t] = (@ \ {"address"}) \cup (item[pos].saved \cap {"address"})]
        /\ page' = [page EXCEPT ![item[pos].page] = NoTarget]
    BY DEF RestoreAddress, table
  <1>2. /\ pos \in Live /\ pos < size
        /\ t \in Targets
        /\ item[pos].page \in Pages
        /\ item[pos].saved = {}
        /\ \A j \in Live : item[j].target = t => j = pos
    BY <1>1, WorkedOn DEF Live, TypeOK
  <1>3. HookedTargets' = HookedTargets /\ Live' = Live
    BY <1>1 DEF HookedTargets, Live
  <1>4. code[t] = {"address"}
    BY <1>1, <1>2 DEF TableInv, CodeMatchesTable, Patch
  <1>5. LiveInv' /\ ProtoInv'
    BY <1>1, <1>3 DEF TableInv, LiveInv, ProtoInv
  <1>6. TableConsistent'
    <2>1. ASSUME NEW i \in Live, i # pos
          PROVE  page'[item[i].page] = item[i].target
      <3>1. page[item[i].page] = item[i].target /\ item[i].target # t
        BY <1>1, <1>2, <2>1 DEF TableInv, TableConsistent
      <3>2. page[item[pos].page] = t
        BY <1>1, <1>2 DEF TableInv, TableConsistent
      <3>3. item[i].page \in Pages /\ item[i].page # item[pos].page
        BY <2>1, <3>1, <3>2 DEF TableInv, LiveInv
      <3> QED
        BY <1>1, <3>1, <3>3 DEF TypeOK
    <2> QED
      BY <1>1, <1>3, <2>1 DEF TableInv, TableConsistent
  <1>7. CodeMatchesTable'
    <2> SUFFICES ASSUME NEW u \in Targets
                 PROVE  code'[u] = Patch(u)'
      BY DEF CodeMatchesTable
    <2>1. CASE u = t
      BY <2>1, <1>1, <1>2, <1>4 DEF TypeOK, Patch
    <2>2. CASE u # t
      BY <2>2, <1>1, <1>3 DEF TypeOK, TableInv, CodeMatchesTable, Patch
    <2> QED
      BY <2>1, <2>2
  <1>8. HookedIsFlushed'
    BY <1>1, <1>3 DEF TableInv, HookedIsFlushed
  <1> QED
    BY <1>5, <1>6, <1>7, <1>8 DEF TableInv

\* Deletion: entry i of the new table is entry Moved(i) of the old one, the
\* last one where the deleted one was.
Moved(i) == IF i = pos THEN size - 1 ELSE i

LEMMA ReleaseDeletes ==
    ASSUME TypeOK, CallInv, TableInv, Release
    PROVE  /\ \A i \in Live' : /\ i \in Live
                               /\ Moved(i) \in Live /\ Moved(i) # pos
                               /\ item'[i] = item[Moved(i)]
           /\ \A i, j \in Live' : Moved(i) = Moved(j) => i = j
           /\ \A k \in Live : k # pos => \E i \in Live' : Moved(i) = k
           /\ HookedTargets' = HookedTargets \ {item[pos].target}
  <1> DEFINE t == item[pos].target
  <1>1. /\ pc = "release"
        /\ item' = [item EXCEPT ![pos] = item[size - 1]]
        /\ size' = size - 1
    BY DEF Release
  <1>2. /\ pos \in Live /\ pos \in 0 .. Cap - 1 /\ size \in 1 .. Cap
        /\ t \in Targets
        /\ \A j \in Live : item[j].target = t => j = pos
    BY <1>1, WorkedOn DEF Live, TypeOK
  <1>3. /\ \A i \in Live' : /\ i \in Live
                            /\ Moved(i) \in Live /\ Moved(i) # pos
                            /\ item'[i] = item[Moved(i)]
        /\ \A i, j \in Live' : Moved(i) = Moved(j) => i = j
        /\ \A k \in Live : k # pos => \E i \in Live' : Moved(i) = k
    <2>1. Live' = 0 .. size - 2 /\ Live = 0 .. size - 1
      BY <1>1, <1>2 DEF Live
    <2>2. \A i \in Live' : item'[i] = item[Moved(i)]
      BY <1>1, <1>2, <2>1 DEF TypeOK, Moved
    <2>3. \A i \in Live' : i \in Live /\ Moved(i) \in Live /\ Moved(i) # pos
      BY <1>2, <2>1 DEF Moved
    <2>4. \A i, j \in Live' : Moved(i) = Moved(j) => i = j
      BY <1>2, <2>1 DEF Moved
    <2>5. ASSUME NEW k \in Live, k # pos
          PROVE  \E i \in Live' : Moved(i) = k
      <3>1. CASE k = size - 1
        <4>1. pos \in Live' /\ Moved(pos) = k
          BY <1>2, <2>1, <2>5, <3>1 DEF Moved
        <4> QED
          BY <4>1
      <3>2. CASE k # size - 1
        <4>1. k \in Live' /\ Moved(k) = k
          BY <1>2, <2>1, <2>5, <3>2 DEF Moved
        <4> QED
          BY <4>1
      <3> QED
        BY <3>1, <3>2
    <2> QED
      BY <2>2, <2>3, <2>4, <2>5
  <1>4. HookedTargets' = HookedTargets \ {t}
    <2> SUFFICES ASSUME NEW u \in Targets
                 PROVE  u \in HookedTargets' <=> u \in HookedTargets /\ u # t
      BY DEF HookedTargets
    <2>1. ASSUME u \in HookedTargets'
          PROVE  u \in HookedTargets /\ u # t
      <3>1. PICK i \in Live' : item'[i].target = u /\ item'[i].status = "HOOKED"
        BY <2>1 DEF HookedTargets
      <3> QED
        BY <1>2, <1>3, <3>1 DEF HookedTargets
    <2>2. ASSUME u \in HookedTargets, u # t
          PROVE  u \in HookedTargets'
      <3>1. PICK k \in Live : item[k].target = u /\ item[k].status = "HOOKED"
        BY <2>2 DEF HookedTargets
      <3>2. PICK i \in Live' : Moved(i) = k
        BY <1>3, <2>2, <3>1
      <3> QED
        BY <1>3, <3>1, <3>2 DEF HookedTargets
    <2> QED
      BY <2>1, <2>2
  <1> QED
    BY <1>3, <1>4

LEMMA ReleaseTable ==
    ASSUME TypeOK, CallInv, TableInv, Release
    PROVE  TableInv'
  <1> DEFINE t == item[pos].target
  <1>1. /\ pc = "release" /\ pc' \in {"scan", "thaw"}
        /\ UNCHANGED <<code, page, proto, pos>>
        /\ item' = [item EXCEPT ![pos] = item[size - 1]]
        /\ size' = size - 1
        /\ stale' = (stale \cup {t}) \ {item[size - 1].target}
    BY DEF Release
  <1>2. /\ pos \in Live /\ pos \in 0 .. Cap - 1 /\ size \in 1 .. Cap
        /\ t \in Targets
        /\ \A j \in Live : item[j].target = t => j = pos
    BY <1>1, WorkedOn DEF Live, TypeOK
  <1>3. /\ \A i \in Live' : /\ i \in Live
                            /\ Moved(i) \in Live /\ Moved(i) # pos
                            /\ item'[i] = item[Moved(i)]
        /\ \A i, j \in Live' : Moved(i) = Moved(j) => i = j
    BY ReleaseDeletes
  <1>4. HookedTargets' = HookedTargets \ {t}
    BY ReleaseDeletes
  <1>5. LiveInv'
    BY <1>3 DEF TableInv, LiveInv
  <1>6. TableConsistent'
    <2> SUFFICES ASSUME NEW i \in Live'
                 PROVE  /\ \A j \in Live' : item'[i].target = item'[j].target => i = j
                        /\ page'[item'[i].page] = item'[i].target
      BY <1>1 DEF TableConsistent
    <2>1. \A j \in Live' : item'[i].target = item'[j].target => i = j
      BY <1>3 DEF TableInv, TableConsistent
    <2>2. page'[item'[i].page] = item'[i].target
      BY <1>1, <1>3 DEF TableInv, TableConsistent
    <2> QED
      BY <2>1, <2>2
  <1>7. CodeMatchesTable'
    <2> SUFFICES ASSUME NEW u \in Targets
                 PROVE  code'[u] = Patch(u)'
      BY DEF CodeMatchesTable
    <2>1. Patch(u)' = IF u \in HookedTargets' THEN Halves ELSE {}
      BY <1>1 DEF Patch
    <2>2. Patch(u) = IF u = t THEN {} ELSE IF u \in HookedTargets THEN Halves ELSE {}
      BY <1>1, <1>2 DEF Patch, Live
    <2> QED
      BY <1>1, <1>4, <2>1, <2>2 DEF TableInv, CodeMatchesTable
  <1>8. ProtoInv'
    BY <1>1, <1>3 DEF TableInv, ProtoInv
  <1>9. HookedIsFlushed'
    BY <1>1, <1>4 DEF TableInv, HookedIsFlushed
  <1> QED
    BY <1>5, <1>6, <1>7, <1>8, <1>9 DEF TableInv

LEMMA CallerTable ==
    ASSUME TypeOK, CallInv, TableInv, CallerStep
    PROVE  TableInv'
  <1>1. CASE FreezeDone
    BY <1>1, TableKept DEF FreezeDone, Resume, Midst, table, memory
  <1>2. CASE Thaw
    BY <1>2, TableKept DEF Thaw, Midst, table, memory
  <1>3. CASE Reap
    BY <1>3, TableKept DEF Reap, Midst, table, memory
  <1>4. CASE Scan
    BY <1>4, TableKept DEF Scan, Midst, table, memory
  <1> QED
    BY <1>1, <1>2, <1>3, <1>4, WriteOpcodeTable, WriteAddressTable,
       RestoreOpcodeTable, RestoreAddressTable, ReleaseTable DEF CallerStep

-----------------------------------------------------------------------------
(* The theorems *)

LEMMA InitHookInv == Init => HookInv
  BY InitType, InitCall, InitTable DEF HookInv, TableInv

\* Every step of the library, the child and the threads keeps the invariant.
LEMMA StepHookInv == HookInv /\ [Next]_vars => HookInv'
  <1> SUFFICES ASSUME HookInv, [Next]_vars
               PROVE  HookInv'
    OBVIOUS
  <1>1. TypeOK /\ CallInv /\ LiveInv /\ TableInv
    BY DEF HookInv, TableInv
  <1>2. SUFFICES TypeOK' /\ CallInv' /\ TableInv'
    BY DEF HookInv, TableInv
  <1>3. CASE Request
    BY <1>1, <1>3, RequestType, RequestCall, RequestTable
  <1>4. CASE CallerStep
    BY <1>1, <1>4, CallerType, CallerCall, CallerTable
  <1>5. CASE ChildStep
    BY <1>1, <1>5, ChildType, ChildKeeps, CallKept, TableKept
  <1>6. ASSUME NEW th \in Threads, ThreadStep(th)
        PROVE  TypeOK' /\ CallInv' /\ TableInv'
    <2>1. UNCHANGED <<table, memory, call>> /\ UNCHANGED child
      BY <1>6, OthersKeep DEF tracer
    <2> QED
      BY <1>1, <1>6, <2>1, ThreadType, CallKept, TableKept
  <1>7. CASE UNCHANGED vars
    <2>1. UNCHANGED <<table, memory, call>> /\ UNCHANGED child
      BY <1>7 DEF vars, tracer
    <2>2. TypeOK'
      BY <1>1, <1>7 DEF TypeOK, vars, table, memory, call, tracer, process, history
    <2> QED
      BY <1>1, <2>1, <2>2, CallKept, TableKept
  <1> QED
    BY <1>3, <1>4, <1>5, <1>6, <1>7 DEF Next

\* The invariant of the hook library (inlineHook.c:213-416), for every number
\* of threads, targets, pages and entries.
THEOREM Invariance == Spec => []HookInv
  BY InitHookInv, StepHookInv, PTL DEF Spec

\* No variable of the library ever leaves its type (inlineHook.c:43-62).
THEOREM TypeCorrect == Spec => []TypeOK
  <1>1. HookInv => TypeOK
    BY DEF HookInv
  <1> QED
    BY <1>1, Invariance, PTL

\* Deleting by moving the last entry down neither loses nor duplicates an
\* entry, and every entry owns a mapped copy of its function
\* (inlineHook.c:225-241, 285-334).
THEOREM TableStaysConsistent == Spec => []TableConsistent
  <1>1. HookInv => TableConsistent
    BY DEF HookInv
  <1> QED
    BY <1>1, Invariance, PTL

\* A function's code is patched exactly as far as the table and the call in
\* progress say (inlineHook.c:285-298, 336-368).
THEOREM CodeStaysInStep == Spec => []CodeMatchesTable
  <1>1. HookInv => CodeMatchesTable
    BY DEF HookInv
  <1> QED
    BY <1>1, Invariance, PTL

\* The instruction cache is current for every hooked function
\* (inlineHook.c:294-297, 364-367).
THEOREM HookedStaysFlushed == Spec => []HookedIsFlushed
  <1>1. HookInv => HookedIsFlushed
    BY DEF HookInv
  <1> QED
    BY <1>1, Invariance, PTL

\* The invariant leaves a started patch no other copy than a mapped one.
LEMMA ProtoFollows == HookInv => ProtoReady
  <1>1. ASSUME HookInv, NEW t \in Chaining, "opcode" \in code[t]
        PROVE  proto[t] \in Pages /\ page[proto[t]] = t
    <2>1. t \in Targets /\ ProtoInv /\ LiveInv /\ TableConsistent
      BY <1>1 DEF HookInv
    <2>2. "opcode" \in Patch(t)
      BY <1>1, <2>1 DEF HookInv, CodeMatchesTable
    <2>3. PICK j \in Live : /\ item[j].target = t
                            /\ item[j].status = "HOOKED" \/ (pc = "address" /\ j = pos)
                            /\ ~(pc = "release" /\ j = pos)
      <3>1. CASE pos < size /\ item[pos].target = t /\ pc = "address"
        BY <1>1, <3>1 DEF HookInv, CallInv
      <3>2. CASE ~(pos < size /\ item[pos].target = t /\ pc = "address")
        <4>1. t \in HookedTargets /\ ~(pos < size /\ item[pos].target = t /\ pc = "release")
          BY <2>2, <3>2 DEF Patch
        <4>2. PICK j \in Live : item[j].target = t /\ item[j].status = "HOOKED"
          BY <4>1 DEF HookedTargets
        <4> QED
          BY <1>1, <4>1, <4>2 DEF Live, HookInv, TypeOK
      <3> QED
        BY <3>1, <3>2
    <2>4. proto[t] = item[j].page /\ item[j].page \in Pages
      BY <1>1, <2>1, <2>3 DEF ProtoInv, LiveInv
    <2>5. page[item[j].page] = t
      BY <2>1, <2>3 DEF TableConsistent
    <2> QED
      BY <2>4, <2>5
  <1> QED
    BY <1>1 DEF ProtoReady

\* Where a patch has been started, *proto_addr is a mapped copy of the function
\* (inlineHook.c:340-359).
THEOREM ProtoStaysReady == Spec => []ProtoReady
  BY ProtoFollows, Invariance, PTL

-----------------------------------------------------------------------------
(* The hook table implements HookRegistry: seen through RegistryStatus,      *)
(* registration, the second store of a patch and the deletion of an entry    *)
(* are the steps of the life cycle, and no other step is visible.            *)

\* RegistryStatus depends on the table alone.
LEMMA TableKeptStatus ==
    ASSUME UNCHANGED table
    PROVE  UNCHANGED RegistryStatus
  BY DEF table, RegistryStatus, HookedTargets, Known, Live

\* With room in the table, the registry knows fewer than Cap functions: it
\* knows no more than the table has live entries.
LEMMA RoomInRegistry ==
    ASSUME TypeOK, LiveInv, size < Cap
    PROVE  Cardinality(Registry!Known) < Cap
  <1> DEFINE owner  == [j \in Live |-> item[j].target]
             owners == {item[j].target : j \in Live}
  <1>1. IsFiniteSet(Live) /\ Cardinality(Live) = size /\ size \in Nat
    <2>1. size \in Nat /\ 0 \in Int /\ size - 1 \in Int /\ Live = 0 .. size - 1
      BY DEF TypeOK, Live
    <2>2. /\ IsFiniteSet(0 .. size - 1)
          /\ Cardinality(0 .. size - 1) = IF 0 > size - 1 THEN 0 ELSE (size - 1) - 0 + 1
      BY <2>1, FS_Interval
    <2>3. Cardinality(0 .. size - 1) = size
      BY <2>1, <2>2
    <2> QED
      BY <2>1, <2>2, <2>3
  <1>2. IsFiniteSet(owners) /\ Cardinality(owners) <= Cardinality(Live)
    <2>1. owner \in Surjection(Live, owners)
      BY DEF Surjection
    <2> QED
      BY <1>1, <2>1, FS_Surjection
  <1>3. Registry!Known \subseteq owners
    BY DEF Registry!Known, RegistryStatus, HookedTargets, Known
  <1>4. /\ IsFiniteSet(Registry!Known)
        /\ Cardinality(Registry!Known) <= Cardinality(owners)
    BY <1>2, <1>3, FS_Subset
  <1>5. Cardinality(Registry!Known) \in Nat /\ Cardinality(owners) \in Nat
    BY <1>2, <1>4, FS_CardinalityType
  <1> QED
    BY <1>1, <1>2, <1>4, <1>5

LEMMA RegisterImplements ==
    ASSUME TypeOK, LiveInv, NEW t \in Targets, Register(t)
    PROVE  Registry!Register(t) \/ UNCHANGED RegistryStatus
  <1>1. CASE size = Cap
    BY <1>1, TableKeptStatus DEF Register, TypeOK
  <1>2. CASE pc' = "overrun"
    BY <1>2, TableKeptStatus DEF Register, TypeOK
  <1>3. CASE size < Cap /\ pc' # "overrun"
    <2>1. PICK p \in Pages :
             item' = [item EXCEPT ![size] =
                   [target |-> t, page |-> p, saved |-> code[t],
                    bnd |-> Overlay(@.bnd, @.count, Layout[t].count,
                                    Layout[t].orig, Layout[t].tramp),
                    count |-> @.count + Layout[t].count,
                    status |-> "REGISTERED"]]
      BY <1>3 DEF Register, TypeOK
    <2>2. /\ ~Known(t)
          /\ item'[size].target = t
          /\ item'[size].status = "REGISTERED"
          /\ \A j \in Live : item'[j] = item[j]
          /\ Live' = Live \cup {size}
      BY <1>3, <2>1 DEF Register, TypeOK, Live
    <2>3. HookedTargets' = HookedTargets
      BY <2>2 DEF HookedTargets
    <2>4. \A u \in Targets : Known(u)' <=> Known(u) \/ u = t
      BY <2>2 DEF Known
    <2>5. t \notin HookedTargets
      BY <2>2 DEF HookedTargets, Known
    <2>6. RegistryStatus[t] = "none"
      BY <2>2, <2>5 DEF RegistryStatus
    <2>7. RegistryStatus' = [RegistryStatus EXCEPT ![t] = "registered"]
      BY <2>3, <2>4, <2>5 DEF RegistryStatus
    <2>8. Cardinality(Registry!Known) < Cap
      BY <1>3, RoomInRegistry
    <2>9. Registry!Cardinality(Registry!Known) < Cap
      BY <2>8 DEF Registry!Cardinality, Cardinality
    <2> QED
      BY <2>6, <2>7, <2>9 DEF Registry!Register
  <1> QED
    BY <1>1, <1>2, <1>3 DEF Register

\* The second store of a patch makes a registered function a hooked one.
LEMMA WriteAddressImplements ==
    ASSUME TypeOK, CallInv, TableInv, WriteAddress
    PROVE  Registry!Hook(item[pos].target)
  <1> DEFINE t == item[pos].target
  <1>1. pc = "address"
    BY DEF WriteAddress
  <1>2. /\ pos \in Live /\ t \in Targets
        /\ \A j \in Live : item[j].target = t => j = pos
        /\ item[pos].status = "REGISTERED"
    BY <1>1, WorkedOn DEF CallInv
  <1>3. t \notin HookedTargets /\ Known(t)
    BY <1>2 DEF HookedTargets, Known
  <1>4. HookedTargets' = HookedTargets \cup {t}
    BY WriteAddressMarks
  <1>5. \A u \in Targets : Known(u)' <=> Known(u)
    BY WriteAddressMarks DEF Known
  <1>6. RegistryStatus[t] = "registered"
    BY <1>2, <1>3 DEF RegistryStatus
  <1>7. RegistryStatus' = [RegistryStatus EXCEPT ![t] = "hooked"]
    BY <1>2, <1>4, <1>5 DEF RegistryStatus
  <1> QED
    BY <1>6, <1>7 DEF Registry!Hook

\* Deleting an entry makes a hooked function an unknown one.
LEMMA ReleaseImplements ==
    ASSUME TypeOK, CallInv, TableInv, Release
    PROVE  Registry!Unhook(item[pos].target)
  <1> DEFINE t == item[pos].target
  <1>1. pc = "release"
    BY DEF Release
  <1>2. /\ pos \in Live /\ t \in Targets
        /\ \A j \in Live : item[j].target = t => j = pos
        /\ item[pos].status = "HOOKED"
    BY <1>1, WorkedOn DEF CallInv
  <1>3. t \in HookedTargets
    BY <1>2 DEF HookedTargets
  <1>4. HookedTargets' = HookedTargets \ {t}
    BY ReleaseDeletes
  <1>5. ASSUME NEW u \in Targets
        PROVE  Known(u)' <=> Known(u) /\ u # t
    <2>1. ASSUME Known(u)'
          PROVE  Known(u) /\ u # t
      <3>1. PICK i \in Live' : item'[i].target = u
        BY <2>1 DEF Known
      <3> QED
        BY <1>2, <3>1, ReleaseDeletes DEF Known
    <2>2. ASSUME Known(u), u # t
          PROVE  Known(u)'
      <3>1. PICK k \in Live : item[k].target = u
        BY <2>2 DEF Known
      <3>2. PICK i \in Live' : Moved(i) = k
        BY <2>2, <3>1, ReleaseDeletes
      <3> QED
        BY <3>1, <3>2, ReleaseDeletes DEF Known
    <2> QED
      BY <2>1, <2>2
  <1>6. RegistryStatus[t] = "hooked"
    BY <1>2, <1>3 DEF RegistryStatus
  <1>7. RegistryStatus' = [RegistryStatus EXCEPT ![t] = "none"]
    BY <1>2, <1>4, <1>5 DEF RegistryStatus
  <1> QED
    BY <1>6, <1>7 DEF Registry!Unhook

-----------------------------------------------------------------------------
LEMMA InitImplements == Init => Registry!Init
  BY DEF Init, Registry!Init, RegistryStatus, HookedTargets, Known, Live

\* Every step is a step of the life cycle or leaves it alone.
LEMMA StepImplements ==
    HookInv /\ [Next]_vars => [Registry!Next]_RegistryStatus
  <1> SUFFICES ASSUME HookInv, [Next]_vars
               PROVE  Registry!Next \/ UNCHANGED RegistryStatus
    OBVIOUS
  <1>1. TypeOK /\ CallInv /\ LiveInv /\ TableInv
    BY DEF HookInv, TableInv
  <1>2. ASSUME NEW t \in Targets, Register(t)
        PROVE  Registry!Next \/ UNCHANGED RegistryStatus
    BY <1>1, <1>2, RegisterImplements DEF Registry!Next
  <1>3. ASSUME NEW o, NEW j, Freeze(o, j)
        PROVE  UNCHANGED RegistryStatus
    BY <1>3, TableKeptStatus DEF Freeze
  <1>4. CASE Request
    BY <1>2, <1>3, <1>4 DEF Request, Hook, Unhook, HookAll, UnhookAll
  <1>5. CASE WriteAddress
    <2>1. item[pos].target \in Targets
      BY <1>1, <1>5, WorkedOn DEF WriteAddress
    <2> QED
      BY <1>1, <1>5, <2>1, WriteAddressImplements DEF Registry!Next
  <1>6. CASE Release
    <2>1. item[pos].target \in Targets
      BY <1>1, <1>6, WorkedOn DEF Release
    <2> QED
      BY <1>1, <1>6, <2>1, ReleaseImplements DEF Registry!Next
  <1>7. CASE \/ FreezeDone \/ Thaw \/ Reap \/ Scan
             \/ WriteOpcode \/ RestoreOpcode \/ RestoreAddress
    <2>1. UNCHANGED table
      BY <1>7 DEF FreezeDone, Thaw, Reap, Scan, WriteOpcode, RestoreOpcode,
                  RestoreAddress, table
    <2> QED
      BY <2>1, TableKeptStatus
  <1>8. CASE ChildStep
    BY <1>8, ChildKeeps, TableKeptStatus
  <1>9. ASSUME NEW th \in Threads, ThreadStep(th)
        PROVE  UNCHANGED RegistryStatus
    BY <1>9, OthersKeep, TableKeptStatus
  <1>10. CASE UNCHANGED vars
    BY <1>10, TableKeptStatus DEF vars
  <1> QED
    BY <1>4, <1>5, <1>6, <1>7, <1>8, <1>9, <1>10 DEF Next, CallerStep

\* The hook library implements the life cycle its return codes describe
\* (inlineHook.c:213-416; inlineHook.h:11-20), for every number of threads,
\* targets, pages and entries: registered before hooked, hooked before
\* released, and never more than Cap functions at a time.
THEOREM Refinement == Spec => ImplementsRegistry
  <1>1. Init => Registry!Init
    BY InitImplements
  <1>2. HookInv /\ [Next]_vars => [Registry!Next]_RegistryStatus
    BY StepImplements
  <1> QED
    BY <1>1, <1>2, Invariance, PTL DEF Spec, ImplementsRegistry, Registry!Spec
=============================================================================
