----------------------------- MODULE InlineHook -----------------------------
(***************************************************************************)
(* The 32-bit hook library (inlineHook.c): the hook table, the code and    *)
(* trampoline pages it rewrites, the forked child that freezes the other   *)
(* threads with ptrace while it does so, and the threads of the process,   *)
(* which may be anywhere in a function that is being hooked or released.   *)
(*                                                                         *)
(* One thread, Caller, uses the library.  A registration is one step (no   *)
(* other thread can see the entry before it is hooked); every other call   *)
(* is split where another process or thread can observe it.                *)
(***************************************************************************)
EXTENDS Boundaries

CONSTANTS
    Threads,      \* threads the process may have
    InitThreads,  \* threads it has at first
    Main,         \* the main thread: its tid is getpid()
    Caller,       \* the thread that calls the library
    HeapUsers,    \* threads that use malloc
    Targets,      \* the functions registered with the library
    Chaining,     \* targets registered with a proto_addr
    Pages,        \* addresses mmap may return
    Cap,          \* length of info.item
    Layout,       \* Layout[t]: how the prologue of t is relocated and patched
    Counts,       \* what the counts of entries may be when these are registered:
                  \* a bound, 0 .. TrampSlots being all there is before an overrun
    Calls,        \* which of "hook", "unhook", "hookAll", "unhookAll" are used
    Faults,       \* which of "fork", "attach", "getregs", "spawn" and "cold" may
                  \* happen: a copy, which nothing flushes, is not in the cache
    NoThread, NoTarget, NoPage

\* The two stores that make up a patch: the LDR that loads PC, and the word it
\* loads, the replacement's address.
Halves == {"opcode", "address"}

\* count instructions, number k at orig[k] in the prologue and at tramp[k] in
\* the copy; the copy's jump back at tail and the instructions inside its
\* longer replacements at inner; the instructions calls are calls; under[h] are
\* the offsets of the instructions that half h of the patch overwrites, wholly or
\* in part: the first half the first instruction, whether or not a NOP precedes
\* the LDR.
IsLayout(L) ==
    /\ L.count \in 1 .. 6
    /\ L.orig \in [0 .. L.count - 1 -> Nat]
    /\ L.tramp \in [0 .. L.count - 1 -> Nat]
    /\ L.tail \in Nat
    /\ L.inner \subseteq Nat
    /\ L.calls \subseteq {k \in 0 .. L.count - 1 : L.tramp[k] # L.tail}
    /\ L.under \in [Halves -> SUBSET Nat]
    /\ 0 \in L.under["opcode"]

ASSUME ThreadAssumption ==
    /\ {Main, Caller} \subseteq InitThreads
    /\ InitThreads \subseteq Threads
    /\ HeapUsers \subseteq Threads \ {Caller}
    /\ NoThread \notin Threads
ASSUME TargetAssumption ==
    /\ Chaining \subseteq Targets
    /\ NoTarget \notin Targets
    /\ NoPage \notin Pages
ASSUME TableAssumption ==
    /\ Cap \in Nat \ {0}
    /\ Counts \subseteq 0 .. TrampSlots
ASSUME LayoutAssumption == \A t \in Targets : IsLayout(Layout[t])

VARIABLES
    item,         \* info.item; entries from size on keep their last contents
    size,         \* info.size
    code,         \* code[t]: the halves of the patch that are in t's code
    page,         \* page[p]: the target whose copy is mapped at p
    proto,        \* proto[t]: what *proto_addr of t points to
    stale,        \* targets restored in memory but not in the instruction cache
    pc,           \* where the call in progress is
    op,           \* the call in progress
    pos,          \* the entry it works on: &info.item[i], or i of a loop
    child,        \* the forked tracer: "none", "attaching", "stopped", "detaching"
    todo,         \* tids the child has yet to attach to
    traced,       \* threads it holds stopped
    alive,        \* threads that exist
    loc,          \* where each thread executes
    heap,         \* the thread inside malloc or free
    exposed,      \* history: threads the protocol left unprotected, ...
    called        \* ... and of these the ones that were in a function called from
                  \* beneath the patch when it was written

table   == <<item, size>>
memory  == <<code, page, proto, stale>>
call    == <<pc, op, pos>>
tracer  == <<child, todo, traced>>
process == <<alive, loc, heap>>
history == <<exposed, called>>
vars    == <<table, memory, call, tracer, process, history>>

-----------------------------------------------------------------------------
(* Thread positions *)

Place(at, t, o, p) == [at |-> at, tgt |-> t, off |-> o, page |-> p]
Out               == Place("out", NoTarget, 0, NoPage)
Lost              == Place("lost", NoTarget, 0, NoPage)
AtOrig(t, o)      == Place("orig", t, o, NoPage)
AtNew(t)          == Place("new", t, 0, NoPage)
AtTramp(t, o, p)  == Place("tramp", t, o, p)

\* In a function called from the prologue of t, which returns to offset o, or from
\* the copy in page p, which returns to offset o of the page.
InCallee(t, o, p) == Place("callee", t, o, p)

Origs(t)  == {Layout[t].orig[k] : k \in 0 .. Layout[t].count - 1}
Tramps(t) == {Layout[t].tramp[k] : k \in 0 .. Layout[t].count - 1}
Points(t) == Tramps(t) \cup Layout[t].inner \cup {Layout[t].tail}

\* The offsets that the calls of the prologue are at, and those that the calls of the
\* copy return to.
CallsAt(t) == {Layout[t].orig[k] : k \in Layout[t].calls}
CopyReturns(t) ==
    {IF k + 1 < Layout[t].count THEN Layout[t].tramp[k + 1] ELSE Layout[t].tail :
        k \in Layout[t].calls}

\* The offsets up to the last instruction that the patch overwrites.
Beneath(t) == {o \in Nat : \E h \in Halves : \E y \in Layout[t].under[h] : o <= y}

\* The offset of instruction o's successor in S; empty after the last.
After(S, o) == {x \in S : x > o /\ \A y \in S : y > o => x <= y}

\* Both are the start of the same instruction of the prologue.
SameInstruction(t, o, r) ==
    \E k \in 0 .. Layout[t].count - 1 :
        Layout[t].orig[k] = o /\ Layout[t].tramp[k] = r

\* Threads that can execute code of their own: the caller is inside the call.
Running(th) == th \in alive \ (traced \cup {Caller})
Unfrozen    == {th \in Threads : Running(th)}

-----------------------------------------------------------------------------
(* The table *)

Empty == [target |-> NoTarget, page |-> NoPage, saved |-> {}, bnd |-> Blank,
          count |-> 0, status |-> "REGISTERED"]

Live == 0 .. size - 1

\* findInlineHookItem: whether it finds an entry for t, and the first one.
Known(t) == \E j \in Live : item[j].target = t
Find(t) == {j \in Live : item[j].target = t
                         /\ \A k \in 0 .. j - 1 : item[k].target # t}

\* An entry that earlier owners have left with the count c.
Used(c) == [Empty EXCEPT !.count = c, !.bnd = Left(c)]

Init ==
    /\ item \in [0 .. Cap - 1 -> {Used(c) : c \in Counts}]
    /\ size = 0
    /\ code = [t \in Targets |-> {}]
    /\ page = [p \in Pages |-> NoTarget]
    /\ proto = [t \in Targets |-> NoPage]
    /\ stale = {}
    /\ pc = "idle" /\ op = "none" /\ pos = 0
    /\ child = "none" /\ todo = {} /\ traced = {}
    /\ alive = InitThreads
    /\ loc = [th \in Threads |-> Out]
    /\ heap = NoThread
    /\ exposed = {} /\ called = {}

\* Mutant of Register: addInlineHookItem does not check for a full table.
RegisterUnchecked(t) ==
    /\ pc = "idle" /\ ~Known(t) /\ heap = NoThread
    /\ size' = size + 1
    /\ UNCHANGED <<item, memory, call, tracer, process, history>>

\* registerInlineHook.  A target already in the table is refused.  With the
\* table full addInlineHookItem returns NULL, which the next line writes
\* through.  The entry's count is not reset: relocateInstruction counts on
\* from what the last owner of the entry left, and with more than TrampSlots
\* instructions writes through the end of the arrays over the count and the
\* pointer to the copy.  What follows from that is not modelled here: the call
\* does not return.  (Relocate has the cells it writes.)
Register(t) ==
    /\ pc = "idle"
    /\ ~Known(t)
    /\ heap = NoThread
    /\ \/ /\ size = Cap
          /\ pc' = "crashed"
          /\ UNCHANGED <<table, page>>
       \/ /\ size < Cap
          /\ item[size].count \in Counts
          /\ item[size].count + Layout[t].count > TrampSlots
          /\ pc' = "overrun"
          /\ UNCHANGED <<table, page>>
       \/ /\ size < Cap
          /\ item[size].count \in Counts
          /\ item[size].count + Layout[t].count <= TrampSlots
          /\ \E p \in Pages :
                /\ page[p] = NoTarget
                /\ page' = [page EXCEPT ![p] = t]
                /\ item' = [item EXCEPT ![size] =
                      [target |-> t, page |-> p, saved |-> code[t],
                       bnd |-> Overlay(@.bnd, @.count, Layout[t].count,
                                       Layout[t].orig, Layout[t].tramp),
                       count |-> @.count + Layout[t].count,
                       status |-> "REGISTERED"]]
          /\ size' = size + 1
          /\ UNCHANGED pc
    /\ UNCHANGED <<code, proto, stale, op, pos, tracer, process, history>>

-----------------------------------------------------------------------------
(* freeze and unFreeze *)

Enabling(o) == o \in {"hook", "hookAll"}
ForAll(o)   == o \in {"hookAll", "unhookAll"}

\* Where a call goes on once freeze has returned.
Resume(o) == IF ForAll(o) THEN "scan"
             ELSE IF Enabling(o) THEN "opcode" ELSE "restoreOpcode"

\* freeze: list the tids, but for the one that equals getpid(), and fork a
\* child that attaches to them.  With no tid to attach to, or no fork, it
\* returns -1 and its caller carries on all the same.
Freeze(o, j) ==
    /\ pc = "idle"
    /\ o \in Calls
    /\ op' = o
    /\ pos' = j
    /\ \/ /\ alive \ {Main} # {}
          /\ pc' = "freezing"
          /\ child' = "attaching"
          /\ todo' = alive \ {Main}
       \/ /\ alive \ {Main} = {} \/ "fork" \in Faults
          /\ pc' = Resume(o)
          /\ UNCHANGED <<child, todo>>
    /\ UNCHANGED <<table, memory, traced, process, history>>

\* inlineHook and inlineUnHook return an error, and change nothing, when the
\* target has no entry with the status they want.
Hook(t) ==
    \E j \in Find(t) : item[j].status = "REGISTERED" /\ Freeze("hook", j)
\* Mutant of Unhook: inlineUnHook takes an entry whatever its status.
UnhookRegistered(t) == \E j \in Find(t) : Freeze("unhook", j)

Unhook(t) ==
    \E j \in Live :
        /\ item[j].target = t /\ item[j].status = "HOOKED"
        /\ \A k \in 0 .. j - 1 : item[k].target # t \/ item[k].status # "HOOKED"
        /\ Freeze("unhook", j)

HookAll   == Freeze("hookAll", 0)
UnhookAll == Freeze("unhookAll", 0)

\* The entries processThreadPC consults.
Scope == IF ForAll(op) THEN Live ELSE {pos}

\* doProcessThreadPC over the scope: where a stopped thread's PC is moved to.
\* Different entries have different targets, so at most one entry matches.
Moves(l) ==
    IF Enabling(op)
      THEN UNION {{AtTramp(l.tgt, r, item[j].page) :
                       r \in EnableOffset(item[j].bnd, item[j].count, l.off)} :
                  j \in {j \in Scope : l.at = "orig" /\ item[j].target = l.tgt}}
      ELSE UNION {{AtOrig(item[j].target, o) :
                       o \in DisableOffset(item[j].bnd, item[j].count, l.off)} :
                  j \in {j \in Scope : l.at = "tramp" /\ item[j].page = l.page}}

\* A thread moved to another instruction than the one it had reached skips or
\* repeats part of the function.
Land(l, m) ==
    IF /\ m.tgt = l.tgt
       /\ IF m.at = "tramp" THEN SameInstruction(l.tgt, l.off, m.off)
                            ELSE SameInstruction(l.tgt, m.off, l.off)
      THEN m ELSE Lost

\* The entry's boundaries cannot be relied on for l: an earlier owner of the
\* entry left its own in front of them, or those of instruction k + 4 have
\* replaced those of instruction k (see MigrationExact of Relocate).
Unreliable(e, l) ==
    \/ e.count # Layout[e.target].count
    \/ /\ e.count > OrigSlots
       /\ l.at = "orig" =>
             \E k \in 0 .. e.count - OrigSlots - 1 : Layout[e.target].orig[k] = l.off
\* Mutant of ChildAttach: the loop does not advance.
ChildAttachForever(th) ==
    /\ child = "attaching" /\ th \in todo
    /\ traced' = traced \cup {th}
    /\ UNCHANGED <<table, memory, call, child, todo, process, history>>

\* One round of the child's loop.  PTRACE_ATTACH may fail; so may GETREGS, the
\* waitpid without __WALL having returned before the thread stopped.
ChildAttach(th) ==
    /\ child = "attaching"
    /\ th \in todo
    /\ todo' = todo \ {th}
    /\ \/ /\ traced' = traced \cup {th}
          /\ \/ /\ Moves(loc[th]) = {} \/ "getregs" \in Faults
                /\ UNCHANGED <<loc, exposed>>
             \/ \E m \in Moves(loc[th]) :
                   /\ loc' = [loc EXCEPT ![th] = Land(loc[th], m)]
                   /\ exposed' = IF \E j \in Scope : Unreliable(item[j], loc[th])
                                   THEN exposed \cup {th} ELSE exposed
       \/ /\ "attach" \in Faults
          /\ UNCHANGED <<traced, loc, exposed>>
    /\ UNCHANGED <<table, memory, call, child, alive, heap, called>>

\* raise(SIGSTOP)
ChildStop ==
    /\ child = "attaching"
    /\ todo = {}
    /\ child' = "stopped"
    /\ UNCHANGED <<table, memory, call, todo, traced, process, history>>
\* Mutant of FreezeDone: the parent does not wait for the child to stop.
FreezeDoneUnwaited ==
    /\ pc = "freezing"
    /\ Caller \notin traced
    /\ pc' = Resume(op)
    /\ UNCHANGED <<table, memory, op, pos, tracer, process, history>>

\* waitpid returns in the parent, if the parent is not stopped itself.
FreezeDone ==
    /\ pc = "freezing"
    /\ child = "stopped"
    /\ Caller \notin traced
    /\ pc' = Resume(op)
    /\ UNCHANGED <<table, memory, op, pos, tracer, process, history>>
\* Mutant of Thaw: the child is not sent SIGCONT.
ThawUnsignalled ==
    /\ pc = "thaw"
    /\ IF child = "stopped" THEN pc' = "reaping" /\ UNCHANGED op
                            ELSE pc' = "idle" /\ op' = "none"
    /\ pos' = 0
    /\ UNCHANGED <<table, memory, tracer, process, history>>

\* unFreeze: kill(pid, SIGCONT), unless freeze had returned -1.
Thaw ==
    /\ pc = "thaw"
    /\ IF child = "stopped"
         THEN pc' = "reaping" /\ child' = "detaching" /\ UNCHANGED op
         ELSE pc' = "idle" /\ op' = "none" /\ UNCHANGED child
    /\ pos' = 0
    /\ UNCHANGED <<table, memory, todo, traced, process, history>>

ChildDetach(th) ==
    /\ child = "detaching"
    /\ th \in traced
    /\ traced' = traced \ {th}
    /\ UNCHANGED <<table, memory, call, child, todo, process, history>>

\* raise(SIGKILL) in the child ends wait(NULL) in the parent.
Reap ==
    /\ pc = "reaping"
    /\ traced = {}
    /\ pc' = "idle" /\ op' = "none"
    /\ child' = "none"
    /\ UNCHANGED <<table, memory, pos, todo, traced, process, history>>

-----------------------------------------------------------------------------
(* Patching and restoring *)

\* The loops of inlineHookAll and inlineUnHookAll: on to the next entry with
\* the status they work on, from index pos.
Scan ==
    LET wanted == IF Enabling(op) THEN "REGISTERED" ELSE "HOOKED"
        next   == {j \in pos .. size - 1 : item[j].status = wanted}
    IN  /\ pc = "scan"
        /\ \/ \E j \in next :
                 /\ \A k \in next : j <= k
                 /\ pos' = j
                 /\ pc' = IF Enabling(op) THEN "opcode" ELSE "restoreOpcode"
           \/ next = {} /\ pc' = "thaw" /\ UNCHANGED pos
        /\ UNCHANGED <<table, memory, op, tracer, process, history>>

\* Stopped threads whose PC is beneath t's patch, but not at its first instruction.
Midway(t) == {th \in traced : /\ loc[th].at = "orig" /\ loc[th].tgt = t
                              /\ loc[th].off \in Beneath(t) \ {0}}

\* Threads in a function that returns beneath t's patch: the child looks at the PC of
\* a thread only, never at its LR or its stack.
Calling(t) == {th \in Threads : /\ loc[th].at = "callee" /\ loc[th].page = NoPage
                                /\ loc[th].tgt = t /\ loc[th].off \in Beneath(t)}

\* Mutant of WriteOpcode: *proto_addr is set only while it is NULL.
WriteOpcodeOnce ==
    LET e == item[pos] IN
    /\ pc = "opcode"
    /\ proto' = IF e.target \in Chaining /\ proto[e.target] = NoPage
                  THEN [proto EXCEPT ![e.target] = e.page] ELSE proto
    /\ code' = [code EXCEPT ![e.target] = @ \cup {"opcode"}]
    /\ exposed' = exposed \cup Unfrozen \cup Midway(e.target) \cup Calling(e.target)
    /\ called' = called \cup Calling(e.target)
    /\ pc' = "address"
    /\ UNCHANGED <<table, page, stale, op, pos, tracer, process>>

\* doInlineHook, first half: publish the copy, then store the LDR.
WriteOpcode ==
    LET e == item[pos] IN
    /\ pc = "opcode"
    /\ proto' = IF e.target \in Chaining THEN [proto EXCEPT ![e.target] = e.page]
                                         ELSE proto
    /\ code' = [code EXCEPT ![e.target] = @ \cup {"opcode"}]
    /\ exposed' = exposed \cup Unfrozen \cup Midway(e.target) \cup Calling(e.target)
    /\ called' = called \cup Calling(e.target)
    /\ pc' = "address"
    /\ UNCHANGED <<table, page, stale, op, pos, tracer, process>>
\* Mutant of WriteAddress: status is not set to HOOKED.
WriteAddressUnmarked ==
    LET t == item[pos].target IN
    /\ pc = "address"
    /\ code' = [code EXCEPT ![t] = @ \cup {"address"}]
    /\ stale' = stale \ {t}
    /\ IF ForAll(op) THEN pc' = "scan" /\ pos' = pos + 1
                     ELSE pc' = "thaw" /\ UNCHANGED pos
    /\ UNCHANGED <<table, page, proto, op, tracer, process, history>>
\* Mutant of WriteAddress: the patch is not flushed.
WriteAddressUnflushed ==
    LET t == item[pos].target IN
    /\ pc = "address"
    /\ code' = [code EXCEPT ![t] = @ \cup {"address"}]
    /\ item' = [item EXCEPT ![pos].status = "HOOKED"]
    /\ IF ForAll(op) THEN pc' = "scan" /\ pos' = pos + 1
                     ELSE pc' = "thaw" /\ UNCHANGED pos
    /\ UNCHANGED <<size, page, proto, stale, op, tracer, process, history>>

\* doInlineHook, second half: store the address, mark the entry, flush.
WriteAddress ==
    LET t == item[pos].target IN
    /\ pc = "address"
    /\ code' = [code EXCEPT ![t] = @ \cup {"address"}]
    /\ item' = [item EXCEPT ![pos].status = "HOOKED"]
    /\ stale' = stale \ {t}
    /\ IF ForAll(op) THEN pc' = "scan" /\ pos' = pos + 1
                     ELSE pc' = "thaw" /\ UNCHANGED pos
    /\ UNCHANGED <<size, page, proto, op, tracer, process, history>>

\* Threads for which an entry is released too early: in the replacement, which
\* still calls through *proto_addr, or in the copy and not moved out of it, or in a
\* function that returns there.
Inside(e) ==
    {th \in traced : \/ loc[th].at \in {"tramp", "callee"} /\ loc[th].page = e.page
                     \/ loc[th].at = "new" /\ loc[th].tgt = e.target}

\* doInlineUnHook: memcpy the saved instructions back, first half, ...
RestoreOpcode ==
    LET e == item[pos] IN
    /\ pc = "restoreOpcode"
    /\ code' = [code EXCEPT ![e.target] =
                    (@ \ {"opcode"}) \cup (e.saved \cap {"opcode"})]
    /\ exposed' = exposed \cup Unfrozen \cup Inside(e)
    /\ pc' = "restoreAddress"
    /\ UNCHANGED <<table, page, proto, stale, op, pos, tracer, process, called>>
\* Mutant of RestoreAddress: the copy is unmapped after the deletion, through the
\* same pointer.
RestoreAddressOfLast ==
    LET e == item[pos] IN
    /\ pc = "restoreAddress"
    /\ code' = [code EXCEPT ![e.target] = @ \ {"address"}]
    /\ page' = [page EXCEPT ![item[size - 1].page] = NoTarget]
    /\ pc' = "release"
    /\ UNCHANGED <<table, proto, stale, op, pos, tracer, process, history>>

\* ... second half, and unmap the copy.  *proto_addr keeps pointing to it.
RestoreAddress ==
    LET e == item[pos] IN
    /\ pc = "restoreAddress"
    /\ code' = [code EXCEPT ![e.target] =
                    (@ \ {"address"}) \cup (e.saved \cap {"address"})]
    /\ page' = [page EXCEPT ![e.page] = NoTarget]
    /\ pc' = "release"
    /\ UNCHANGED <<table, proto, stale, op, pos, tracer, process, history>>
\* Mutant of Release: inlineUnHookAll does not step back after a deletion.
ReleaseSkipping ==
    LET t == item[pos].target IN
    /\ pc = "release" /\ heap = NoThread
    /\ item' = [item EXCEPT ![pos] = item[size - 1]]
    /\ size' = size - 1
    /\ stale' = (stale \cup {t}) \ {item[size - 1].target}
    /\ IF ForAll(op) THEN pc' = "scan" /\ pos' = pos + 1
                     ELSE pc' = "thaw" /\ UNCHANGED pos
    /\ UNCHANGED <<code, page, proto, op, tracer, process, history>>
\* Mutant of Release: deleteInlineHookItem drops the last entry instead of entry pos.
ReleaseLast ==
    LET t == item[pos].target IN
    /\ pc = "release" /\ heap = NoThread
    /\ size' = size - 1
    /\ stale' = (stale \cup {t}) \ {item[size - 1].target}
    /\ pc' = IF ForAll(op) THEN "scan" ELSE "thaw"
    /\ UNCHANGED <<item, code, page, proto, op, pos, tracer, process, history>>

\* free(orig_instructions), deleteInlineHookItem(pos), and the flush, whose
\* item pointer now holds the entry that deletion moved to pos.
Release ==
    LET t    == item[pos].target
        last == item[size - 1]
    IN  /\ pc = "release"
        /\ heap = NoThread
        /\ item' = [item EXCEPT ![pos] = last]
        /\ size' = size - 1
        /\ stale' = (stale \cup {t}) \ {last.target}
        /\ pc' = IF ForAll(op) THEN "scan" ELSE "thaw"
        /\ UNCHANGED <<code, page, proto, op, pos, tracer, process, history>>

-----------------------------------------------------------------------------
(* The other threads *)

MoveTo(th, l) ==
    /\ loc' = [loc EXCEPT ![th] = l]
    /\ UNCHANGED <<table, memory, call, tracer, alive, heap, called>>

Enter(th, t) ==
    /\ Running(th) /\ loc[th] = Out /\ heap # th
    /\ MoveTo(th, AtOrig(t, 0))
    /\ UNCHANGED exposed

\* A thread fetches what is in memory or, from a stale line, the whole patch.
\* The whole patch at offset 0 jumps to the replacement; any other instruction
\* that a half of it overlaps is garbage.  What the last instruction leads to, or
\* calls, is out of the patch's reach.
Fetched(t) == {code[t]} \cup (IF t \in stale THEN {Halves} ELSE {})

ExecOrig(th) ==
    LET t == loc[th].tgt
        o == loc[th].off
    IN  /\ Running(th) /\ loc[th].at = "orig"
        /\ \E seen \in Fetched(t) :
              /\ \/ seen = Halves /\ o = 0 /\ MoveTo(th, AtNew(t))
                 \/ /\ seen # Halves \/ o # 0
                    /\ \E h \in seen : o \in Layout[t].under[h]
                    /\ MoveTo(th, Lost)
                 \/ /\ \A h \in seen : o \notin Layout[t].under[h]
                    /\ \/ \E x \in After(Origs(t), o) :
                             MoveTo(th, IF o \in CallsAt(t) THEN InCallee(t, x, NoPage)
                                                            ELSE AtOrig(t, x))
                       \/ After(Origs(t), o) = {} /\ MoveTo(th, Out)
              /\ exposed' = IF seen # code[t] THEN exposed \cup {th} ELSE exposed

\* The replacement returns at once, or calls the original through *proto_addr.
ExecNew(th) ==
    LET t == loc[th].tgt IN
    /\ Running(th) /\ loc[th].at = "new"
    /\ \/ t \notin Chaining /\ MoveTo(th, Out)
       \/ /\ t \in Chaining
          /\ IF proto[t] \in Pages /\ page[proto[t]] = t
               THEN MoveTo(th, AtTramp(t, 0, proto[t]))
               ELSE MoveTo(th, Lost)
    /\ UNCHANGED exposed

\* One instruction of the copy; the jump back leads behind the patch.  The page
\* is not flushed when the copy is written to it: the cache may still have zeros.
ExecTramp(th) ==
    LET l == loc[th] IN
    /\ Running(th) /\ l.at = "tramp"
    /\ \/ /\ \/ page[l.page] # l.tgt /\ MoveTo(th, Lost)
             \/ /\ page[l.page] = l.tgt
                /\ \/ l.off = Layout[l.tgt].tail /\ MoveTo(th, Out)
                   \/ /\ l.off # Layout[l.tgt].tail
                      /\ \E x \in After(Points(l.tgt), l.off) :
                            MoveTo(th, IF x \in CopyReturns(l.tgt)
                                         THEN InCallee(l.tgt, x, l.page)
                                         ELSE AtTramp(l.tgt, x, l.page))
          /\ UNCHANGED exposed
       \/ /\ "cold" \in Faults
          /\ MoveTo(th, Lost)
          /\ exposed' = exposed \cup {th}

\* A function that the prologue or the copy called returns.
Return(th) ==
    LET l == loc[th] IN
    /\ Running(th) /\ l.at = "callee"
    /\ MoveTo(th, IF l.page = NoPage THEN AtOrig(l.tgt, l.off)
                                     ELSE AtTramp(l.tgt, l.off, l.page))
    /\ UNCHANGED exposed

HeapLock(th) ==
    /\ th \in HeapUsers
    /\ Running(th) /\ loc[th] = Out
    /\ heap = NoThread
    /\ heap' = th
    /\ UNCHANGED <<table, memory, call, tracer, alive, loc, history>>

HeapUnlock(th) ==
    /\ Running(th) /\ heap = th
    /\ heap' = NoThread
    /\ UNCHANGED <<table, memory, call, tracer, alive, loc, history>>

\* A thread that no snapshot of the tids contains.
Spawn(th) ==
    /\ "spawn" \in Faults
    /\ th \notin alive
    /\ alive' = alive \cup {th}
    /\ exposed' = IF pc \in {"address", "restoreAddress"} THEN exposed \cup {th}
                                                          ELSE exposed
    /\ UNCHANGED <<table, memory, call, tracer, loc, heap, called>>

-----------------------------------------------------------------------------
Request == \/ \E t \in Targets : Register(t) \/ Hook(t) \/ Unhook(t)
           \/ HookAll
           \/ UnhookAll

CallerStep == \/ FreezeDone \/ Thaw \/ Reap \/ Scan
              \/ WriteOpcode \/ WriteAddress
              \/ RestoreOpcode \/ RestoreAddress \/ Release

ChildStep == \/ ChildStop
             \/ \E th \in Threads : ChildAttach(th) \/ ChildDetach(th)

ThreadStep(th) == \/ \E t \in Targets : Enter(th, t)
                  \/ ExecOrig(th) \/ ExecNew(th) \/ ExecTramp(th) \/ Return(th)
                  \/ HeapLock(th) \/ HeapUnlock(th) \/ Spawn(th)

Next == Request \/ CallerStep \/ ChildStep \/ \E th \in Threads : ThreadStep(th)

Spec == Init /\ [][Next]_vars

\* The kernel schedules the caller and the child; no call is ever forced to be
\* made, and of the other threads only the holder of the allocator's lock is
\* assumed to go on, while it is allowed to run.  A caller that waits for the
\* lock in free gets it once it has been released often enough.
Fairness == /\ WF_vars(CallerStep)
            /\ SF_vars(Release)
            /\ WF_vars(ChildStep)
            /\ \A th \in Threads : WF_vars(HeapUnlock(th))

FairSpec == Spec /\ Fairness

-----------------------------------------------------------------------------
(* Safety *)

Entries == [target : Targets \cup {NoTarget}, page : Pages \cup {NoPage},
            saved : SUBSET Halves, bnd : Block, count : 0 .. TrampSlots,
            status : {"REGISTERED", "HOOKED"}]

Places == [at : {"out", "lost"}, tgt : {NoTarget}, off : {0}, page : {NoPage}]
          \cup [at : {"orig", "new"}, tgt : Targets, off : Nat, page : {NoPage}]
          \cup [at : {"tramp"}, tgt : Targets, off : Nat, page : Pages]
          \cup [at : {"callee"}, tgt : Targets, off : Nat, page : Pages \cup {NoPage}]

\* Type invariant of the library's state (inlineHook.c:43-62, 142-184).
TypeOK ==
    /\ item \in [0 .. Cap - 1 -> Entries]
    /\ size \in 0 .. Cap
    /\ code \in [Targets -> SUBSET Halves]
    /\ page \in [Pages -> Targets \cup {NoTarget}]
    /\ proto \in [Targets -> Pages \cup {NoPage}]
    /\ stale \subseteq Targets
    /\ pc \in {"idle", "freezing", "scan", "opcode", "address", "restoreOpcode",
               "restoreAddress", "release", "thaw", "reaping", "crashed", "overrun"}
    /\ op \in {"none", "hook", "unhook", "hookAll", "unhookAll"}
    /\ pos \in 0 .. Cap
    /\ child \in {"none", "attaching", "stopped", "detaching"}
    /\ todo \subseteq Threads
    /\ traced \subseteq Threads
    /\ alive \subseteq Threads
    /\ loc \in [Threads -> Places]
    /\ heap \in Threads \cup {NoThread}
    /\ exposed \subseteq Threads
    /\ called \subseteq Threads

\* A function is never in the table twice, and the copy an entry points to is
\* mapped and is that function's: deletion by moving the last entry down, and
\* deletion inside the loop of inlineUnHookAll, lose or duplicate no entry
\* (inlineHook.c:213-241, 291-294, 326-331).
TableConsistent ==
    \A i \in Live :
        /\ \A j \in Live : item[i].target = item[j].target => i = j
        /\ ~(pc = "release" /\ i = pos) => page[item[i].page] = item[i].target

HookedTargets == {t \in Targets : \E j \in Live : item[j].target = t
                                                /\ item[j].status = "HOOKED"}

\* The halves of the patch that should be in t's code: those of the table,
\* but for the entry a call is in the middle of.
Patch(t) ==
    IF pos < size /\ item[pos].target = t /\ pc = "address" THEN {"opcode"}
    ELSE IF pos < size /\ item[pos].target = t /\ pc = "restoreAddress" THEN {"address"}
    ELSE IF pos < size /\ item[pos].target = t /\ pc = "release" THEN {}
    ELSE IF t \in HookedTargets THEN Halves ELSE {}

\* A function's code carries the patch exactly while the table says that it is
\* hooked: no registration ever saves patched code as the original, and no
\* release leaves a function patched that the table no longer knows
\* (inlineHook.c:271, 288, 336-368).
CodeMatchesTable == \A t \in Targets : code[t] = Patch(t)

\* From the first store of a patch on, and until its first store is undone, a
\* replacement that calls the original finds *proto_addr set to a mapped copy
\* of the right function, even if the target was hooked before and its old
\* copy is gone (inlineHook.c:340-359).
ProtoReady ==
    \A t \in Chaining : "opcode" \in code[t] =>
        proto[t] \in Pages /\ page[proto[t]] = t

\* The instruction cache is never stale for a hooked function: the flush that
\* deletion misdirects to the moved entry is made up for when that function
\* is hooked again (inlineHook.c:294-297, 366).
HookedIsFlushed == stale \cap HookedTargets = {}

\* Hooking derails no thread that was in the function itself: whatever it was
\* doing there, it goes on with the instruction it had reached, in place or in the
\* copy, also when the copy calls another function.  The only threads that derail
\* had left the prologue for a function that it calls, and return beneath the patch
\* (inlineHook.c:93-175, 336-368).
OnlyReturnersLost == \A th \in Threads : loc[th].at = "lost" => th \in called

\* When attaching, reading the registers or forking fails, when threads are
\* born during a freeze, and when functions are released again, only threads
\* that the protocol left unprotected derail: they ran on while code was
\* written, they were in a function that returns beneath a patch, they were inside
\* a copy or a replacement that was released, or in a function that returns to the
\* copy, they were moved by the boundaries of an earlier owner of the entry, or they
\* fetched a stale patch or a copy that is not in the cache (inlineHook.c:99-104,
\* 152-172, 276-278, 291-297).
LostOnlyIfExposed == \A th \in Threads : loc[th].at = "lost" => th \in exposed

\* inlineHookAll leaves no entry registered and inlineUnHookAll none hooked,
\* although the latter deletes entries of the array it walks
\* (inlineHook.c:326-331, 409-413).
AllMeansAll ==
    [][/\ op = "hookAll" /\ op' = "none" =>
             \A j \in Live' : item'[j].status = "HOOKED"
       /\ op = "unhookAll" /\ op' = "none" =>
             \A j \in Live' : item'[j].status = "REGISTERED"]_vars

(***************************************************************************)
(* The inductive invariant behind these.                                   *)
(***************************************************************************)

\* A call that works on an entry works on a live one, in the status it wants.
CallInv ==
    /\ pc \in {"opcode", "address"} =>
          pos \in Live /\ Enabling(op) /\ item[pos].status = "REGISTERED"
    /\ pc \in {"restoreOpcode", "restoreAddress", "release"} =>
          pos \in Live /\ op \in {"unhook", "unhookAll"} /\ item[pos].status = "HOOKED"
    /\ pc = "scan" => ForAll(op)
    /\ pc = "freezing" =>
          /\ op # "none"
          /\ op = "hook" => pos \in Live /\ item[pos].status = "REGISTERED"
          /\ op = "unhook" => pos \in Live /\ item[pos].status = "HOOKED"
    /\ child = "attaching" => pc = "freezing"

\* A live entry is complete, and what it saved was never a patch.
LiveInv ==
    \A j \in Live : /\ item[j].target \in Targets
                    /\ item[j].page \in Pages
                    /\ item[j].saved = {}

\* *proto_addr of a hooked entry, or of one half way there, is its copy.
ProtoInv ==
    \A j \in Live :
        /\ item[j].target \in Chaining
        /\ item[j].status = "HOOKED" \/ (pc = "address" /\ j = pos)
        => proto[item[j].target] = item[j].page

\* Inductive: what every step of the library keeps of its table, its code and
\* its copies (inlineHook.c:213-416).
HookInv ==
    /\ TypeOK
    /\ CallInv
    /\ LiveInv
    /\ TableConsistent
    /\ CodeMatchesTable
    /\ ProtoInv
    /\ HookedIsFlushed

(***************************************************************************)
(* The table implements HookRegistry.                                      *)
(***************************************************************************)
RegistryStatus ==
    [t \in Targets |->
        IF t \in HookedTargets THEN "hooked"
        ELSE IF Known(t) THEN "registered" ELSE "none"]

Registry == INSTANCE HookRegistry WITH status <- RegistryStatus

\* Every step of the library, seen through the table, is a step of the life
\* cycle that the return codes describe, or none at all (inlineHook.c:213-416;
\* inlineHook.h:11-20).
ImplementsRegistry == Registry!Spec

(* Liveness *)

Busy == pc \notin {"idle", "crashed", "overrun"}

\* Where a call can hang: the child has stopped the very thread that waits for
\* it, or free() waits for a lock whose holder the child has stopped.
Wedged == \/ pc = "freezing" /\ Caller \in traced
          \/ pc = "release" /\ heap \in traced

\* A hooking call from the main thread returns, with every thread it stopped
\* running again (inlineHook.c:142-184, 370-416).
CallReturns == Busy ~> (pc = "idle" /\ traced = {})

\* Any call returns likewise, unless it wedges itself (inlineHook.c:84-86,
\* 142-184, 285-298).
CallReturnsOrWedged == Busy ~> (Wedged \/ (pc = "idle" /\ traced = {}))
=============================================================================
