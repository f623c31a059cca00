---------------------------- MODULE HookRegistry ----------------------------
(***************************************************************************)
(* What the hook table promises its callers, without the table: every      *)
(* function is unknown, registered or hooked; registration comes first,    *)
(* only a registered function is hooked, only a hooked one is released,    *)
(* and no more than Cap functions are known at a time.  The life cycle is  *)
(* the one the return codes of inlineHook.h name.                          *)
(***************************************************************************)
EXTENDS Integers, FiniteSets

CONSTANTS
    Targets,      \* the functions that can be hooked
    Cap           \* how many can be in the table at a time

VARIABLE
    status        \* status[t]: "none", "registered" or "hooked"

Known == {t \in Targets : status[t] # "none"}

Init == status = [t \in Targets |-> "none"]

\* registerInlineHook returns ELE7EN_OK
Register(t) ==
    /\ status[t] = "none"
    /\ Cardinality(Known) < Cap
    /\ status' = [status EXCEPT ![t] = "registered"]

\* inlineHook, or one round of inlineHookAll
Hook(t) ==
    /\ status[t] = "registered"
    /\ status' = [status EXCEPT ![t] = "hooked"]

\* inlineUnHook, or one round of inlineUnHookAll
Unhook(t) ==
    /\ status[t] = "hooked"
    /\ status' = [status EXCEPT ![t] = "none"]

Next == \E t \in Targets : Register(t) \/ Hook(t) \/ Unhook(t)

Spec == Init /\ [][Next]_status
=============================================================================
