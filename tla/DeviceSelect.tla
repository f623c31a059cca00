---------------------------- MODULE DeviceSelect ----------------------------
(***************************************************************************)
(* What deviceutils.cpp and DeviceUtils.java derive from the release of    *)
(* the system and the word size of the process: the way into the library,  *)
(* the symbol that is hooked, its replacement and the replacement's        *)
(* pointer to the original.                                                *)
(***************************************************************************)
EXTENDS Integers, Sequences

\* is_marshmallow, is_nougat, is_oreo, is_pie, is_android10, in both languages
Marshmallow == {23}
Nougat      == {24, 25}
Oreo        == {26, 27}
Pie         == {28}
Android10   == {29}

supportNativeHook(sdk) == sdk \in Nougat \cup Marshmallow \cup Oreo

\* Which of OreoDump.init and LowSdkDump.init handles a package.
UsesOreoDump(sdk) == sdk \in Oreo \cup Pie \cup Android10

\* The symbols' parameters, as their names encode them.
OpenMemory    == <<"base", "size", "location", "checksum", "mem_map", "oat", "error">>
OpenCommon    == <<"base", "size", "location", "checksum", "oat", "verify",
                   "verify_checksum", "error", "result">>
OpenCommonPie == <<"base", "size", "data_base", "data_size", "location", "checksum",
                   "oat", "verify", "verify_checksum", "error", "container", "result">>

\* Mutant of Symbol: there is none for Android 10.
SymbolNoTen(sdk) ==
    CASE sdk \in Pie                    -> OpenCommonPie
      [] sdk \in Oreo                   -> OpenCommon
      [] sdk \in Nougat \cup Marshmallow -> OpenMemory
      [] OTHER                          -> <<>>

\* get_open_function_flag; <<>> stands for the empty string.
Symbol(sdk) ==
    CASE sdk \in Pie \cup Android10      -> OpenCommonPie
      [] sdk \in Oreo                    -> OpenCommon
      [] sdk \in Nougat \cup Marshmallow -> OpenMemory
      [] OTHER                           -> <<>>

\* What a caller passes in order, as arguments: the symbols return an object,
\* and a 32-bit caller passes the address it is wanted at as the first of them.
Passed(sdk, bits) == IF bits = 32 THEN <<"result">> \o Symbol(sdk) ELSE Symbol(sdk)

\* A 64-bit caller passes that address in X8, which is no argument, and which no
\* callee preserves: neither save_dex_file nor the way to the original.
ResultIsArgument(bits) == bits = 32

\* Mutant of Replacement: the replacement for Android 9 is not selected.
ReplacementNoPie(sdk, bits) ==
    CASE bits = 64 /\ sdk \in Oreo    -> "arm64_open_common"
      [] bits = 64 /\ sdk \notin Oreo -> "arm64_open_memory"
      [] bits = 32 /\ sdk \in Oreo    -> "opencommon"
      [] bits = 32 /\ sdk \notin Oreo -> "nougat_open_memory"

\* get_new_open_function_addr
Replacement(sdk, bits) ==
    CASE bits = 64 /\ sdk \in Oreo    -> "arm64_open_common"
      [] bits = 64 /\ sdk \notin Oreo -> "arm64_open_memory"
      [] bits = 32 /\ sdk \in Oreo    -> "opencommon"
      [] bits = 32 /\ sdk \in Pie     -> "pie_open_memory"
      [] bits = 32 /\ sdk \notin Oreo \cup Pie -> "nougat_open_memory"

\* get_old_open_function_addr: whose pointer to the original, old_..., is set.
OldPointer(sdk, bits) ==
    CASE bits = 64 -> IF sdk \in Oreo THEN "arm64_open_common" ELSE "arm64_open_memory"
      [] bits = 32 -> IF sdk \in Oreo THEN "opencommon"
                      ELSE IF sdk \in Pie THEN "pie_open_memory" ELSE "nougat_open_memory"

\* The parameters a replacement declares, and passes on to the original: "result"
\* is its DexFile_thiz.
Declared ==
    [arm64_open_common  |-> OpenCommon,
     arm64_open_memory  |-> OpenMemory,
     nougat_open_memory |-> <<"result">> \o OpenMemory,
     opencommon         |-> <<"result">> \o OpenCommon,
     pie_open_memory    |-> <<"result">> \o OpenCommonPie]

Replacements == DOMAIN Declared

ArgumentsFit(sdk, bits) == Declared[Replacement(sdk, bits)] = Passed(sdk, bits)

\* The original gets all that its caller passed.
Fits(sdk, bits) == ArgumentsFit(sdk, bits) /\ ResultIsArgument(bits)
=============================================================================
