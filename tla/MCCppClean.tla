----------------------------- MODULE MCCppClean ------------------------------
(***************************************************************************)
(* Translation units over several sets of headers at once: a unit is      *)
(* built from one of Units, chosen at the start, and includes its headers *)
(* in every order (Cpp with HeaderNames the chosen set).                  *)
(***************************************************************************)
CONSTANTS Units, MaxIncludes, LibraryNames

VARIABLES unit, tu, macros, decls, defs

C(hs) == INSTANCE Cpp WITH HeaderNames <- hs

Init == unit \in Units /\ C(unit)!Init
Next == C(unit)!Next /\ UNCHANGED unit
Spec == Init /\ [][Next]_<<unit, tu, macros, decls, defs>>

\* The four preprocessor properties of Cpp, whichever unit is chosen.
NoConflictingRedefinition == C(unit)!NoConflictingRedefinition
NoDeclarationShadowed == C(unit)!NoDeclarationShadowed
MacroArgumentsMatch == C(unit)!MacroArgumentsMatch
MacroNamesResolve == C(unit)!MacroNamesResolve

=============================================================================
