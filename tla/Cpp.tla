-------------------------------- MODULE Cpp ---------------------------------
(***************************************************************************)
(* A translation unit that includes the MSX headers, one #include at a     *)
(* time, in any order and any number of times. The state is what the C     *)
(* preprocessor knows after the includes so far: the macro table and the   *)
(* identifiers the headers have declared. Each header is the directive     *)
(* list of MsxHeaders, processed in source order behind its include guard. *)
(*                                                                         *)
(* The directive semantics are those of ISO C 6.10.3 (the HI-TECH C        *)
(* preprocessor follows them): a macro may be redefined only by an         *)
(* identical definition; an object-like macro replaces every later token   *)
(* with its name; a function-like one only a name followed by "(", after   *)
(* its arguments have been collected and counted, and before they are      *)
(* expanded; while a macro's replacement is rescanned its own name is not  *)
(* replaced again.                                                         *)
(***************************************************************************)
EXTENDS MsxHeaders, FiniteSets
LOCAL INSTANCE SequencesExt

CONSTANTS
    HeaderNames,   \* the headers a translation unit may include
    MaxIncludes,   \* bound on the number of #include lines
    LibraryNames   \* functions of the C library the macros call (outp, inp)

VARIABLES
    tu,      \* the #include lines processed so far, in order
    macros,  \* macro name -> its current #define
    decls,   \* identifiers declared (prototypes, typedef names, members)
    defs     \* every #define processed so far (history, for redefinitions)

vars == <<tu, macros, decls, defs>>

Header(h) ==
    CASE h = "slot.h"    -> SlotH
      [] h = "rom.h"     -> RomH
      [] h = "system.h"  -> SystemH
      [] h = "bios.h"    -> BiosH
      [] h = "vdp.h"     -> VdpH
      [] h = "psg.h"     -> PsgH
      [] h = "sprite.h"  -> SpriteH
      [] h = "keycode.h" -> KeycodeH
      [] h = "msxdos.h"  -> MsxdosH

\* #ifndef G / #define G: the first directive of every header defines G.
GuardOf(h) == Header(h)[1].name

\* The directives of a header, processed in source order: each #define
\* replaces the table entry of its name, so the last one of a name wins;
\* each declaration adds its names.
DefinesIn(hs) == {i \in DOMAIN hs : hs[i].op = "define"}
DefinedNames(hs) == {hs[i].name : i \in DefinesIn(hs)}
LastDefine(hs, n) ==
    hs[CHOOSE i \in DefinesIn(hs) :
          /\ hs[i].name = n
          /\ \A j \in DefinesIn(hs) : j > i => hs[j].name # n]
DeclaredIn(hs) == UNION {hs[i].names : i \in DOMAIN hs \ DefinesIn(hs)}

Init ==
    /\ tu = <<>>
    /\ macros = [n \in {} |-> Guard(n)]
    /\ decls = {}
    /\ defs = {}

\* #include "h" when its guard macro is already defined: the body is skipped.
IncludeGuarded(h) ==
    /\ Len(tu) < MaxIncludes
    /\ GuardOf(h) \in DOMAIN macros
    /\ tu' = Append(tu, h)
    /\ UNCHANGED <<macros, decls, defs>>

\* #include "h" for the first time: every directive, in source order.
IncludeFirst(h) ==
    /\ Len(tu) < MaxIncludes
    /\ GuardOf(h) \notin DOMAIN macros
    /\ tu' = Append(tu, h)
    /\ LET hs == Header(h)
       IN /\ macros' = [n \in DOMAIN macros \cup DefinedNames(hs) |->
                          IF n \in DefinedNames(hs) THEN LastDefine(hs, n)
                                                    ELSE macros[n]]
          /\ decls' = decls \cup DeclaredIn(hs)
          /\ defs' = defs \cup {hs[i] : i \in DefinesIn(hs)}

Next == \E h \in HeaderNames : IncludeFirst(h) \/ IncludeGuarded(h)

Spec == Init /\ [][Next]_vars

-----------------------------------------------------------------------------
(* Macro expansion of a token sequence under the table m, with hide set H. *)

ArityError(f) == [k |-> "arity", name |-> f, args |-> <<>>]

\* Replace each parameter of macro d in body by the matching argument.
RECURSIVE SubstSeq(_, _, _)
SubstSeq(body, d, as) ==
    IF body = <<>> THEN <<>>
    ELSE LET t == Head(body)
             ps == {i \in DOMAIN d.params : d.params[i] = t.name}
         IN (IF t.k = "id" /\ ps # {}
             THEN as[CHOOSE i \in ps : TRUE]
             ELSE <<[t EXCEPT !.args = [j \in DOMAIN @ |->
                                          SubstSeq(@[j], d, as)]]>>)
            \o SubstSeq(Tail(body), d, as)

RECURSIVE ExpandSeq(_, _, _), ExpandTerm(_, _, _)
ExpandSeq(s, H, m) ==
    IF s = <<>> THEN <<>> ELSE ExpandTerm(Head(s), H, m) \o ExpandSeq(Tail(s), H, m)

ExpandArgs(t, H, m) == [j \in DOMAIN t.args |-> ExpandSeq(t.args[j], H, m)]

ExpandTerm(t, H, m) ==
    LET isMacro == t.k \in {"id", "call"} /\ t.name \in DOMAIN m /\ t.name \notin H
        d == m[t.name]
    IN CASE isMacro /\ ~d.fn ->
              \* object-like: the body, rescanned; a following "(...)" stays
              ExpandSeq(d.body, H \cup {t.name}, m)
              \o (IF t.k = "call"
                  THEN <<[k |-> "group", name |-> "", args |-> ExpandArgs(t, H, m)]>>
                  ELSE <<>>)
         [] isMacro /\ d.fn /\ t.k = "call" ->
              IF Len(t.args) # Len(d.params)
              THEN <<ArityError(t.name)>>
              ELSE ExpandSeq(SubstSeq(d.body, d, ExpandArgs(t, H, m)),
                             H \cup {t.name}, m)
         [] OTHER -> <<[t EXCEPT !.args = ExpandArgs(t, H, m)]>>

\* A use of macro n in program text: NAME, or NAME(p1, ..., pk) with its own
\* parameter names standing for distinct, already declared arguments.
Invoke(n, m) ==
    IF m[n].fn
    THEN ExpandTerm(Call(n, [i \in DOMAIN m[n].params |-> <<Lit(m[n].params[i])>>]), {}, m)
    ELSE ExpandTerm(Id(n), {}, m)

RECURSIVE TermsOf(_)
TermsOf(s) ==
    IF s = <<>> THEN {}
    ELSE {Head(s)} \cup UNION {TermsOf(a) : a \in ToSet(Head(s).args)}
             \cup TermsOf(Tail(s))

\* Identifiers the compiler sees after expansion.
NamesOf(s) == {t.name : t \in {u \in TermsOf(s) : u.k \in {"id", "call"}}}

-----------------------------------------------------------------------------
(* Properties *)

\* Every header defines a macro it shares with another header, or defines
\* twice itself, with the same kind, parameters and replacement list:
\* otherwise the second #define is a constraint violation (ISO C 6.10.3p2)
\* and the meaning of the name depends on include order.
NoConflictingRedefinition ==
    \A d1, d2 \in defs : d1.name = d2.name => d1 = d2

\* No name a header declares (a function, a typedef, a struct member) is an
\* object-like macro: that macro would rewrite the declaration and every use.
NoDeclarationShadowed ==
    \A n \in decls : ~(n \in DOMAIN macros /\ ~macros[n].fn)

\* Every function-like macro a header's macro calls receives as many
\* arguments as it has parameters, counted before the arguments expand.
MacroArgumentsMatch ==
    \A n \in DOMAIN macros :
        \A t \in TermsOf(Invoke(n, macros)) : t.k # "arity"

\* After expansion, every identifier a macro leaves for the compiler is one
\* the included headers declare or a C library function; a macro name left
\* over (one the rescan did not replace) is not.
MacroNamesResolve ==
    \A n \in DOMAIN macros :
        NamesOf(Invoke(n, macros)) \subseteq decls \cup LibraryNames

\* A translation unit may include any of the headers in any order: all four
\* of the above hold together, whichever headers it includes.
HeadersCompose ==
    /\ NoConflictingRedefinition /\ NoDeclarationShadowed
    /\ MacroArgumentsMatch /\ MacroNamesResolve

=============================================================================
