------------------------------ MODULE WorkArea ------------------------------
(***************************************************************************)
(* The system work area of system.h: each #define names an address in     *)
(* page-3 RAM, and its comment gives the width of the variable there (a   *)
(* "(word)" is 2 bytes, "(N bytes)" is N, anything else 1). A program     *)
(* reads and writes the variables with PEEK/POKE and PEEKW/POKEW through  *)
(* those names, and the VSYNC interrupt increments JIFFY. The state is    *)
(* the bytes of RAM under the names used, plus, as a ghost, the value the *)
(* program last stored through each name.                                 *)
(***************************************************************************)
EXTENDS Integers, Sequences, TLC

CONSTANTS
    Names,        \* the work-area names the program uses
    ByteValues,   \* values stored with POKE
    WordValues,   \* values stored with POKEW
    MaxJiffy,     \* bound on JIFFY for the interrupt's increment
    TimerLoads    \* how the build loads PEEKW(JIFFY): subset of
                  \* {"word", "low", "high"} (one LD HL,(nn), or two byte
                  \* loads, low or high byte first)

V(n, a, w) == [name |-> n, addr |-> a, width |-> w]

\* system.h 53-57
ScreenSettings ==
    {V("LINL40", \hF3AE, 1), V("LINL32", \hF3AF, 1), V("LINLEN", \hF3B0, 1),
     V("CRTCNT", \hF3B1, 1), V("CLMLST", \hF3B2, 1)}

\* system.h 64-89, 0xF3B3 .. 0xF3D9, every entry a "(word)"
VramTablesT32ColTypo ==
    {V(n[1], n[2], 2) :
       n \in {<<"TXTNAM", \hF3B3>>, <<"TXTCOL", \hF3B5>>, <<"TXTCGP", \hF3B7>>,
              <<"TXTATR", \hF3B9>>, <<"TXTPAT", \hF3BB>>,
              <<"T32NAM", \hF3BD>>, <<"T32COL", \hF3BE>>, <<"T32CGP", \hF3C1>>,
              <<"T32ATR", \hF3C3>>, <<"T32PAT", \hF3C5>>,
              <<"GRPNAM", \hF3C7>>, <<"GRPCOL", \hF3C9>>, <<"GRPCGP", \hF3CB>>,
              <<"GRPATR", \hF3CD>>, <<"GRPPAT", \hF3CF>>,
              <<"MLTNAM", \hF3D1>>, <<"MLTCOL", \hF3D3>>, <<"MLTCGP", \hF3D5>>,
              <<"MLTATR", \hF3D7>>, <<"MLTPAT", \hF3D9>>}}
VramTables ==
    {V(n[1], n[2], 2) :
       n \in {<<"TXTNAM", \hF3B3>>, <<"TXTCOL", \hF3B5>>, <<"TXTCGP", \hF3B7>>,
              <<"TXTATR", \hF3B9>>, <<"TXTPAT", \hF3BB>>,
              <<"T32NAM", \hF3BD>>, <<"T32COL", \hF3BF>>, <<"T32CGP", \hF3C1>>,
              <<"T32ATR", \hF3C3>>, <<"T32PAT", \hF3C5>>,
              <<"GRPNAM", \hF3C7>>, <<"GRPCOL", \hF3C9>>, <<"GRPCGP", \hF3CB>>,
              <<"GRPATR", \hF3CD>>, <<"GRPPAT", \hF3CF>>,
              <<"MLTNAM", \hF3D1>>, <<"MLTCOL", \hF3D3>>, <<"MLTCGP", \hF3D5>>,
              <<"MLTATR", \hF3D7>>, <<"MLTPAT", \hF3D9>>}}

\* system.h 95-141: colours, cursor, VDP register shadows RG0SAV-RG23SAV
\* (0xF3DF-0xF3E6 and 0xFFE7-0xFFF6), STATFL
ScreenState ==
    {V("FORCLR", \hF3E9, 1), V("BAKCLR", \hF3EA, 1), V("BDRCLR", \hF3EB, 1),
     V("CSRY", \hF3DC, 1), V("CSRX", \hF3DD, 1), V("STATFL", \hF3E7, 1)}
    \cup {V("RG" \o ToString(r) \o "SAV", \hF3DF + r, 1) : r \in 0 .. 7}
    \cup {V("RG" \o ToString(r) \o "SAV", \hFFE7 + r - 8, 1) : r \in 8 .. 23}

\* system.h 153-203: input, click, screen mode, console, timer, music, tape
DeviceState ==
    {V("TRGFLG", \hF3E8, 1), V("OLDKEY", \hFBDA, 11), V("NEWKEY", \hFBE5, 11),
     V("KEYBUF", \hFBF0, 40), V("CLIKSW", \hF3DB, 1), V("CLIKFL", \hF3DC, 1),
     V("SCRMOD", \hFCAF, 1), V("OLDSCR", \hFCB0, 1), V("CATEFG", \hFCAE, 1),
     V("CONSDFG", \hF3DE, 1), V("JIFFY", \hFC9E, 2), V("INTCNT", \hFCA2, 1),
     V("MUSICF", \hFB3E, 1), V("PLESSION", \hFB3F, 1), V("VOTEFG", \hFBAD, 1),
     V("LOWLIM", \hFCA0, 1), V("WINWID", \hFCA1, 1), V("HEADER", \hF3BE, 1),
     V("ASPTEFG", \hF3BF, 1)}

\* system.h 209-252: slot tables, memory bounds, vectors, RTC, hooks
SystemState ==
    {V("EXPTBL", \hFCC1, 4), V("SLTTBL", \hFCC5, 4), V("SLTATR", \hFCC9, 64),
     V("SLTWRK", \hFD09, 128), V("RAMTOP", \hFC4A, 2), V("HIMEM", \hFC4A, 2),
     V("STKTOP", \hF674, 2), V("BOTTOM", \hFC48, 2), V("DISKVE", \hFFA7, 2),
     V("BREAKV", \hFFAB, 2), V("RTCBLK", \hFFCA, 1), V("RTCMOD", \hFFCB, 1),
     V("HTIMI", \hFD9F, 5), V("HKEYI", \hFD9A, 5), V("HCHPU", \hFDA4, 1),
     V("HDSKO", \hFE21, 1)}

WorkVars == ScreenSettings \cup VramTables \cup ScreenState
              \cup DeviceState \cup SystemState

Var(n) == CHOOSE r \in WorkVars : r.name = n
Addr(n) == Var(n).addr
Width(n) == Var(n).width
IsWord(n) == Width(n) = 2

\* system.h 220: HIMEM is "Same as RAMTOP", one variable under two names.
Alias(n) == IF n = "HIMEM" THEN "RAMTOP" ELSE n

\* A cell is what one store through a name sets: a word, or one byte of a
\* byte variable or array (POKE(NAME + k, v)).
Offsets(n) == IF IsWord(n) THEN {0} ELSE 0 .. Width(n) - 1
Cells == UNION {{<<Alias(n), k>> : k \in Offsets(n)} : n \in Names}
Bytes == UNION {Addr(n) .. Addr(n) + Width(n) - 1 : n \in Names}

VARIABLES
    mem,      \* RAM byte -> value
    last,     \* ghost: cell -> value last stored through its name
    rdPc,     \* GET_TIMER(): "idle", or the byte of JIFFY still to load
    rdByte,   \* GET_TIMER(): the byte of JIFFY already loaded
    rdStart,  \* ghost: JIFFY when GET_TIMER() began
    timerOK   \* ghost: the last GET_TIMER() returned a value JIFFY held

timerVars == <<rdPc, rdByte, rdStart, timerOK>>
vars == <<mem, last, timerVars>>

\* PEEK(addr) and PEEKW(addr): a Z80 unsigned int is little-endian.
PEEK(a) == mem[a]
PEEKW(a) == mem[a] + 256 * mem[a + 1]

Read(c) == IF IsWord(c[1]) THEN PEEKW(Addr(c[1])) ELSE PEEK(Addr(c[1]) + c[2])

Init ==
    /\ mem = [b \in Bytes |-> 0]
    /\ last = [c \in Cells |-> 0]
    /\ rdPc = "idle"
    /\ rdByte = 0
    /\ rdStart = 0
    /\ timerOK = TRUE

\* POKE(NAME + k, v) for a byte variable or array.
Poke(n, k, v) ==
    /\ rdPc = "idle" /\ ~IsWord(n)
    /\ mem' = [mem EXCEPT ![Addr(n) + k] = v]
    /\ last' = [last EXCEPT ![<<Alias(n), k>>] = v]
    /\ UNCHANGED timerVars

PokeWHighNotShifted(n, v) ==
    /\ rdPc = "idle" /\ IsWord(n)
    /\ mem' = [mem EXCEPT ![Addr(n)] = v % 256, ![Addr(n) + 1] = v]
    /\ last' = [last EXCEPT ![<<Alias(n), 0>>] = v]
    /\ UNCHANGED timerVars
\* POKEW(NAME, v) for a word variable: low byte first.
PokeW(n, v) ==
    /\ rdPc = "idle" /\ IsWord(n)
    /\ mem' = [mem EXCEPT ![Addr(n)] = v % 256, ![Addr(n) + 1] = v \div 256]
    /\ last' = [last EXCEPT ![<<Alias(n), 0>>] = v]
    /\ UNCHANGED timerVars

\* The VSYNC interrupt: JIFFY "increments every VSYNC" (system.h 185).
\* A VSYNC comes once a frame and GET_TIMER()'s two loads are consecutive
\* instructions, so at most one interrupt falls inside a read.
Tick ==
    /\ "JIFFY" \in Names
    /\ PEEKW(Addr("JIFFY")) < MaxJiffy
    /\ rdPc # "idle" => PEEKW(Addr("JIFFY")) = rdStart
    /\ LET j == (PEEKW(Addr("JIFFY")) + 1) % \h10000
       IN /\ mem' = [mem EXCEPT ![Addr("JIFFY")] = j % 256,
                                ![Addr("JIFFY") + 1] = j \div 256]
          /\ last' = [last EXCEPT ![<<"JIFFY", 0>>] = (@ + 1) % \h10000]
    /\ UNCHANGED timerVars

\* GET_TIMER() (system.h 278) returns t, read while JIFFY went from start
\* to its present value.
TimerReturns(t, start) ==
    /\ rdPc' = "idle" /\ rdByte' = 0 /\ rdStart' = 0
    /\ timerOK' = (t \in start .. PEEKW(Addr("JIFFY")))

\* GET_TIMER(): PEEKW(JIFFY), a volatile unsigned int read. As one LD
\* HL,(nn) the interrupt cannot split it; as two byte loads it falls
\* between them, and the second byte comes from a later JIFFY.
TimerFirst(o) ==
    /\ rdPc = "idle" /\ "JIFFY" \in Names
    /\ \/ o = "word" /\ TimerReturns(PEEKW(Addr("JIFFY")), PEEKW(Addr("JIFFY")))
       \/ o = "low"  /\ rdByte' = PEEK(Addr("JIFFY")) /\ rdPc' = "high"
       \/ o = "high" /\ rdByte' = PEEK(Addr("JIFFY") + 1) /\ rdPc' = "low"
    /\ o # "word" => rdStart' = PEEKW(Addr("JIFFY")) /\ timerOK' = timerOK
    /\ UNCHANGED <<mem, last>>

TimerSecond ==
    /\ rdPc # "idle"
    /\ TimerReturns(IF rdPc = "high"
                     THEN rdByte + 256 * PEEK(Addr("JIFFY") + 1)
                     ELSE PEEK(Addr("JIFFY")) + 256 * rdByte,
                     rdStart)
    /\ UNCHANGED <<mem, last>>

GetTimer == (\E o \in TimerLoads : TimerFirst(o)) \/ TimerSecond

Next ==
    \/ \E n \in Names : \/ \E k \in Offsets(n), v \in ByteValues : Poke(n, k, v)
                        \/ \E v \in WordValues : PokeW(n, v)
    \/ Tick
    \/ GetTimer

Spec == Init /\ [][Next]_vars

-----------------------------------------------------------------------------

TypeOK ==
    /\ mem \in [Bytes -> 0 .. 255]
    /\ last \in [Cells -> 0 .. \hFFFF]
    /\ rdPc \in {"idle", "low", "high"}
    /\ rdByte \in 0 .. 255
    /\ timerOK \in BOOLEAN

\* Every work-area variable reads back, through PEEK or PEEKW of its name,
\* the value last stored through that name (or, for JIFFY, that value plus
\* the interrupts since), whatever was stored through the other names in
\* between: no two names of system.h share a byte unless the header says
\* they are the same variable.
ReadBack == \A c \in Cells : Read(c) = last[c]

\* GET_TIMER() returns a value JIFFY held while it ran, even when the VSYNC
\* interrupt carries the increment into the high byte between its loads.
GetTimerReadsJiffy == timerOK

\* The work area reads back as stored, and the timer as counted.
WorkAreaAsProgrammed == ReadBack /\ GetTimerReadsJiffy

=============================================================================
