----------------------------- MODULE AsyncStdin -----------------------------
(***************************************************************************)
(* async_stdin (src/app/async_stdin.cpp): read_line() asks poll() whether  *)
(* the descriptor of standard input has something, and if so calls         *)
(* std::getline on std::cin.                                               *)
(*                                                                         *)
(* The two look at different places.  getline reads from the buffer of     *)
(* stdio, and refills it, with everything the descriptor has, only when no *)
(* line is left in it; poll sees the descriptor only.                      *)
(***************************************************************************)
EXTENDS Naturals

CONSTANT MaxLines   \* bound: lines typed

ASSUME StdinAssumption == MaxLines \in Nat

VARIABLES
    typed,      \* lines typed so far
    pipe,       \* complete lines in the descriptor
    buffered,   \* complete lines in the buffer of stdio
    partial,    \* where the beginning of an unfinished line is, or "none"
    eof         \* standard input is at its end

stdinVars == <<typed, pipe, buffered, partial, eof>>

StdinInit ==
    /\ typed = 0
    /\ pipe = 0
    /\ buffered = 0
    /\ partial = "none"
    /\ eof = FALSE

------------------------------------------------------------------------------
(* The user (external).                                                     *)
TypeBeginning ==
    /\ ~eof
    /\ typed < MaxLines
    /\ partial = "none"
    /\ partial' = "pipe"
    /\ UNCHANGED <<typed, pipe, buffered, eof>>

\* The rest of a line, or a whole one.
TypeLine ==
    /\ ~eof
    /\ typed < MaxLines
    /\ typed' = typed + 1
    /\ pipe' = pipe + 1
    /\ partial' = "none"
    /\ UNCHANGED <<buffered, eof>>

CloseInput ==
    /\ ~eof
    /\ eof' = TRUE
    /\ UNCHANGED <<typed, pipe, buffered, partial>>

User == TypeBeginning \/ TypeLine \/ CloseInput

------------------------------------------------------------------------------
\* poll() == 1.
Readable == pipe > 0 \/ partial = "pipe" \/ eof

\* getline finds a line in the buffer of stdio.
GetsBuffered ==
    /\ buffered > 0
    /\ buffered' = buffered - 1
    /\ UNCHANGED <<typed, pipe, partial, eof>>

\* Mutant of GetsFresh: what was read stays in the descriptor.
GetsPeeked ==
    /\ buffered = 0
    /\ pipe > 0
    /\ buffered' = pipe - 1
    /\ UNCHANGED <<typed, pipe, partial, eof>>

\* It refills the buffer with all there is and takes the first line.
GetsFresh ==
    /\ buffered = 0
    /\ pipe > 0
    /\ pipe' = 0
    /\ buffered' = pipe - 1
    /\ partial' = IF partial = "pipe" THEN "stdio" ELSE partial
    /\ UNCHANGED <<typed, eof>>

\* At the end of the input it returns what there is, then nothing, each time.
GetsRest ==
    /\ buffered = 0
    /\ pipe = 0
    /\ eof
    /\ partial' = "none"
    /\ UNCHANGED <<typed, pipe, buffered, eof>>

\* With the beginning of a line only, it blocks: none of the three is enabled.
getline == GetsBuffered \/ GetsFresh \/ GetsRest

StdinTypeOK ==
    /\ typed \in 0..MaxLines
    /\ pipe + buffered <= typed
    /\ partial \in {"none", "pipe", "stdio"}
    /\ eof \in BOOLEAN
==============================================================================
