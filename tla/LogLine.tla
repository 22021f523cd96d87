------------------------------- MODULE LogLine -------------------------------
(***************************************************************************)
(* What the default consumer of logs.cpp writes for one message, and what  *)
(* a terminal makes of it.  A line is written by one call of fputs, which  *)
(* locks the stream, so lines of several threads do not mix.  Names and    *)
(* messages are sequences of characters; an escape code, which module Text *)
(* is about, is given by its options here.                                 *)
(***************************************************************************)
EXTENDS Integers, Sequences, SequencesExt

CONSTANTS
    Name,       \* the names of contexts below the root, all of them not empty
    Message,
    EndOfText,  \* the null character
    Period, Opening, Closing, Newline,
    bold, red, yellow, clear,   \* options of terminal.hpp
    MaxDepth    \* bound on the depth of a context

loglevel == {"trace", "debug", "info", "note", "warn", "error", "fatal"}

\* The options of escape codes, and the characters that divide a line
Options == {bold, red, yellow, clear}
Marks == {Period, Opening, Closing, Newline}

\* A text without null characters, line ends and escape codes
IsText(s) == s \in Seq(Range(s)) /\ Range(s) \cap (Options \union loglevel \union {EndOfText, Newline}) = {}

ASSUME LogLineAssumption ==
    /\ \A n \in Name : n # <<>> /\ IsText(n) /\ Range(n) \cap Marks = {}
    /\ MaxDepth \in Nat
    /\ EndOfText \notin Options \union Marks \union loglevel
    /\ Options \cap Marks = {} /\ loglevel \cap (Options \union Marks) = {}
    /\ clear \notin {bold, red, yellow} /\ Closing \notin {Period, Opening} /\ Opening # Newline

VARIABLES
    tty,        \* tty_output()
    screen,     \* the line the cursor is in, and the options that are on
    shown,      \* the last complete line
    logged,     \* ghost: the arguments of the last call
    reserved    \* ctx_buf_size of the last context

logLineVars == <<tty, screen, shown, logged, reserved>>

\* A context, as the names from below the root down to its own
Context == BoundedSeq(Name, MaxDepth)

LogLineInit ==
    /\ tty \in BOOLEAN
    /\ screen = [line |-> <<>>, on |-> {}]
    /\ shown = <<>> /\ logged = <<>> /\ reserved = 0

-----------------------------------------------------------------------------
\* std::string{} gives nothing to switch on for the levels without a colour
color_on(lvl) ==
    CASE lvl = "note"  -> <<bold>>
      [] lvl = "warn"  -> <<yellow>>
      [] lvl = "error" -> <<red>>
      [] lvl = "fatal" -> <<red, bold>>
      [] OTHER         -> <<>>

color_offMutant(lvl) == IF lvl \in {"warn", "error", "fatal"} THEN <<clear>> ELSE <<>>
color_off(lvl) == IF lvl \in {"note", "warn", "error", "fatal"} THEN <<clear>> ELSE <<>>

\* The prefixes, one for each level
Prefix(lvl) == <<lvl>>

ctx_buf_size(ctx) ==
    LET above[n \in 0 .. Len(ctx)] ==
            IF n = 0 THEN 0
            ELSE IF n = 1 THEN Len(ctx[1])
            ELSE above[n - 1] + Len(ctx[n]) + 1
    IN above[Len(ctx)]

JoinMutant(buf, name) == buf \o name
\* One level of context_path_recurse, on the way back
Join(buf, name) == Append(buf, Period) \o name

context_path(ctx) ==
    LET path[n \in 1 .. Len(ctx)] == IF n = 1 THEN ctx[1] ELSE Join(path[n - 1], ctx[n])
    IN path[Len(ctx)]

\* The string the consumer builds; the root has an empty name and no path
Composed(ctx, lvl, msg) ==
    (IF tty THEN color_on(lvl) ELSE <<>>)
    \o Prefix(lvl)
    \o (IF ctx = <<>> THEN <<>> ELSE <<Opening>> \o context_path(ctx) \o <<Closing>>)
    \o msg
    \o (IF tty THEN color_off(lvl) ELSE <<>>)
    \o <<Newline>>

\* fputs(buf.c_str()) stops at the first null character
Printed(buf) ==
    IF EndOfText \in Range(buf)
    THEN SubSeq(buf, 1, SelectInSeq(buf, LAMBDA c : c = EndOfText) - 1)
    ELSE buf

\* A terminal: options are switched on and cleared, the rest is shown
Shown(s, c) ==
    IF c \in Options
    THEN [s EXCEPT !.on = IF c = clear THEN {} ELSE @ \union {c}]
    ELSE [s EXCEPT !.line = Append(@, c)]

Displayed(s, buf) ==
    LET after[n \in 0 .. Len(buf)] == IF n = 0 THEN s ELSE Shown(after[n - 1], buf[n])
    IN after[Len(buf)]

Consume(ctx, lvl, msg) ==
    LET written == Displayed(screen, Printed(Composed(ctx, lvl, msg)))
        ended   == written.line # <<>> /\ Last(written.line) = Newline
    IN /\ logged' = <<ctx, lvl, msg>>
       /\ reserved' = ctx_buf_size(ctx)
       /\ screen' = [written EXCEPT !.line = IF ended THEN <<>> ELSE @]
       /\ shown' = IF ended THEN Front(written.line) ELSE shown
       /\ UNCHANGED tty

LogLineNext ==
    \E ctx \in Context, lvl \in loglevel, msg \in Message : Consume(ctx, lvl, msg)

LogLineSpec == LogLineInit /\ [][LogLineNext]_logLineVars

-----------------------------------------------------------------------------
(* Properties *)

\* A message, whatever its level, leaves the terminal as it was: at the beginning
\* of a line and with no colour on.  What is written afterwards, by the consumer
\* or by somebody else, looks as its author meant it.
TerminalRestored == screen = [line |-> <<>>, on |-> {}]

\* The parts of a text between its dots
SplitAtDots(text) ==
    LET Next(names, c) == IF c = Period THEN Append(names, <<>>)
                          ELSE Append(Front(names), Append(Last(names), c))
        after[n \in 0 .. Len(text)] == IF n = 0 THEN <<<<>>>> ELSE Next(after[n - 1], text[n])
    IN after[Len(text)]

PathIn(line) == SubSeq(line, 3, SelectInSeq(line, LAMBDA c : c = Closing) - 1)

\* The names in the path of a line
NamesIn(line) == IF Len(line) < 2 \/ line[2] # Opening THEN <<>> ELSE SplitAtDots(PathIn(line))

\* A line says where it comes from: its path, split at the dots, gives the names
\* of the context and its parents, and has the length reserved for it, so that
\* building it never allocates a second time.
PathNamesContext ==
    logged # <<>> =>
        /\ NamesIn(shown) = logged[1]
        /\ logged[1] # <<>> => Len(PathIn(shown)) = reserved

\* One message is one line with the name of its context, and leaves the terminal
\* as it was.
LineAsMeant == TerminalRestored /\ PathNamesContext
=============================================================================
