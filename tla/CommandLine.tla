---------------------------- MODULE CommandLine ----------------------------
(***************************************************************************)
(* How a command line of a friend is taken apart (commands_parse and       *)
(* execute in src/commands.c, char_find and unquote_str in src/misc.c).    *)
(*                                                                         *)
(* Data.  A line is a sequence of symbols; a command name such as /status  *)
(* is one symbol, since nothing looks inside it.                           *)
(***************************************************************************)
EXTENDS Integers, SequencesExt

CONSTANTS
    MAX_NUM_ARGS,       \* arguments of a line, the command included
    MAX_COMMAND_LENGTH  \* capacity of a line and of an argument, with its NUL

ASSUME CommandLineAssumption ==
    MAX_NUM_ARGS \in Nat \ {0} /\ MAX_COMMAND_LENGTH \in Nat \ {0}

Blank == " "
Quote == "quote"
CommandNames == {"/default", "/group", "/gmessage", "/help", "/id", "/info", "/invite",
                 "/leave", "/master", "/name", "/passwd", "/purge", "/status",
                 "/statusmessage", "/title"}

\* The first ch at or after position p, or the position after the end.
char_find(p, s, ch) ==
    LET found == {q \in p .. Len(s) : s[q] = ch}
    IN  IF found = {} THEN Len(s) + 1 ELSE Min(found)

\* Where the next argument starts after the delimiter at position p.
AfterBlanks_One(line, p) == IF p < Len(line) /\ line[p + 1] = Blank THEN p + 2 ELSE p + 1

AfterBlanks(line, p) ==
    LET rest == {q \in p + 1 .. Len(line) : line[q] # Blank}
    IN  IF rest = {} THEN Len(line) + 1 ELSE Min(rest)

\* Between two turns of the loop: where cmd points, the arguments found, and
\* whether the loop goes on, has been left, or the line was refused.
Start == [at |-> 1, args |-> <<>>, state |-> "loop"]

\* One turn: a quoted argument keeps its quotes.
NextArgument(line, s) ==
    LET p      == s.at
        quoted == p <= Len(line) /\ line[p] = Quote
        i      == IF quoted THEN char_find(p + 1, line, Quote) ELSE char_find(p, line, Blank)
        arg    == SubSeq(line, p, IF quoted THEN i ELSE i - 1)
        cut    == SubSeq(arg, 1, Min({Len(arg), MAX_COMMAND_LENGTH - 1}))
        next   == IF i > Len(line) THEN i ELSE AfterBlanks(line, i)
    IN  IF s.state # "loop" THEN s
        ELSE IF quoted /\ i > Len(line) THEN [s EXCEPT !.state = "malformed"]
        ELSE [at |-> next, args |-> Append(s.args, cut),
              state |-> IF next > Len(line) THEN "done" ELSE "loop"]

Malformed == [num_args |-> -1, args |-> <<>>]

\* What follows the last argument that fits is dropped.
commands_parse(line) ==
    LET turn[k \in 0 .. MAX_NUM_ARGS] ==
            IF k = 0 THEN Start ELSE NextArgument(line, turn[k - 1])
        end == turn[MAX_NUM_ARGS]
    IN  IF end.state = "malformed" THEN Malformed
        ELSE [num_args |-> Len(end.args), args |-> end.args]

\* The command that a line starts and its arguments, or -1.
execute(line) ==
    LET parsed == commands_parse(line)
    IN  IF \/ Len(line) >= MAX_COMMAND_LENGTH
           \/ parsed = Malformed
           \/ parsed.args[1] \notin {<<name>> : name \in CommandNames}
          THEN [result |-> -1]
          ELSE [result |-> 0, argc |-> parsed.num_args - 1, argv |-> parsed.args]

\* Without a quote at the start and one at the end.
unquote_str(arg) ==
    LET opened == IF arg # <<>> /\ arg[1] = Quote THEN Tail(arg) ELSE arg
    IN  IF opened # <<>> /\ Last(opened) = Quote THEN Front(opened) ELSE opened

=============================================================================
