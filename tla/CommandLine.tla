----------------------------- MODULE CommandLine -----------------------------
(***************************************************************************)
(* How a service's command becomes an argv (process.rs).                   *)
(*                                                                         *)
(* A character is its class: " " for white space, the two quotes, the      *)
(* backslash, and anything else.  Fail is the Err of the functions.        *)
(***************************************************************************)
EXTENDS Naturals, Sequences

Fail == <<"error">>

LexStart == [mode |-> "Normal", current |-> <<>>, argv |-> <<>>]
Push(s, ch, mode) == [s EXCEPT !.current = Append(@, ch), !.mode = mode]
EndWord(s) == IF s.current = <<>> THEN s ELSE [s EXCEPT !.argv = Append(@, s.current), !.current = <<>>]

\* A quote does not start a word: '' yields no argument.
LexSingleEscapes(s, ch) ==
  CASE s.mode = "Normal" /\ ch = " " -> EndWord(s)
    [] s.mode = "Normal" /\ ch = "\\" -> [s EXCEPT !.mode = "Escaped"]
    [] s.mode = "Normal" /\ ch = "'" -> [s EXCEPT !.mode = "SingleQuoted"]
    [] s.mode = "Normal" /\ ch = "\"" -> [s EXCEPT !.mode = "DoubleQuoted"]
    [] s.mode = "SingleQuoted" /\ ch = "'" -> [s EXCEPT !.mode = "Normal"]
    [] s.mode = "DoubleQuoted" /\ ch = "\"" -> [s EXCEPT !.mode = "Normal"]
    [] s.mode = "DoubleQuoted" /\ ch = "\\" -> [s EXCEPT !.mode = "DoubleEscaped"]
    [] s.mode = "SingleQuoted" /\ ch = "\\" -> s
    [] s.mode = "Escaped" -> Push(s, ch, "Normal")
    [] s.mode = "DoubleEscaped" -> Push(s, ch, "DoubleQuoted")
    [] OTHER -> Push(s, ch, s.mode)
Lex(s, ch) ==
  CASE s.mode = "Normal" /\ ch = " " -> EndWord(s)
    [] s.mode = "Normal" /\ ch = "\\" -> [s EXCEPT !.mode = "Escaped"]
    [] s.mode = "Normal" /\ ch = "'" -> [s EXCEPT !.mode = "SingleQuoted"]
    [] s.mode = "Normal" /\ ch = "\"" -> [s EXCEPT !.mode = "DoubleQuoted"]
    [] s.mode = "SingleQuoted" /\ ch = "'" -> [s EXCEPT !.mode = "Normal"]
    [] s.mode = "DoubleQuoted" /\ ch = "\"" -> [s EXCEPT !.mode = "Normal"]
    [] s.mode = "DoubleQuoted" /\ ch = "\\" -> [s EXCEPT !.mode = "DoubleEscaped"]
    [] s.mode = "Escaped" -> Push(s, ch, "Normal")
    [] s.mode = "DoubleEscaped" -> Push(s, ch, "DoubleQuoted")
    [] OTHER -> Push(s, ch, s.mode)

\* The lexer after the last character; after[i] holds its one state after i characters.
Lexed(line) ==
  LET after[i \in 0 .. Len(line)] == IF i = 0 THEN {LexStart} ELSE {Lex(s, line[i]) : s \in after[i - 1]}
  IN  CHOOSE s \in after[Len(line)] : TRUE
SplitCommandLine(line) ==
  LET e == Lexed(line)
  IN  IF e.mode # "Normal" \/ EndWord(e).argv = <<>> THEN Fail ELSE EndWord(e).argv

\* Separate args are taken as they are, and the command is not split then.
ResolveCommandArgv(command, args) == IF args = <<>> THEN SplitCommandLine(command) ELSE <<command>> \o args

------------------------------------------------------------------------------
\* The ways to write a word so that a shell would read it back.  A word with
\* no characters in it or with special ones has to be quoted, and nothing quotes a ' inside '.
Styles == {"bare", "single", "double", "escape"}
Special == {" ", "'", "\"", "\\"}
Concat(s) ==
  LET upto[n \in 0 .. Len(s)] == IF n = 0 THEN <<>> ELSE upto[n - 1] \o s[n]
  IN  upto[Len(s)]
QuoteChar(style, ch) ==
  IF style = "escape" \/ (style = "double" /\ ch \in {"\"", "\\"}) THEN <<"\\", ch>> ELSE <<ch>>
Mark(style) == CASE style = "single" -> <<"'">> [] style = "double" -> <<"\"">> [] OTHER -> <<>>
QuoteWord(style, word) == Mark(style) \o Concat([i \in DOMAIN word |-> QuoteChar(style, word[i])]) \o Mark(style)
CanQuote(style, word) ==
  /\ word = <<>> => style \in {"single", "double"}
  /\ style = "bare" => \A i \in DOMAIN word : word[i] \notin Special
  /\ style = "single" => \A i \in DOMAIN word : word[i] # "'"
NonEmpty(argv) == Concat([i \in DOMAIN argv |-> IF argv[i] = <<>> THEN <<>> ELSE <<argv[i]>>])
QuoteLine(styles, argv) == Concat([i \in DOMAIN argv |-> QuoteWord(styles[i], argv[i]) \o <<" ">>])

\* The argv of unit v is what its service file was written for: its separate args, or a line
\* with every word quoted in some way.  Of a line that is refused nothing is said.
Quotes(v) ==
  IF v.args # <<>> THEN v.argv = <<v.command>> \o v.args
  ELSE \/ SplitCommandLine(v.command) = Fail
       \/ /\ v.argv \in Seq(Seq(STRING)) /\ v.argv # <<>>
          /\ \E styles \in [DOMAIN v.argv -> Styles] :
               /\ \A i \in DOMAIN v.argv : CanQuote(styles[i], v.argv[i])
               /\ v.command = QuoteLine(styles, v.argv)
=============================================================================
