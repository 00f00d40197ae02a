----------------------------- MODULE CommandLine -----------------------------
(***************************************************************************)
(* How main (src/src/erlm.c) and argparse (src/lib/argparse) read the      *)
(* command line, one argument at a time.  An argument is "plain" (a file,  *)
(* or "-"), "short" with its letters, "long" with the words of its name    *)
(* (a value after "=" is ignored), or "end" ("--").                        *)
(***************************************************************************)
EXTENDS SequencesExt, Recursion

CONSTANTS
  Arguments, \* the arguments erlm may be given
  MaxArgs    \* how many at most

ASSUME LineAssumption ==
  \A arg \in Arguments :
    \/ arg.form \in {"plain", "end", "long"}
    \/ arg.form = "short" /\ arg.letters \in Seq(STRING)

VARIABLES
  argv,      \* the arguments read so far
  counts,    \* config.no_run and config.verbose
  files,     \* the number of arguments copied to the front of argv
  onlyFiles, \* "--" has been read
  parsed     \* "reading", or how the reading ended

lineVars == <<argv, counts, files, onlyFiles, parsed>>

-----------------------------------------------------------------------------
(* The options of main, in its order.                                      *)
Options == <<[letter |-> "h", name |-> <<"help">>],
             [letter |-> "n", name |-> <<"no", "run">>],
             [letter |-> "v", name |-> <<"verbose">>]>>

LineInit ==
  /\ argv = <<>> /\ counts = [n |-> 0, v |-> 0]
  /\ files = 0 /\ onlyFiles = FALSE /\ parsed = "reading"

(* Mutant: the count is not kept from falling below zero.                  *)
Unclamped(config, letter, step) ==
  [config EXCEPT !.counts[letter] = @ + step]

(* An option counts; its negation takes one away, but not below zero.      *)
argparse_getvalue(config, letter, step) ==
  [config EXCEPT !.counts[letter] = IF @ + step < 0 THEN 0 ELSE @ + step]

(* The effect of the option at a position of Options, 0 for none.          *)
Take(config, position, step) ==
  IF config.parsed # "reading" THEN config
  ELSE CASE position = 0 -> [config EXCEPT !.parsed = "unknown"]
         [] position = 1 -> [config EXCEPT !.parsed = "help"]
         [] OTHER -> argparse_getvalue(config, Options[position].letter, step)

(* The position of the first option found, or 0.                           *)
FirstOption(found) == IF found = {} THEN 0 ELSE Min(found)

argparse_short_opt(config, letter) ==
  Take(config, FirstOption({i \in DOMAIN Options : Options[i].letter = letter}), 1)

(* Every option may be negated; --no-run is the name of one, and its       *)
(* negation is --no-no-run.                                                *)
argparse_long_opt(config, name) ==
  LET position == FirstOption({i \in DOMAIN Options :
                      name \in {Options[i].name, <<"no">> \o Options[i].name}})
  IN Take(config, position,
          IF position # 0 /\ name # Options[position].name THEN -1 ELSE 1)

(* The letters of a short argument are options one after another.          *)
ShortOpts(first, letters) ==
  Iterate(LAMBDA config, n : argparse_short_opt(config, letters[n]), first, Len(letters))

Config == [counts |-> counts, parsed |-> parsed]

argparse_parse(arg) ==
  /\ parsed = "reading" /\ Len(argv) < MaxArgs
  /\ argv' = Append(argv, arg)
  /\ IF onlyFiles \/ arg.form = "plain"
     THEN files' = files + 1 /\ UNCHANGED <<counts, onlyFiles, parsed>>
     ELSE IF arg.form = "end"
     THEN onlyFiles' = TRUE /\ UNCHANGED <<counts, files, parsed>>
     ELSE LET config == IF arg.form = "short"
                        THEN ShortOpts(Config, arg.letters)
                        ELSE argparse_long_opt(Config, arg.name)
          IN /\ counts' = config.counts /\ parsed' = config.parsed
             /\ UNCHANGED <<files, onlyFiles>>

(* main wants one file, and prints the usage otherwise.                    *)
LineEnds ==
  /\ parsed = "reading"
  /\ parsed' = IF files = 1 THEN "file" ELSE "usage"
  /\ argv' = <<>> /\ counts' = [n |-> 0, v |-> 0] /\ files' = 0 /\ onlyFiles' = FALSE

-----------------------------------------------------------------------------
(* What is asked for.  The arguments before "--" say so, letter by letter: *)
(* an option is on when some end of the line has more of it than of its    *)
(* negation.                                                               *)
BeforeEnd(args) == {i \in DOMAIN args : \A j \in 1..i : args[j].form # "end"}

(* Where an argument has the option.                                       *)
Places(arg, option) ==
  CASE arg.form = "short" -> {j \in DOMAIN arg.letters : arg.letters[j] = option.letter}
    [] arg.form = "long" /\ arg.name = option.name -> {1}
    [] OTHER -> {}

Negates(arg, option) == arg.form = "long" /\ arg.name = <<"no">> \o option.name

(* Where it is asked for or negated, from an argument on.                  *)
Asked(args, option, from) ==
  UNION {{i} \X Places(args[i], option) : i \in {k \in BeforeEnd(args) : k >= from}}

Negated(args, option, from) == {i \in BeforeEnd(args) : i >= from /\ Negates(args[i], option)}

On(args, option) ==
  \E i \in BeforeEnd(args) :
    Cardinality(Asked(args, option, i)) > Cardinality(Negated(args, option, i))

(* What argparse_parse takes, and goes on.                                 *)
Known(arg) ==
  CASE arg.form = "short" ->
         \A j \in DOMAIN arg.letters : \E i \in DOMAIN Options : Options[i].letter = arg.letters[j]
    [] arg.form = "long"  ->
         \E i \in DOMAIN Options : arg.name \in {Options[i].name, <<"no">> \o Options[i].name}
    [] OTHER              -> TRUE

(* The arguments that are files: plain ones, and all after "--".           *)
FilesIn(args) ==
  {i \in DOMAIN args :
     \/ i \in BeforeEnd(args) /\ args[i].form = "plain"
     \/ \E j \in 1..i - 1 : args[j].form = "end"}
=============================================================================
