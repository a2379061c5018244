----------------------------- MODULE CommandLine -----------------------------
(***************************************************************************)
(* The command line: getopt_long and getopt (getopt.c) as main (Source.cpp)*)
(* calls them. Every step is one call of getopt_long and what the switch   *)
(* of main does with its result.                                           *)
(*                                                                         *)
(* An argument is a sequence of pieces, "-", "=", the letters of options,  *)
(* and longer pieces of names and texts that are never taken apart;        *)
(* argv[1] is the first one after the name of the program.                 *)
(***************************************************************************)
EXTENDS Integers, SequencesExt

CONSTANTS Lines,         \* command lines of any kind
          Usages,        \* sequences of options written as usage() says
          Null           \* the null pointer

Dash == "-"

(* The options string "p:g:c:hV" and the array long_options *)
WithArgument == {"p", "g", "c"}
Plain        == {"h", "V"}
LongOptions  == << [name |-> <<"p", "ort">>,      val |-> "p"],
                   [name |-> <<"p", "ort", "2">>, val |-> "2"],
                   [name |-> <<"p", "ort", "3">>, val |-> "3"],
                   [name |-> <<"p", "ort", "4">>, val |-> "4"],
                   [name |-> <<"g", "eneral">>,   val |-> "g"],
                   [name |-> <<"c", "onfig">>,    val |-> "c"],
                   [name |-> <<"h", "elp">>,      val |-> "h"],
                   [name |-> <<"v", "ersion">>,   val |-> "V"] >>

(* The options of usage(): an option, one of the forms it can be written   *)
(* in, and its argument                                                    *)
Name(val) == LongOptions[CHOOSE i \in DOMAIN LongOptions : LongOptions[i].val = val].name

Written(item) ==
  CASE item.form = "short"    -> << <<Dash, item.val>>, item.arg >>
    [] item.form = "attached" -> << <<Dash, item.val>> \o item.arg >>
    [] item.form = "long"     -> << <<Dash, Dash>> \o Name(item.val), item.arg >>
    [] item.form = "equals"   -> << <<Dash, Dash>> \o Name(item.val) \o <<"=">> \o item.arg >>

(* The ways of usage() to write an option that has an argument *)
IsItem(item) ==
  /\ item.val \in {"p", "2", "3", "4", "g", "c"}
  /\ item.form \in {"short", "attached", "long", "equals"}
  /\ item.arg \in Seq(Range(item.arg)) /\ item.arg # Null
  /\ item.form \in {"short", "attached"} => item.val \in WithArgument
  /\ item.form = "attached" => item.arg # <<>>

ASSUME CommandLineAssumption ==
  /\ \A line \in Lines : line \in Seq(Range(line))
  /\ \A items \in Usages : items \in Seq(Range(items)) /\ \A i \in DOMAIN items : IsItem(items[i])
  /\ Null # <<>>

VARIABLES argv,          \* the arguments
          usage,         \* history: the options they were written from, if any
          optind,        \* getopt's index of the next argument
          place,         \* what is left of a group of letters
          ports,         \* what main has collected
          general,
          config,
          outcome        \* "parsing", and how main goes on after that

vars == <<argv, usage, optind, place, ports, general, config, outcome>>

Init == /\ \/ usage = <<>> /\ argv \in Lines
           \/ usage \in Usages /\ argv = FlattenSeq([i \in DOMAIN usage |-> Written(usage[i])])
        /\ optind = 1 /\ place = <<>>
        /\ ports = <<>> /\ general = <<>> /\ config = <<>>
        /\ outcome = "parsing"

(* argv[argc] is a null pointer *)
Argument(i) == IF i <= Len(argv) THEN argv[i] ELSE Null

(* The switch of main over the result of getopt_long *)
Switch(c, optarg) ==
  /\ ports'   = IF c \in {"p", "2", "3", "4"} THEN Append(ports, optarg) ELSE ports
  /\ general' = IF c = "g" THEN optarg ELSE general
  /\ config'  = IF c = "c" THEN optarg ELSE config
  /\ outcome' = CASE c = "V"              -> "version"
                  [] c \in {"h", ":", "?"} -> "usage"
                  [] OTHER                 -> "parsing"
  /\ UNCHANGED <<argv, usage>>

-----------------------------------------------------------------------------
(* The next argument starts with a dash and is more than that *)
IsOption == /\ place = <<>> /\ optind <= Len(argv)
            /\ Len(argv[optind]) > 1 /\ argv[optind][1] = Dash

IsLong == IsOption /\ argv[optind][2] = Dash

(* Mutant: optind is not compared with argc, and the null pointer at the   *)
(* end of argv is looked into                                              *)
EndsUnchecked ==
  /\ outcome = "parsing"
  /\ \/ place = <<>> /\ optind <= Len(argv) /\ ~IsOption
     \/ IsLong /\ Len(argv[optind]) = 2
     \/ place # <<>> /\ Head(place) = Dash
  /\ outcome' = IF ports # <<>> /\ general # <<>> /\ config # <<>> THEN "run" ELSE "incomplete"
  /\ UNCHANGED <<argv, usage, optind, place, ports, general, config>>

(* getopt_long returns -1: after the last argument, at one that is no      *)
(* option, at "-" and "--", and at a dash inside a group of letters. main  *)
(* goes on if it has all it needs                                          *)
Ends ==
  /\ outcome = "parsing"
  /\ \/ place = <<>> /\ ~IsOption
     \/ IsLong /\ Len(argv[optind]) = 2
     \/ place # <<>> /\ Head(place) = Dash
  /\ outcome' = IF ports # <<>> /\ general # <<>> /\ config # <<>> THEN "run" ELSE "incomplete"
  /\ UNCHANGED <<argv, usage, optind, place, ports, general, config>>

(* Mutant: an argument of its own is not skipped *)
SkippedOne(rest) == 1

(* How many of argv a letter with its argument takes *)
Skipped(rest) == IF rest = <<>> THEN 2 ELSE 1

(* getopt: the next letter of a group. Its argument is the rest of the     *)
(* group, or the next of argv. main returns at h, V and ?, the letters     *)
(* without an argument, so that it never asks for the rest of a group      *)
Letter ==
  LET group  == IF place = <<>> THEN Tail(argv[optind]) ELSE place
      c      == Head(group)
      rest   == Tail(group)
      optarg == IF rest # <<>> THEN rest ELSE Argument(optind + 1)
  IN  /\ outcome = "parsing"
      /\ (IsOption /\ ~IsLong) \/ (place # <<>> /\ Head(place) # Dash)
      /\ \/ /\ c \in WithArgument
            /\ place' = <<>>
            /\ optind' = optind + (IF optarg = Null THEN 1 ELSE Skipped(rest))
            /\ Switch(IF optarg = Null THEN ":" ELSE c, optarg)
         \/ /\ c \notin WithArgument
            /\ place' = rest
            /\ optind' = optind + (IF rest = <<>> THEN 1 ELSE 0)
            /\ Switch(IF c \in Plain THEN c ELSE "?", Null)

(* The name that is equal, or else the first one that starts like that *)
Match(name) ==
  LET starts == {i \in DOMAIN LongOptions : IsPrefix(name, LongOptions[i].name)}
      equal  == {i \in starts : LongOptions[i].name = name}
  IN  IF equal # {} THEN equal ELSE {i \in starts : \A j \in starts : i <= j}

(* Mutant: optarg is not compared with the null pointer *)
MissingNever(optarg) == FALSE

Missing(optarg) == optarg = Null

(* getopt_long: an argument follows '=', or is the next of argv, which may *)
(* be the null pointer at its end                                          *)
Long ==
  LET body   == SubSeq(argv[optind], 3, Len(argv[optind]))
      equal  == SelectInSeq(body, LAMBDA c : c = "=")
      name   == IF equal = 0 THEN body ELSE SubSeq(body, 1, equal - 1)
      optarg == IF equal = 0 THEN Argument(optind + 1) ELSE SubSeq(body, equal + 1, Len(body))
  IN  /\ outcome = "parsing" /\ IsLong /\ body # <<>>
      /\ \/ /\ Match(name) = {}
            /\ optind' = optind + 1 /\ Switch("?", Null)
         \/ \E i \in Match(name) :
              LET c == LongOptions[i].val
              IN  \/ /\ c \in Plain
                     /\ optind' = optind + 1 /\ Switch(c, Null)
                  \/ /\ c \notin Plain
                     /\ optind' = optind + (IF equal = 0 THEN 2 ELSE 1)
                     /\ Switch(IF Missing(optarg) THEN ":" ELSE c, optarg)
      /\ UNCHANGED place

Next == Ends \/ Letter \/ Long

Spec == Init /\ [][Next]_vars /\ WF_vars(Next)

-----------------------------------------------------------------------------
TypeOK ==
  /\ optind \in 1..(Len(argv) + 2)
  /\ outcome = "parsing" => optind <= Len(argv) + 1
  /\ outcome \in {"parsing", "run", "incomplete", "usage", "version"}

(* std::string is never made of a null pointer, though getopt_long reads   *)
(* one where an argument is missing and returns it in optarg               *)
NoNullArgument == Null \notin Range(ports) \union {general, config}

(* What usage() says is what happens: an option in any of its forms, in    *)
(* any order, with the argument it was given; the last one of general and  *)
(* config counts, and ports add up                                         *)
UsageIsUnderstood ==
  LET Given(vals) == FlattenSeq([i \in DOMAIN usage |->
                                   IF usage[i].val \in vals THEN <<usage[i].arg>> ELSE <<>>])
      Chosen(val) == LET at == {i \in DOMAIN usage : usage[i].val = val}
                     IN  IF at = {} THEN <<>> ELSE usage[Max(at)].arg
  IN  (usage # <<>> /\ outcome # "parsing") =>
        /\ ports   = Given({"p", "2", "3", "4"})
        /\ general = Chosen("g")
        /\ config  = Chosen("c")
        /\ outcome = IF <<>> \in {ports, general, config} THEN "incomplete" ELSE "run"

(* main gets to the end of every command line: every call of getopt_long   *)
(* takes something off it                                                  *)
EveryLineEnds == <>(outcome # "parsing")

=============================================================================
