------------------------------- MODULE Getopt -------------------------------
(***************************************************************************)
(* getopt() of src/xgetopt.c, which the Windows build of the command line  *)
(* links; CommandLine has those of other systems beside it.                *)
(*                                                                         *)
(* An argument is a sequence of characters; an argument nobody takes apart *)
(* may be one symbol.  argv[i] of C is argument i + 1 here.  What getopt   *)
(* keeps between two calls, and what it returns, is one record; "next" is  *)
(* the rest of the group of options it is in, empty where C has NULL or    *)
(* the end of the text.                                                    *)
(***************************************************************************)
EXTENDS Null, Integers, Sequences

State(optind, next, optarg, ret) ==
  [optind |-> optind, next |-> next, optarg |-> optarg, ret |-> ret]

(* The globals and statics when the program starts. *)
Untouched == State(0, << >>, NULL, "none")

IsGroup(args, i) ==
  i < Len(args) /\ Len(args[i + 1]) > 1 /\ args[i + 1][1] = "-"

(* EOF, with optarg at the first operand. *)
Operands(args, i) ==
  State(i, << >>, IF i < Len(args) THEN args[i + 1] ELSE NULL, "EOF")

Letters(optstring) == { optstring[k] : k \in DOMAIN optstring } \ {":"}

TakesArgument(c, optstring) ==
  \E k \in DOMAIN optstring :
    /\ optstring[k] = c
    /\ k < Len(optstring) /\ optstring[k + 1] = ":"

(* An option that stands for itself, with an argument at its heels, with an
   argument of its own, or without the argument it takes. *)
Option(args, optstring, i, group) ==
  LET c == Head(group)
      rest == Tail(group)
  IN  IF c \notin Letters(optstring) THEN State(i, rest, NULL, "?")
      ELSE IF ~ TakesArgument(c, optstring) THEN State(i, rest, NULL, c)
      ELSE IF rest # << >> THEN State(i, << >>, rest, c)
      ELSE IF i < Len(args) THEN State(i + 1, << >>, args[i + 1], c)
      ELSE State(i, << >>, NULL, "?")

GroupLost(args, i) == args[i + 1]        \* mutant: the dash is not skipped
GroupAt(args, i) == Tail(args[i + 1])

SameGroup(args, optstring, i) ==         \* mutant: optind is not moved on
  IF ~ IsGroup(args, i) THEN Operands(args, i)
  ELSE Option(args, optstring, i, GroupAt(args, i))

OneTooFar(args, optstring, i) ==         \* mutant: past the first operand
  IF ~ IsGroup(args, i) THEN Operands(args, i + 1)
  ELSE Option(args, optstring, i + 1, GroupAt(args, i))

(* Any argument that begins with two dashes ends the options. *)
NextGroup(args, optstring, i) ==
  IF ~ IsGroup(args, i) THEN Operands(args, i)
  ELSE IF args[i + 1][2] = "-" THEN Operands(args, i + 1)
  ELSE Option(args, optstring, i + 1, GroupAt(args, i))

getopt(args, optstring, state) ==
  LET i == IF state.optind = 0 THEN 1 ELSE state.optind
  IN  IF state.optind # 0 /\ state.next # << >>
      THEN Option(args, optstring, i, state.next)
      ELSE NextGroup(args, optstring, i)
=============================================================================
