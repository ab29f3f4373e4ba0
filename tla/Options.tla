------------------------------ MODULE Options -------------------------------
(***************************************************************************)
(* A command line written item by item and then read to its end with       *)
(* getopt, as the loop of main() reads it (src/main.c): what Getopt        *)
(* returns for every list of options, however they share groups, with the  *)
(* arguments of options at their heels or apart.                           *)
(***************************************************************************)
EXTENDS Getopt, SequencesExt

CONSTANTS
  OptString,  \* the options of a program
  Item,       \* what stands on a command line: an option, its argument or
              \* NULL, whether it shares the group of the one before, and
              \* whether its argument follows at its heels
  Operand,    \* sequences of operands
  MaxItems    \* items on a command line

(* "-" behind a dash would end the options, ":" is no option, and EOF no
   character. *)
ASSUME OptionConstantsOK ==
  /\ OptString \subseteq Seq(STRING)
  /\ Item \subseteq [letter : STRING \ {"-", ":", "EOF"},
                    arg : Seq(STRING) \cup {NULL},
                    joined : BOOLEAN, heels : BOOLEAN]
  /\ NULL \notin Seq(STRING)
  /\ Operand \subseteq Seq(Seq(STRING))
  /\ MaxItems \in Nat

VARIABLES
  pc,         \* "typing", "reading" or "read"
  optstring,  \* the program's options
  items,      \* the options of the command line
  operands,   \* and its operands
  args,       \* the command line
  state,      \* what getopt keeps and returned last
  options     \* what it has returned: the options with their arguments

optionVars == << pc, optstring, items, operands, args, state, options >>

InitOptions ==
  /\ pc = "typing"
  /\ optstring \in OptString
  /\ items = << >> /\ operands = << >>
  /\ args = << << "prog" >> >>
  /\ state = Untouched /\ options = << >>

Takes(item) == TakesArgument(item.letter, optstring)

(* Without the argument it takes an option can only be the last. *)
IsComplete(item) == Takes(item) => item.arg # NULL

(* An option in a group of its own or, behind one without an argument, in the
   group of that; its argument stands at its heels or apart. *)
Type(item) ==
  /\ pc = "typing" /\ Len(items) < MaxItems
  /\ items # << >> => IsComplete(Last(items))
  /\ item.joined => items # << >> /\ ~Takes(Last(items))
  /\ item.heels => item.arg \notin {NULL, << >>}
  /\ item.arg # NULL => Takes(item)
  /\ LET heels == IF item.heels THEN item.arg ELSE << >>
         apart == IF item.heels \/ item.arg = NULL THEN << >> ELSE << item.arg >>
         group == IF item.joined THEN Last(args) ELSE << "-" >>
         before == IF item.joined THEN Front(args) ELSE args
     IN  args' = Append(before, group \o << item.letter >> \o heels) \o apart
  /\ items' = Append(items, item)
  /\ UNCHANGED << pc, optstring, operands, state, options >>

(* The operands, behind "--" or not. *)
TypeOperands(dashes, rest) ==
  /\ pc = "typing"
  /\ dashes \/ ~IsGroup(rest, 0)
  /\ items # << >> /\ ~IsComplete(Last(items)) => ~dashes /\ rest = << >>
  /\ pc' = "reading"
  /\ operands' = rest
  /\ args' = args \o (IF dashes THEN << << "-", "-" >> >> ELSE << >>) \o rest
  /\ UNCHANGED << optstring, items, state, options >>

(* main(): one turn of the loop. *)
Read ==
  /\ pc = "reading"
  /\ state' = getopt(args, optstring, state)
  /\ \/ /\ state'.ret = "EOF"
        /\ pc' = "read" /\ UNCHANGED options
     \/ /\ state'.ret # "EOF"
        /\ options' = Append(options, << state'.ret, state'.optarg >>)
        /\ UNCHANGED pc
  /\ UNCHANGED << optstring, items, operands, args >>

NextOptions ==
  \/ \E item \in Item : Type(item)
  \/ \E dashes \in BOOLEAN, rest \in Operand : TypeOperands(dashes, rest)
  \/ Read

OptionsSpec == InitOptions /\ [][NextOptions]_optionVars

-----------------------------------------------------------------------------
(* Properties *)

(* Type invariant: optind stays within the arguments. *)
OptionsTypeOK ==
  /\ pc \in {"typing", "reading", "read"}
  /\ state.optind \in 0 .. Len(args)
  /\ pc = "typing" => options = << >> /\ state = Untouched

Expected(item) ==
  IF item.letter \in Letters(optstring) /\ IsComplete(item)
  THEN << item.letter, item.arg >> ELSE << "?", NULL >>

(* However options share groups and wherever their arguments stand, getopt
   returns them in order with their arguments, "?" for those it does not know
   or whose argument is missing; at the end none is left out, and optind and
   optarg are at the first operand (xgetopt.c:58-75). *)
OptionsAreRead ==
  /\ Len(options) <= Len(items)
  /\ \A k \in DOMAIN options : options[k] = Expected(items[k])
  /\ pc = "read" =>
       /\ Len(options) = Len(items)
       /\ SubSeq(args, state.optind + 1, Len(args)) = operands
       /\ state.optarg = IF operands = << >> THEN NULL ELSE Head(operands)
=============================================================================
