------------------------------ MODULE MCTexts -------------------------------
(* Constants for TLC: every short text over the characters that matter to
   each use of pmap_ut_substr, URLs of every form, and the shortest and the
   longest texts a request can hold. *)
EXTENDS Requests, Options

MCChar == {":", "/", "h", "7", "0", " ", "CR", "LF", "L", "<", "t",
           "(", "n", "u", "l", ")"}

Texts(chars, n, start, end) ==
  { [text |-> t, start |-> start, end |-> end] : t \in BoundedSeq(chars, n) }

(* "LOCATION:" up to the end of the line, the status between two blanks, and
   an element of XML. *)
MCSnippet ==
  Texts({"L", ":", " ", "CR", "LF"}, 6, << "L", ":" >>, << "CR", "LF" >>)
    \cup Texts({"7", " ", "CR"}, 7, << " " >>, << " " >>)
    \cup Texts({"<", "t", "/", " "}, 6, << "<", "t" >>, << "<", "/" >>)

MCRoom == {1, 3}

MCScheme   == {<< "h" >>, << "h", "7" >>, << "7", "h", "h" >>}
MCHost     == MCScheme
MCPortText == {<< "7" >>, << "7", "0" >>, << "0", "7", "7", "7" >>}
MCPath     == {<< >>, << "h" >>, << "h", "/", "h" >>, << "/", "h" >>,
               << "h", ":", "7" >>, << ":", "/", "h" >>}

Urls == { Url(s, h, p, q) : s \in Scheme, h \in Host, p \in PortText, q \in Path }
PortlessUrls == { Portless(s, h, q) : s \in Scheme, h \in Host, q \in Path }

MCUrlText == BoundedSeq({":", "/", "h", "7"}, 6) \cup Urls \cup PortlessUrls

(* As long as a host, a path or a control URL can be. *)
Long(n) == [k \in 1 .. n |-> "h"]

MCLocation ==
  Urls \cup PortlessUrls
    \cup { Url(<< "h" >>, Long(113), << "7", "7", "7", "7", "7", "7", "7", "7" >>,
               << >>),
           Url(<< "h" >>, << "h" >>, << "7" >>, Long(119)) }
MCControlUrl ==
  {<< >>, << "/" >>, << "h" >>, << "/", "h" >>, << "/", "/", "h" >>, Long(127),
   << "/" >> \o Long(126)}

MCIntLength   == {1, 11}
MCProtoLength == {3}
MCAddress     == {[b \in 1 .. 4 |-> 0], [b \in 1 .. 4 |-> 255]}

None == {}

(* Command lines of three options over two programs' options, one of which
   takes an argument in the first. *)
MCItem ==
  [letter : {"a", "b", "n", "z"}, arg : {NULL}, joined : BOOLEAN,
   heels : {FALSE}]
    \cup [letter : {"n"}, arg : {<< "x" >>, << "-", "a" >>}, joined : BOOLEAN,
          heels : BOOLEAN]
MCOptString == {<< "a", "b", "n", ":" >>, << "a", "n", "b" >>}
MCOperand ==
  {<< >>, << << "-" >> >>, << << "-", "a" >> >>, << << "x" >>, << "-", "b" >> >>}

(* A program that calls one of the functions on texts, or reads its options. *)
Program ==
  \/ items = << >> /\ pc = "typing" /\ Next /\ UNCHANGED optionVars
  \/ call = NoCall /\ NextOptions /\ UNCHANGED call

ProgramInit == Init /\ InitOptions

ProgramSpec == ProgramInit /\ [][Program]_<< call, optionVars >>
=============================================================================
