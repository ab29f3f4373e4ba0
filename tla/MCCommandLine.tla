--------------------------- MODULE MCCommandLine ---------------------------
(* Constants for TLC: a first process with any of many command lines, then
   two with the usual ones. *)
EXTENDS CommandLine, TLC

T(symbol) == << symbol >>

MCNumber    == T("1") :> 1 @@ T("2") :> 2 @@ T("7200") :> 7200
MCGateway   == T("192.168.1.1")
MCSupported == {T("TCP"), T("UDP")}
MCGranted   == {1, 2}

Me == T("192.168.1.7")

OptionLists ==
  { << T1 >> : T1 \in {<< "-", "l" >>, << "-", "h" >>, << "-", "u" >>,
                       << "-", "e" >>, << "-", "u", "x", "d" >>,
                       << "-", "p", "a" >>, << "-", "v", "u", "d" >>,
                       << "-", "p", "e", "d", "a" >>, << "-", "p", "d" >>} }
    \cup {<< >>, << << "-", "u" >>, << "-", "a" >> >>,
          << << "-", "p", "l" >>, << "-", "u", "e" >> >>,
          << << "-", "u", "e" >>, << "-", "-", "d" >> >>}

OperandLists ==
  { SubSeq(<< T("1"), Me, MCGateway, T("TCP"), T("7200"), T("2") >>, 1, n) :
      n \in 3 .. 6 }
    \cup { SubSeq(<< T("x"), MCGateway, T("UDP"), << "-" >> >>, 1, n) :
             n \in 0 .. 4 }
    \cup {<< MCGateway >>, << T("2"), Me, MCGateway, T("tcp"), T("x") >>}

Dashes == << << "-", "-" >> >>

(* Options before, behind and among the operands, and "--" in between. *)
Placed(o, w) ==
  {o \o w, o \o Dashes \o w, w \o o, w \o Dashes \o o}
    \cup { SubSeq(w, 1, k) \o o \o SubSeq(w, k + 1, Len(w)) :
             k \in {1, 2} \cap 1 .. Len(w) }

Line(words, system) ==
  [args |-> << T("libpmap") >> \o words, system |-> system]

AnyLine ==
  UNION { { Line(words, system) : words \in Placed(o, w), system \in Systems }
          : o \in OptionLists, w \in OperandLists }

UsualLine ==
  { Line(<< << "-", protocol, "a" >>, T("1"), Me, MCGateway, T("TCP") >> \o life,
         "glibc") : protocol \in {"p", "u"}, life \in {<< >>, << T("7200") >>} }
    \cup { Line(<< << "-", protocol, "d" >>, T(port), MCGateway, T("TCP") >>,
                 "glibc") : protocol \in {"p", "u"}, port \in {"1", "x"} }

MCTyped == << AnyLine, UsualLine, UsualLine >>
=============================================================================
