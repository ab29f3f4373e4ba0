------------------------- MODULE CommandLineProofs -------------------------
(***************************************************************************)
(* Proofs about CommandLine, for every set of command lines, every number  *)
(* of processes and any ports the gateway may choose: its type invariant,  *)
(* that missing operands are noticed, that the processes have told their   *)
(* user of every mapping of the gateway, and that a process makes the call *)
(* its command line names.  The last needs the most: which argument each   *)
(* system's getopt leaves in which place, and which letters it has read.   *)
(***************************************************************************)
EXTENDS CommandLine, SequenceTheorems, FiniteSetTheorems, TLAPS

(* Before it makes its call a process has none; during it nothing is told. *)
Phase ==
  /\ pc # "none" => line \in CommandLines
  /\ pc \in {"none", "options", "dispatch", "listing"} =>
       asked = {} /\ decided = {} /\ told = {} /\ busy = FALSE /\ status = "none"
  /\ pc = "calling" => busy = TRUE /\ status = "none" /\ told = {}
  /\ pc \in {"options", "dispatch", "listing"} => code = 0
  /\ pc = "listing" => operation = 3
  /\ asked = {} => decided = {}

IsRequest(r) ==
  /\ r.via \in {"NAT-PMP", "UPnP"} /\ r.fn \in {"add", "del", "exip"}
  /\ r.port \in Nat
  /\ r.fn = "exip" => r.proto = NULL

Requests ==
  /\ \A r \in asked : IsRequest(r)
  /\ \A r \in late : IsRequest(r)
  /\ \A r \in echoes : IsRequest(r) /\ r.via = "NAT-PMP"
  /\ \A m \in table : m.proto \in Supported

(* An adding that can still happen, or was decided twice, is one the user has
   to reckon with. *)
Doubts ==
  /\ \A r \in late : r.fn = "add" => KeyOf(r) \in unsure
  /\ pc \in {"exited", "killed"} /\ status # "not sent" /\ decided = {} =>
       \A r \in asked : r.fn = "add" => KeyOf(r) \in unsure
  /\ pc = "calling" /\ ~AtMostOne(decided) =>
       \A r \in asked : r.fn = "add" => KeyOf(r) \in unsure

(* Once granted, an add or a delete has left no other mapping of its key,
   except one nobody was told of: a late request came in between, or one that
   was delivered once more. *)
Made ==
  pc = "calling" =>
    \A r \in asked, d \in decided :
      d.ok = 1 /\ r.fn # "exip" =>
        /\ r.fn = "add" /\ r.via = "UPnP" => d.ext = r.port
        /\ \A m \in table : Key(m) = KeyOf(r) =>
             \/ KeyOf(r) \in unsure
             \/ r.fn = "add" /\ m = Mapping(r, d.ext)

ToldInv ==
  /\ Phase
  /\ Requests
  /\ Doubts
  /\ Made
  /\ MappingsAreTold

Inv == TypeOK /\ ToldInv /\ MissingOperandsAreNoticed

-----------------------------------------------------------------------------
(* getopt never moves optind past the end of the arguments. *)
LEMMA GetoptStaysInside ==
  ASSUME NEW args, NEW n \in Nat \ {0}, Len(args) = n,
         NEW optstring, NEW state, state.optind \in 0 .. n
  PROVE  getopt(args, optstring, state).optind \in 0 .. n
<1> DEFINE i == IF state.optind = 0 THEN 1 ELSE state.optind
<1>1. i \in 1 .. n
  OBVIOUS
<1>2. ASSUME NEW j \in 1 .. n, NEW group
      PROVE  Option(args, optstring, j, group).optind \in 0 .. n
  BY <1>2 DEF Option, State
<1>3. NextGroup(args, optstring, i).optind \in 0 .. n
  <2>1. CASE ~IsGroup(args, i)
    BY <1>1, <2>1 DEF NextGroup, Operands, State
  <2>2. CASE IsGroup(args, i)
    <3>1. i + 1 \in 1 .. n
      BY <1>1, <2>2 DEF IsGroup
    <3>2. Option(args, optstring, i + 1, GroupAt(args, i)).optind \in 0 .. n
      BY <1>2, <3>1
    <3> QED
      BY <2>2, <3>1, <3>2 DEF NextGroup, Operands, State
  <2> QED
    BY <2>1, <2>2
<1>4. Option(args, optstring, i, state.next).optind \in 0 .. n
  BY <1>1, <1>2
<1> QED
  BY <1>3, <1>4 DEF getopt

LEMMA ReadStaysInside ==
  ASSUME Len(argv) \in Nat \ {0}, opt.optind \in 0 .. Len(argv)
  PROVE  Read.optind \in 0 .. Len(argv)
<1> DEFINE i == IF opt.optind = 0 THEN 1 ELSE opt.optind
           group == GroupAt(argv, i)
<1>1. getopt(argv, OptString, opt).optind \in 0 .. Len(argv)
  BY GetoptStaysInside
<1>2. ASSUME IsGroup(argv, i)
      PROVE  Option(argv, OptString, i + 1, group).optind \in 0 .. Len(argv)
  <2>1. i + 1 \in 1 .. Len(argv)
    BY <1>2 DEF IsGroup
  <2> QED
    BY <2>1 DEF Option, State
<1>3. posix_getopt(argv, OptString, opt).optind \in 0 .. Len(argv)
  BY <1>1, <1>2 DEF posix_getopt
<1> QED
  BY <1>1, <1>3 DEF Read

(* Permuting keeps the number of arguments. *)
LEMMA ArrangedLength ==
  ASSUME NEW l \in CommandLines
  PROVE  Len(Arranged(l)) = Len(l.args) /\ Len(l.args) \in Nat \ {0}
<1>1. l.args \in Seq(Seq(STRING)) /\ l.args # << >>
  BY DEF CommandLines, Arguments
<1>2. Len(l.args) \in Nat \ {0}
  BY <1>1
<1>3. Len(Permuted(l.args)) = Len(l.args)
  <2> DEFINE n == Len(l.args)
             S == { l.args[PlaceOf(k, l.args)] : k \in 1 .. n }
             s == Permuted(l.args)
  <2>1. s \in [1 .. n -> S]
    BY DEF Permuted
  <2>2. s \in Seq(S)
    BY <1>2, <2>1
  <2>3. Len(s) \in Nat /\ DOMAIN s = 1 .. Len(s)
    BY <2>2, LenProperties
  <2>4. DOMAIN s = 1 .. n
    BY <2>1
  <2> QED
    BY <1>2, <2>3, <2>4
<1> QED
  BY <1>2, <1>3 DEF Arranged

LEMMA InitInv == Init => Inv
<1> SUFFICES ASSUME Init PROVE Inv
  OBVIOUS
<1>1. TypeOK
  <2>1. Len(Typed) \in Nat
    BY CommandLineConstantsOK, LenProperties DEF CommandLineConstantsOK
  <2>2. opt.optind = 0 /\ line.args = << >> /\ argv = << >>
    BY DEF Init, NoLine, Untouched, State
  <2>3. Len(argv) = Len(line.args) /\ opt.optind \in 0 .. Len(argv)
    BY <2>2
  <2>4. run \in 0 .. Len(Typed)
    BY <2>1 DEF Init
  <2>5. /\ AtMostOne(asked) /\ AtMostOne(decided) /\ decided \subseteq Decision
        /\ told \subseteq decided /\ busy \in BOOLEAN
    BY DEF Init, Call!Init, AtMostOne
  <2> QED
    BY <2>3, <2>4, <2>5 DEF Init, TypeOK
<1>2. ToldInv
  BY DEF Init, ToldInv, Phase, Requests, Doubts, Made, MappingsAreTold, Call!Init
<1>3. MissingOperandsAreNoticed
  BY DEF Init, MissingOperandsAreNoticed
<1> QED
  BY <1>1, <1>2, <1>3 DEF Inv

-----------------------------------------------------------------------------
(* The steps of main, up to the library call *)

LEMMA RunInv ==
  ASSUME Inv, Run
  PROVE  Inv'
<1>1. PICK l \in Typed[run + 1] : line' = l /\ argv' = Arranged(l)
  BY DEF Run
<1>2. run \in Nat /\ run + 1 \in 1 .. Len(Typed) /\ Len(Typed) \in Nat
  <2>1. Len(Typed) \in Nat
    BY CommandLineConstantsOK, LenProperties DEF CommandLineConstantsOK
  <2>2. run \in 0 .. Len(Typed) /\ run < Len(Typed)
    BY DEF Run, Inv, TypeOK
  <2> QED
    BY <2>1, <2>2
<1>3. l \in CommandLines
  <2>1. Typed[run + 1] \in SUBSET CommandLines
    BY <1>2, CommandLineConstantsOK, ElementOfSeq
    DEF CommandLineConstantsOK, CommandLines
  <2> QED
    BY <2>1
<1>4. Len(argv') = Len(line'.args) /\ Len(argv') \in Nat \ {0}
  BY <1>1, <1>3, ArrangedLength
<1>5. TypeOK'
  <2>1. opt'.optind \in 0 .. Len(argv')
    <3>1. opt' = Untouched
      BY DEF Run
    <3>2. opt'.optind = 0
      BY <3>1 DEF Untouched, State
    <3> QED
      BY <1>4, <3>2
  <2>2. run' \in 0 .. Len(Typed)
    <3>1. run' = run + 1
      BY DEF Run
    <3> QED
      BY <1>2, <3>1
  <2>3. /\ pc' = "options" /\ operation' = 0 /\ action' = 0 /\ code' = 0
        /\ asked' = {} /\ busy' = FALSE /\ told' = {} /\ decided' = {}
    BY DEF Run
  <2>4. /\ AtMostOne(asked') /\ AtMostOne(decided')
        /\ told' \subseteq decided' /\ decided' \subseteq Decision
    BY <2>3 DEF AtMostOne
  <2>5. line' \in CommandLines
    BY <1>1, <1>3 DEF CommandLines
  <2> QED
    <3>1. (pc = "calling" => asked # {})' /\ (busy \in BOOLEAN)'
      BY <2>3
    <3>2. (operation \in 0 .. 3 /\ action \in 0 .. 3 /\ code \in 0 .. 1)'
      BY <2>3
    <3>3. (pc \in {"none", "options", "dispatch", "calling", "listing", "exited",
                    "killed"})'
      BY <2>3
    <3>4. (Len(argv) = Len(line.args) /\ opt.optind \in 0 .. Len(argv))'
      BY <1>4, <2>1
    <3> QED
      BY <2>2, <2>4, <2>5, <3>1, <3>2, <3>3, <3>4 DEF TypeOK
<1>6. Phase'
  BY <1>1, <1>3 DEF Run, Phase
<1>7. late' \subseteq late \cup asked
  BY DEF Run
<1>8. Requests'
  BY <1>7 DEF Run, Inv, ToldInv, Requests, IsRequest
<1>9. Doubts'
  <2>1. ASSUME NEW r \in late', r.fn = "add"
        PROVE  KeyOf(r) \in unsure
    <3>1. CASE r \in late
      BY <2>1, <3>1 DEF Inv, ToldInv, Doubts
    <3>2. CASE r \notin late
      BY <2>1, <3>2 DEF Run, Inv, ToldInv, Doubts, Phase
    <3> QED
      BY <3>1, <3>2
  <2> QED
    BY <2>1 DEF Run, Doubts, KeyOf
<1>10. Made' /\ MappingsAreTold'
  BY DEF Run, Inv, ToldInv, Made, MappingsAreTold, Key
<1>11. MissingOperandsAreNoticed'
  BY DEF Run, MissingOperandsAreNoticed
<1> QED
  BY <1>5, <1>6, <1>8, <1>9, <1>10, <1>11 DEF Inv, ToldInv

LEMMA OptionInv ==
  ASSUME Inv, NextOption \/ BadOption \/ OptionsEnd
  PROVE  Inv'
<1>1. /\ pc = "options" /\ pc' \in {"options", "dispatch", "exited"}
      /\ opt' = Read
      /\ UNCHANGED << line, argv, asked, call, table, late, echoes, run, known,
                      unsure >>
      /\ pc' = "exited" => code' = 1
      /\ pc' # "exited" => UNCHANGED code
      /\ code' \in {code, 1}
  BY DEF NextOption, BadOption, OptionsEnd
<1>2. Len(argv) = Len(line.args) /\ Len(argv) \in Nat \ {0}
  BY <1>1, ArrangedLength DEF Inv, ToldInv, TypeOK, Phase
<1>3. opt'.optind \in 0 .. Len(argv)
  BY <1>1, <1>2, ReadStaysInside DEF Inv, TypeOK
<1>4. operation' \in 0 .. 3 /\ action' \in 0 .. 3
  BY DEF NextOption, BadOption, OptionsEnd, LastOf, Operation, Action, Inv, TypeOK
<1>5. TypeOK'
  BY <1>1, <1>2, <1>3, <1>4 DEF Inv, TypeOK, AtMostOne, call
<1>6. /\ asked = {} /\ decided = {} /\ told = {} /\ busy = FALSE
      /\ status = "none" /\ code = 0 /\ line \in CommandLines
  BY <1>1 DEF Inv, ToldInv, Phase
<1>7. Phase' /\ Doubts' /\ Made'
  BY <1>1, <1>6 DEF Inv, ToldInv, Phase, Doubts, Made, KeyOf, call
<1>8. Requests' /\ MappingsAreTold'
  BY <1>1 DEF Inv, ToldInv, Requests, IsRequest, MappingsAreTold, Key
<1>9. MissingOperandsAreNoticed'
  BY <1>1, <1>6 DEF MissingOperandsAreNoticed
<1> QED
  BY <1>5, <1>7, <1>8, <1>9 DEF Inv, ToldInv

(* A process that lists, or ends without a call. *)
LEMMA WithoutCallInv ==
  ASSUME Inv,
         Usage \/ List \/ ListReturns \/ NoAction \/ MissingArguments \/ NoProtocol
  PROVE  Inv'
<1>1. /\ pc \in {"dispatch", "listing"} /\ pc' \in {"exited", "killed", "listing"}
      /\ pc' = "listing" => operation = 3
      /\ UNCHANGED << line, argv, opt, operation, action, asked, code, call, table,
                      late, echoes, run, known, unsure >>
  BY DEF Usage, List, ListReturns, NoAction, MissingArguments, NoProtocol, Exit
<1>2. /\ asked = {} /\ decided = {} /\ told = {} /\ busy = FALSE
      /\ status = "none" /\ code = 0 /\ line \in CommandLines
  BY <1>1 DEF Inv, ToldInv, Phase
<1>3. TypeOK'
  BY <1>1 DEF Inv, TypeOK, AtMostOne, call
<1>4. Phase' /\ Doubts' /\ Made'
  BY <1>1, <1>2 DEF Inv, ToldInv, Phase, Doubts, Made, KeyOf, call
<1>5. Requests' /\ MappingsAreTold'
  BY <1>1 DEF Inv, ToldInv, Requests, IsRequest, MappingsAreTold, Key
<1>6. MissingOperandsAreNoticed'
  <2>1. CASE Usage \/ List \/ ListReturns \/ NoAction
    <3>1. operation \notin {1, 2} \/ action = 0
      <4>1. CASE Usage
        BY <4>1 DEF Usage
      <4>2. CASE List
        BY <4>2 DEF List
      <4>3. CASE NoAction
        BY <4>3 DEF NoAction
      <4>4. CASE ListReturns
        BY <4>4 DEF ListReturns, Inv, ToldInv, Phase
      <4> QED
        BY <2>1, <4>1, <4>2, <4>3, <4>4
    <3>2. asked' = {}
      BY <1>1, <1>2
    <3> QED
      BY <1>1, <3>1, <3>2 DEF MissingOperandsAreNoticed
  <2>2. CASE MissingArguments
    BY <1>1, <1>2, <2>2 DEF MissingArguments, Exit, MissingOperandsAreNoticed, count
  <2>3. CASE NoProtocol
    BY <1>1, <1>2, <2>3 DEF NoProtocol, MissingOperandsAreNoticed, count, Least
  <2> QED
    BY <2>1, <2>2, <2>3
<1> QED
  BY <1>3, <1>4, <1>5, <1>6 DEF Inv, ToldInv

-----------------------------------------------------------------------------
(* The library call *)

LEMMA AskFacts ==
  ASSUME Inv, Ask
  PROVE  /\ IsRequest(pfield)
         /\ count > << 3, 2, 0 >>[action]
         /\ asked = {} /\ decided = {} /\ told = {} /\ busy = FALSE
         /\ line \in CommandLines
<1>1. action \in {1, 2, 3} /\ operation \in {1, 2}
  BY DEF Ask, Inv, TypeOK
<1>2. atoi(operand(0)) \in Nat
  BY CommandLineConstantsOK DEF CommandLineConstantsOK, atoi
<1>3. IsRequest(pfield)
  BY <1>1, <1>2 DEF pfield, Request, Via, IsRequest
<1>4. count \in Int
  BY DEF Inv, TypeOK, count
<1>5. count > << 3, 2, 0 >>[action]
  BY <1>1, <1>4 DEF Ask, Least, operand
<1> QED
  BY <1>3, <1>5 DEF Ask, Inv, ToldInv, Phase

LEMMA AskInv ==
  ASSUME Inv, CallLibrary \/ CallFails
  PROVE  Inv'
<1>1. /\ Ask /\ asked' = {pfield}
      /\ pc' \in {"calling", "exited"}
      /\ decided' = {} /\ told' = {}
      /\ pc' = "calling" => busy' = TRUE /\ status' = "none"
      /\ pc' = "exited" => busy' = FALSE /\ status' = "not sent"
      /\ UNCHANGED << line, argv, opt, operation, action, code, table, late, echoes,
                      run, known, unsure >>
  BY AskFacts DEF CallLibrary, CallFails, Ask, Call!Begin, Call!Stillborn
<1>2. pc = "dispatch"
  BY <1>1 DEF Ask
<1>3. TypeOK'
  <2>1. AtMostOne(asked') /\ AtMostOne(decided') /\ decided' \subseteq Decision
    BY <1>1 DEF AtMostOne
  <2> QED
    BY <1>1, <2>1 DEF Inv, TypeOK
<1>4. Phase' /\ Made'
  BY <1>1, <1>2, AskFacts DEF Phase, Made
<1>5. Requests'
  <2>1. \A r \in asked' : IsRequest(r)
    BY <1>1, AskFacts
  <2> QED
    BY <1>1, <2>1 DEF Inv, ToldInv, Requests
<1>6. Doubts'
  BY <1>1 DEF Inv, ToldInv, Doubts, AtMostOne, KeyOf
<1>7. MappingsAreTold'
  BY <1>1, <1>2 DEF Inv, ToldInv, MappingsAreTold, Key
<1>8. MissingOperandsAreNoticed'
  <2>1. asked' # {} /\ count' = count
    BY <1>1 DEF count
  <2> QED
    BY <1>1, <2>1, AskFacts DEF MissingOperandsAreNoticed
<1> QED
  BY <1>3, <1>4, <1>5, <1>6, <1>7, <1>8 DEF Inv, ToldInv

(* A call that comes back: what is printed settles what the user knows. *)
LEMMA CallReturnsInv ==
  ASSUME Inv, CallReturns
  PROVE  Inv'
<1>1. /\ pc = "calling" /\ pc' = "exited"
      /\ UNCHANGED << line, argv, opt, operation, action, asked, code, table, late,
                      echoes, run, decided >>
      /\ busy' = FALSE
      /\ told' \subseteq decided
      /\ status' \in {"decided", "unknown", "not sent"}
      /\ status' = "decided" => told' # {}
      /\ status' = "not sent" => decided = {}
  BY DEF CallReturns, Call!Finish
<1>2. PICK r \in asked :
        \/ \E d \in told' : d.ok = 1 /\ Success(r, d)
        \/ (\A d \in told' : d.ok = 0) /\ Error(r)
  BY DEF CallReturns
<1>3. IsRequest(r) /\ (\A q \in asked : q = r)
  BY DEF Inv, ToldInv, Requests, TypeOK, AtMostOne
<1>4. TypeOK'
  BY <1>1 DEF Inv, TypeOK, AtMostOne
<1>5. Phase' /\ Made' /\ Requests'
  BY <1>1 DEF Inv, ToldInv, Phase, Made, Requests, IsRequest
<1>6. MissingOperandsAreNoticed'
  <2>1. asked # {} /\ count' = count
    BY <1>1 DEF count
  <2> QED
    BY <1>1, <2>1 DEF Inv, MissingOperandsAreNoticed
<1>7. CASE \E d \in told' : d.ok = 1 /\ Success(r, d)
  <2>1. PICK d \in decided : d.ok = 1 /\ Success(r, d)
    BY <1>1, <1>7
  <2>2. unsure' = unsure
    BY <2>1 DEF Success
  <2>3. Doubts'
    BY <1>1, <2>1, <2>2 DEF Inv, ToldInv, Doubts, KeyOf
  <2>4. ASSUME NEW m \in table
        PROVE  m \in known' \/ Key(m) \in unsure'
    <3>1. m \in known \/ Key(m) \in unsure
          \/ (r.fn = "add" /\ \E e \in decided : m = Mapping(r, e.ext))
      BY <1>3 DEF Inv, ToldInv, MappingsAreTold
    <3>4. CASE r.fn = "exip"
      BY <2>1, <2>2, <3>1, <3>4 DEF Success
    <3>5. CASE r.fn \in {"add", "del"} /\ Key(m) # KeyOf(r)
      <4>1. \A e : m # Mapping(r, e)
        BY <3>5 DEF Mapping, Key, KeyOf
      <4>2. Except(known, KeyOf(r)) \subseteq known'
        BY <2>1, <3>5 DEF Success
      <4> QED
        BY <2>2, <3>1, <3>5, <4>1, <4>2 DEF Except
    <3>6. CASE r.fn \in {"add", "del"} /\ Key(m) = KeyOf(r)
      <4>1. KeyOf(r) \in unsure \/ (r.fn = "add" /\ m = Mapping(r, d.ext))
        BY <1>1, <2>1, <3>6 DEF Inv, ToldInv, Made
      <4>2. CASE KeyOf(r) \in unsure
        BY <2>2, <3>6, <4>2
      <4>3. CASE r.fn = "add" /\ m = Mapping(r, d.ext)
        <5>1. PrintedPort(r, d) = d.ext
          BY <1>1, <1>3, <2>1, <4>3
          DEF PrintedPort, IsRequest, Inv, ToldInv, Made
        <5> QED
          BY <2>1, <4>3, <5>1 DEF Success
      <4> QED
        BY <4>1, <4>2, <4>3
    <3> QED
      BY <1>3, <3>4, <3>5, <3>6 DEF IsRequest
  <2>5. MappingsAreTold'
    BY <1>1, <2>4 DEF MappingsAreTold, Key
  <2> QED
    BY <1>4, <1>5, <1>6, <2>3, <2>5 DEF Inv, ToldInv
<1>8. CASE (\A d \in told' : d.ok = 0) /\ Error(r)
  <2>1. known' = known /\ unsure \subseteq unsure'
    BY <1>8 DEF Error, Doubt
  <2>2. status' = "unknown" /\ r.fn = "add" => KeyOf(r) \in unsure'
    BY <1>8 DEF Error, Doubt
  <2>3. Doubts'
    BY <1>1, <1>3, <2>1, <2>2 DEF Inv, ToldInv, Doubts, KeyOf
  <2>4. ASSUME NEW m \in table
        PROVE  m \in known' \/ Key(m) \in unsure'
    <3>1. CASE m \in known \/ Key(m) \in unsure
      BY <2>1, <3>1
    <3>2. ASSUME NEW d \in decided, d.ok = 1, r.fn = "add", m = Mapping(r, d.ext)
          PROVE  Key(m) \in unsure'
      <4>1. Key(m) = KeyOf(r)
        BY <3>2 DEF Key, KeyOf, Mapping
      <4>2. CASE AtMostOne(decided)
        <5>1. ASSUME NEW e \in told'
              PROVE  FALSE
          <6>1. e \in decided /\ e.ok = 0
            BY <1>1, <1>8
          <6>2. e = d
            BY <4>2, <6>1 DEF AtMostOne
          <6> QED
            BY <3>2, <6>1, <6>2
        <5>2. decided # {}
          BY <3>2
        <5>3. status' = "unknown"
          BY <1>1, <5>1, <5>2
        <5> QED
          BY <2>2, <3>2, <4>1, <5>3
      <4>3. CASE ~AtMostOne(decided)
        <5>1. KeyOf(r) \in unsure
          BY <1>1, <3>2, <4>3 DEF Inv, ToldInv, Doubts
        <5> QED
          BY <2>1, <4>1, <5>1
      <4> QED
        BY <4>2, <4>3
    <3> QED
      BY <1>3, <3>1, <3>2 DEF Inv, ToldInv, MappingsAreTold
  <2>5. MappingsAreTold'
    BY <1>1, <2>4 DEF MappingsAreTold, Key
  <2> QED
    BY <1>4, <1>5, <1>6, <2>3, <2>5 DEF Inv, ToldInv
<1> QED
  BY <1>2, <1>7, <1>8

LEMMA KilledInv ==
  ASSUME Inv, Killed
  PROVE  Inv'
<1>1. /\ pc \in {"calling", "listing"} /\ pc' = "killed"
      /\ UNCHANGED << line, argv, opt, operation, action, asked, output, code, call,
                      table, late, echoes, run, known >>
      /\ pc = "listing" => asked = {} /\ operation = 3
  BY DEF Killed, Inv, ToldInv, Phase
<1>2. /\ unsure \subseteq unsure'
      /\ \A r \in asked : r.fn = "add" => KeyOf(r) \in unsure'
  BY DEF Killed, Doubt
<1>3. TypeOK'
  BY <1>1 DEF Inv, TypeOK, AtMostOne, call
<1>4. Phase' /\ Made' /\ Requests'
  BY <1>1 DEF Inv, ToldInv, Phase, Made, Requests, IsRequest, call
<1>5. Doubts'
  BY <1>1, <1>2 DEF Inv, ToldInv, Doubts, KeyOf, call
<1>6. MappingsAreTold'
  <2>1. ASSUME NEW m \in table
        PROVE  m \in known \/ Key(m) \in unsure'
    <3>1. \A r, d : Key(Mapping(r, d.ext)) = KeyOf(r)
      BY DEF Key, KeyOf, Mapping
    <3> QED
      BY <1>2, <3>1 DEF Inv, ToldInv, MappingsAreTold
  <2> QED
    BY <1>1, <2>1 DEF MappingsAreTold, Key
<1>7. MissingOperandsAreNoticed'
  <2>1. (asked # {} \/ operation = 3) /\ count' = count
    BY <1>1 DEF Inv, TypeOK, count
  <2> QED
    BY <1>1, <2>1 DEF Inv, MissingOperandsAreNoticed
<1> QED
  BY <1>3, <1>4, <1>5, <1>6, <1>7 DEF Inv, ToldInv

-----------------------------------------------------------------------------
(* The gateway and the network *)

LEMMA DecisionFacts ==
  ASSUME NEW r, IsRequest(r), NEW d \in Decisions(r)
  PROVE  /\ d \in Decision
         /\ d.ok = 1 /\ r.fn # "exip" => r.proto \in Supported
         /\ d.ok = 1 /\ r.fn = "add" /\ r.via = "UPnP" => d.ext = r.port
<1>1. CASE d = Refusal
  BY <1>1 DEF Refusal, Decision
<1>2. CASE d # Refusal
  <2> DEFINE ports == IF r.fn = "exip" THEN {0}
                      ELSE IF Deletes(r) \/ r.via = "UPnP" THEN {r.port} ELSE Granted
  <2>1. /\ d \in Grants(ports)
        /\ r.fn # "exip" => r.proto \in Supported
    BY <1>2 DEF Decisions, Grants
  <2>2. ports \subseteq Nat
    <3>1. 0 \in Nat /\ r.port \in Nat /\ Granted \subseteq Nat
      BY CommandLineConstantsOK DEF CommandLineConstantsOK, IsRequest
    <3> QED
      BY <3>1
  <2>3. PICK e \in ports : d = [ok |-> 1, ext |-> e]
    BY <2>1 DEF Grants
  <2> QED
    BY <2>1, <2>2, <2>3 DEF Decision
<1> QED
  BY <1>1, <1>2

LEMMA DecidedFacts ==
  ASSUME NEW r, IsRequest(r), NEW d \in Decisions(r), NEW m \in Decided(r, d)
  PROVE  \/ m \in table
         \/ /\ d.ok = 1 /\ r.fn = "add" /\ r.proto \in Supported
            /\ m = Mapping(r, d.ext)
<1>1. /\ d.ok \in 0 .. 1
      /\ d.ok = 1 /\ r.fn # "exip" => r.proto \in Supported
  BY DecisionFacts DEF Decision
<1>2. r.fn \in {"add", "exip"} \/ Deletes(r)
  BY DEF Deletes, IsRequest
<1>3. CASE d.ok = 0 \/ r.fn = "exip"
  BY <1>3 DEF Decided
<1>4. CASE ~(d.ok = 0 \/ r.fn = "exip")
  <2>1. m \in (table \ Named(r)) \cup
               (IF Deletes(r) THEN {} ELSE {Mapping(r, d.ext)})
    BY <1>4 DEF Decided
  <2> QED
    BY <1>1, <1>2, <1>4, <2>1
<1> QED
  BY <1>3, <1>4

(* Deciding on a request leaves at most its own mapping of its key. *)
LEMMA DecidedKey ==
  ASSUME NEW r, IsRequest(r), NEW d \in Decisions(r), NEW m \in Decided(r, d),
         d.ok = 1, r.fn # "exip", Key(m) = KeyOf(r)
  PROVE  r.fn = "add" /\ m = Mapping(r, d.ext)
<1>1. m \notin table \/ m \in Named(r)
  <2>1. m.via = r.via /\ m.proto = r.proto /\ m.named = r.port
    BY DEF Key, KeyOf
  <2> QED
    BY <2>1 DEF Named
<1> QED
  BY <1>1 DEF Decided, Deletes, IsRequest

LEMMA GatewayDecidesInv ==
  ASSUME Inv, GatewayDecides
  PROVE  Inv'
<1>1. PICK r \in asked :
        /\ \E d \in Decisions(r) :
             decided' = {d} /\ table' = Decided(r, d) /\ unsure' = Settled(r, d)
        /\ echoes' = IF r.via = "NAT-PMP" THEN echoes \cup {r} ELSE echoes
  BY DEF GatewayDecides
<1>2. PICK d \in Decisions(r) :
        decided' = {d} /\ table' = Decided(r, d) /\ unsure' = Settled(r, d)
  BY <1>1
<1>3. /\ decided = {} /\ status # "not sent"
      /\ UNCHANGED << process, busy, status, told, late, run, known >>
  BY DEF GatewayDecides, Call!Decide
<1>4. IsRequest(r) /\ \A q \in asked : q = r
  BY DEF Inv, ToldInv, Requests, TypeOK, AtMostOne
<1>5. TypeOK'
  <2>1. decided' \subseteq Decision /\ AtMostOne(decided)'
    BY <1>2, <1>4, DecisionFacts DEF AtMostOne
  <2>2. told' = {}
    BY <1>3 DEF Inv, TypeOK
  <2> QED
    BY <1>3, <2>1, <2>2 DEF Inv, TypeOK, AtMostOne, process
<1>6. Phase'
  BY <1>3 DEF Inv, ToldInv, Phase, process
<1>7. Requests'
  <2>1. \A m \in table' : m.proto \in Supported
    <3>1. \A e : Mapping(r, e).proto = r.proto
      BY DEF Mapping
    <3> QED
      BY <1>2, <1>4, <3>1, DecidedFacts DEF Inv, ToldInv, Requests
  <2>2. \A q \in echoes' : IsRequest(q) /\ q.via = "NAT-PMP"
    BY <1>1, <1>4 DEF Inv, ToldInv, Requests
  <2> QED
    BY <1>3, <2>1, <2>2 DEF Inv, ToldInv, Requests, IsRequest, process
<1>8. Doubts'
  <2>1. \A l \in late : l.fn = "add" => KeyOf(l) \in unsure'
    <3>1. \A l \in late : l.fn = "add" => KeyOf(l) \in unsure
      BY DEF Inv, ToldInv, Doubts
    <3> QED
      BY <1>2, <3>1 DEF Settled
  <2>2. AtMostOne(decided)' /\ decided' # {}
    BY <1>2 DEF AtMostOne
  <2> QED
    BY <1>3, <2>1, <2>2 DEF Doubts, KeyOf, process
<1>9. Made'
  <2>1. ASSUME d.ok = 1, r.fn # "exip"
        PROVE  /\ r.fn = "add" /\ r.via = "UPnP" => d.ext = r.port
               /\ \A m \in table' : Key(m) = KeyOf(r) =>
                    r.fn = "add" /\ m = Mapping(r, d.ext)
    BY <1>2, <1>4, <2>1, DecisionFacts, DecidedKey
  <2> QED
    BY <1>2, <1>3, <1>4, <2>1 DEF Made, Key, KeyOf, Mapping, process
<1>10. MappingsAreTold'
  <2>1. ASSUME NEW m \in table', m \in table
        PROVE  m \in known \/ Key(m) \in unsure
    BY <1>3, <2>1 DEF Inv, ToldInv, MappingsAreTold
  <2>2. ASSUME d.ok = 1, r.fn = "add", pc # "calling"
        PROVE  KeyOf(r) \in unsure
    BY <1>3, <2>2 DEF Inv, ToldInv, Phase, Doubts, TypeOK
  <2>3. \A e : Key(Mapping(r, e)) = KeyOf(r)
    BY DEF Key, KeyOf, Mapping
  <2>4. ASSUME NEW m \in table', m \notin table
        PROVE  d.ok = 1 /\ r.fn = "add" /\ m = Mapping(r, d.ext)
    BY <1>2, <1>4, <2>4, DecidedFacts
  <2>5. CASE pc = "calling" /\ d.ok = 1
    <3>1. ASSUME NEW m \in table', Key(m) = KeyOf(r)
          PROVE  r.fn = "add" /\ m = Mapping(r, d.ext)
      <4>1. CASE r.fn = "exip"
        <5>1. m \in table
          BY <1>2, <4>1 DEF Decided
        <5>2. m.proto \in Supported /\ NULL \notin Supported
          BY <5>1, CommandLineConstantsOK
          DEF Inv, ToldInv, Requests, CommandLineConstantsOK
        <5> QED
          BY <1>4, <3>1, <4>1, <5>2 DEF IsRequest, Key, KeyOf
      <4>2. CASE r.fn # "exip"
        BY <1>2, <1>4, <2>5, <3>1, <4>2, DecidedKey
      <4> QED
        BY <4>1, <4>2
    <3>2. \A key \in unsure : key # KeyOf(r) => key \in unsure'
      BY <1>2 DEF Settled
    <3>3. ASSUME NEW m \in table', Key(m) # KeyOf(r)
          PROVE  m \in known \/ Key(m) \in unsure'
      <4>1. m \in table
        BY <2>3, <2>4, <3>3
      <4> QED
        BY <2>1, <3>2, <3>3, <4>1
    <3> QED
      BY <1>2, <1>3, <2>5, <3>1, <3>3
      DEF MappingsAreTold, Key, KeyOf, Mapping, process
  <2>6. CASE ~(pc = "calling" /\ d.ok = 1)
    <3>1. unsure' = unsure
      BY <1>2, <2>6 DEF Settled
    <3>2. \A m \in table' : m \in known \/ Key(m) \in unsure
      BY <2>1, <2>2, <2>3, <2>4, <2>6
    <3> QED
      BY <1>3, <3>1, <3>2 DEF MappingsAreTold, Key, process
  <2> QED
    BY <2>5, <2>6
<1>11. MissingOperandsAreNoticed'
  BY <1>3 DEF Inv, MissingOperandsAreNoticed, count, process
<1> QED
  BY <1>5, <1>6, <1>7, <1>8, <1>9, <1>10, <1>11 DEF Inv, ToldInv

(* A datagram of NAT-PMP that is delivered once more: what it makes is unsure. *)
LEMMA GatewayDecidesAgainInv ==
  ASSUME Inv, GatewayDecidesAgain
  PROVE  Inv'
<1>1. PICK r \in echoes :
        /\ Doubt({r})
        /\ \E d \in Decisions(r) :
             /\ table' = Decided(r, d)
             /\ \/ UNCHANGED decided
                \/ r \in asked /\ decided # {} /\ decided' = decided \cup {d}
  BY DEF GatewayDecidesAgain
<1>2. PICK d \in Decisions(r) :
        /\ table' = Decided(r, d)
        /\ \/ UNCHANGED decided
           \/ r \in asked /\ decided # {} /\ decided' = decided \cup {d}
  BY <1>1
<1>3. UNCHANGED << process, busy, status, told, late, echoes, run, known >>
  BY DEF GatewayDecidesAgain
<1>4. IsRequest(r) /\ r.via = "NAT-PMP" /\ d \in Decision
  BY DecisionFacts DEF Inv, ToldInv, Requests
<1>5. unsure \subseteq unsure' /\ (r.fn = "add" => KeyOf(r) \in unsure')
  BY <1>1 DEF Doubt
<1>6. r \in asked => \A q \in asked : q = r
  BY DEF Inv, TypeOK, AtMostOne
<1>7. decided \subseteq decided' /\ (decided' = {} => decided = {})
  BY <1>2
<1>8. ASSUME NEW m \in table', m \notin table
      PROVE  r.fn = "add" /\ m.proto \in Supported /\ Key(m) = KeyOf(r)
  <2>1. r.fn = "add" /\ r.proto \in Supported /\ m = Mapping(r, d.ext)
    BY <1>2, <1>4, <1>8, DecidedFacts
  <2> QED
    BY <2>1 DEF Mapping, Key, KeyOf
<1>9. TypeOK'
  <2>1. decided' \subseteq Decision
    BY <1>2, <1>4 DEF Inv, TypeOK
  <2>2. (\E q \in asked : q.via = "UPnP") => AtMostOne(decided')
    <3>1. CASE decided' = decided
      BY <3>1 DEF Inv, TypeOK
    <3>2. CASE r \in asked
      BY <1>4, <1>6, <3>2
    <3> QED
      BY <1>2, <3>1, <3>2
  <2>3. told \subseteq decided'
    BY <1>7 DEF Inv, TypeOK
  <2> QED
    BY <1>3, <2>1, <2>2, <2>3 DEF Inv, TypeOK, AtMostOne, process
<1>10. Phase'
  BY <1>2, <1>3 DEF Inv, ToldInv, Phase, process
<1>11. Requests'
  BY <1>3, <1>8 DEF Inv, ToldInv, Requests, IsRequest, process
<1>12. Doubts'
  <2>1. pc \in {"exited", "killed"} /\ status # "not sent" /\ decided' = {} =>
          \A q \in asked : q.fn = "add" => KeyOf(q) \in unsure'
    BY <1>5, <1>7 DEF Inv, ToldInv, Doubts
  <2>2. pc = "calling" /\ ~AtMostOne(decided') =>
          \A q \in asked : q.fn = "add" => KeyOf(q) \in unsure'
    <3>1. CASE decided' = decided
      BY <1>5, <3>1 DEF Inv, ToldInv, Doubts
    <3>2. CASE r \in asked
      BY <1>5, <1>6, <3>2
    <3> QED
      BY <1>2, <3>1, <3>2
  <2>3. \A l \in late : l.fn = "add" => KeyOf(l) \in unsure'
    BY <1>5 DEF Inv, ToldInv, Doubts
  <2> QED
    BY <1>3, <2>1, <2>2, <2>3 DEF Doubts, AtMostOne, KeyOf, process
<1>13. Made'
  <2>1. ASSUME NEW q \in asked, NEW e \in decided, pc = "calling",
               e.ok = 1, q.fn # "exip"
        PROVE  /\ q.fn = "add" /\ q.via = "UPnP" => e.ext = q.port
               /\ \A m \in table' : Key(m) = KeyOf(q) =>
                    KeyOf(q) \in unsure' \/ (q.fn = "add" /\ m = Mapping(q, e.ext))
    BY <1>5, <1>8, <2>1 DEF Inv, ToldInv, Made
  <2>2. ASSUME r \in asked, d.ok = 1, r.fn # "exip"
        PROVE  \A m \in table' : Key(m) = KeyOf(r) =>
                 r.fn = "add" /\ m = Mapping(r, d.ext)
    BY <1>2, <1>4, <2>2, DecidedKey
  <2>3. ASSUME NEW q \in asked, NEW e \in decided', pc = "calling",
               e.ok = 1, q.fn # "exip"
        PROVE  /\ q.fn = "add" /\ q.via = "UPnP" => e.ext = q.port
               /\ \A m \in table' : Key(m) = KeyOf(q) =>
                    KeyOf(q) \in unsure' \/ (q.fn = "add" /\ m = Mapping(q, e.ext))
    <3>1. CASE e \in decided
      BY <2>1, <2>3, <3>1
    <3>2. CASE e \notin decided
      <4>1. e = d /\ r \in asked /\ q = r
        BY <1>2, <1>6, <3>2
      <4> QED
        BY <1>4, <2>2, <2>3, <4>1
    <3> QED
      BY <3>1, <3>2
  <2> QED
    BY <1>3, <2>3 DEF Made, Key, KeyOf, Mapping, process
<1>14. MappingsAreTold'
  <2>1. ASSUME NEW m \in table'
        PROVE  \/ m \in known
               \/ Key(m) \in unsure'
               \/ /\ pc = "calling"
                  /\ \E q \in asked, e \in decided' :
                       e.ok = 1 /\ q.fn = "add" /\ m = Mapping(q, e.ext)
    <3>1. CASE m \in table
      BY <1>5, <1>7, <3>1 DEF Inv, ToldInv, MappingsAreTold
    <3>2. CASE m \notin table
      BY <1>5, <1>8, <3>2
    <3> QED
      BY <3>1, <3>2
  <2> QED
    BY <1>3, <2>1 DEF MappingsAreTold, Key, Mapping, process
<1>15. MissingOperandsAreNoticed'
  BY <1>3 DEF Inv, MissingOperandsAreNoticed, count, process
<1> QED
  BY <1>9, <1>10, <1>11, <1>12, <1>13, <1>14, <1>15 DEF Inv, ToldInv

(* A step that changes the table only. *)
LEMMA TableInv ==
  ASSUME Inv, UNCHANGED << process, call, late, echoes, run, known, unsure >>,
         \A m \in table' \ table : m.proto \in Supported /\ Key(m) \in unsure
  PROVE  Inv'
<1>1. TypeOK' /\ Phase' /\ Doubts'
  BY DEF Inv, ToldInv, TypeOK, AtMostOne, Phase, Doubts, KeyOf, process, call
<1>2. Requests'
  BY DEF Inv, ToldInv, Requests, IsRequest, process
<1>3. Made'
  <2>1. ASSUME NEW m \in table', NEW r \in asked, NEW d \in decided,
               pc = "calling", d.ok = 1, r.fn # "exip", Key(m) = KeyOf(r)
        PROVE  KeyOf(r) \in unsure \/ (r.fn = "add" /\ m = Mapping(r, d.ext))
    BY <2>1 DEF Inv, ToldInv, Made
  <2> QED
    BY <2>1 DEF Inv, ToldInv, Made, Key, KeyOf, Mapping, process, call
<1>4. MappingsAreTold'
  <2>1. ASSUME NEW m \in table'
        PROVE  \/ m \in known
               \/ Key(m) \in unsure
               \/ /\ pc = "calling"
                  /\ \E r \in asked, d \in decided :
                       d.ok = 1 /\ r.fn = "add" /\ m = Mapping(r, d.ext)
    BY DEF Inv, ToldInv, MappingsAreTold
  <2> QED
    BY <2>1 DEF MappingsAreTold, Key, Mapping, process, call
<1>5. MissingOperandsAreNoticed'
  BY DEF Inv, MissingOperandsAreNoticed, count, process
<1> QED
  BY <1>1, <1>2, <1>3, <1>4, <1>5 DEF Inv, ToldInv

LEMMA NextInv ==
  ASSUME Inv, [Next]_vars
  PROVE  Inv'
<1>1. CASE UNCHANGED vars
  BY <1>1, TableInv DEF vars
<1>2. CASE Run
  BY <1>2, RunInv
<1>3. CASE Main
  BY <1>3, OptionInv, WithoutCallInv, AskInv DEF Main
<1>4. CASE Killed
  BY <1>4, KilledInv
<1>5. CASE GatewayDecides
  BY <1>5, GatewayDecidesInv
<1>6. CASE GatewayDecidesLate
  <2>1. PICK r \in late : \E d \in Decisions(r) : table' = Decided(r, d)
    BY <1>6 DEF GatewayDecidesLate
  <2>2. PICK d \in Decisions(r) : table' = Decided(r, d)
    BY <2>1
  <2>3. IsRequest(r)
    BY DEF Inv, ToldInv, Requests
  <2>4. \A e : Mapping(r, e).proto = r.proto /\ Key(Mapping(r, e)) = KeyOf(r)
    BY DEF Mapping, Key, KeyOf
  <2>5. ASSUME NEW m \in table' \ table
        PROVE  m.proto \in Supported /\ r.fn = "add" /\ KeyOf(r) = Key(m)
    BY <2>2, <2>3, <2>4, DecidedFacts
  <2>6. UNCHANGED << process, call, late, echoes, run, known, unsure >>
    BY <1>6 DEF GatewayDecidesLate
  <2>7. KeyOf(r) \in unsure \/ r.fn # "add"
    BY DEF Inv, ToldInv, Doubts
  <2>8. \A m \in table' \ table : m.proto \in Supported /\ Key(m) \in unsure
    BY <2>5, <2>7
  <2> QED
    BY <2>6, <2>8, TableInv
<1>7. CASE GatewayForgets
  BY <1>7, TableInv DEF GatewayForgets
<1>8. CASE GatewayDecidesAgain
  BY <1>8, GatewayDecidesAgainInv
<1>9. CASE Library
  BY <1>9, CallReturnsInv, WithoutCallInv DEF Library
<1> QED
  BY <1>1, <1>2, <1>3, <1>4, <1>5, <1>6, <1>7, <1>8, <1>9 DEF Next, Network

-----------------------------------------------------------------------------
(* The theorems *)

LEMMA Invariant == Spec => []Inv
<1>1. Inv /\ [Next]_vars => Inv'
  BY NextInv
<1> QED
  BY InitInv, <1>1, PTL DEF Spec

(* getopt keeps optind within argv, a process makes one call at most, of which
   it tells what the gateway decided, and a call over TCP is decided once. *)
THEOREM CommandLineTypeCorrect == Spec => []TypeOK
<1>1. Inv => TypeOK
  BY DEF Inv
<1> QED
  BY Invariant, <1>1, PTL

(* A process that got too few operands says so, unless it is deleting with
   two; no library call is made without all the operands it uses. *)
THEOREM MissingOperandsNoticed == Spec => []MissingOperandsAreNoticed
<1>1. Inv => MissingOperandsAreNoticed
  BY DEF Inv
<1> QED
  BY Invariant, <1>1, PTL

(* What the processes printed tells of every mapping of the gateway, except
   those whose adding was interrupted, ended in an error, or was delivered to
   the gateway once more. *)
THEOREM UserIsTold == Spec => []MappingsAreTold
<1>1. Inv => MappingsAreTold
  BY DEF Inv, ToldInv
<1> QED
  BY Invariant, <1>1, PTL

-----------------------------------------------------------------------------
(* What getopt has read of argv *)

Known == {"a", "d", "p", "u", "l", "e", "v"}

IsGiven(i) == IsOption(argv[i]) /\ ~EndsOptions(argv[i])

(* Letters of the arguments up to o, of the last one as far as k. *)
Seen(o, k) ==
  { p \in (2 .. o) \X Nat :
      /\ p[2] \in 2 .. Len(argv[p[1]])
      /\ p[1] = o => p[2] <= k }

LetterSeen(p) == argv[p[1]][p[2]]

(* Of those that exclude each other the last one seen counts. *)
LastSeen(o, k, letters, value) ==
  \/ value = 0 /\ \A p \in Seen(o, k) : LetterSeen(p) \notin DOMAIN letters
  \/ \E p \in Seen(o, k) :
       /\ LetterSeen(p) \in DOMAIN letters
       /\ value = letters[LetterSeen(p)]
       /\ \A q \in Seen(o, k) : Before(p, q) => LetterSeen(q) \notin DOMAIN letters

(* getopt is in argument o, or before the first one if that is the program's
   name, and has returned its letters up to k. *)
ReadTo(o, k, state) ==
  /\ o \in 1 .. Len(argv) /\ k \in Nat
  /\ state.optind \in {0, o} /\ (state.optind = 0 => o = 1)
  /\ o = 1 => state.next = << >>
  /\ o > 1 => /\ k \in 2 .. Len(argv[o])
              /\ state.next = SubSeq(argv[o], k + 1, Len(argv[o]))
  /\ \A i \in 2 .. o : IsGiven(i)

Reading ==
  \E o, k \in Nat :
    /\ ReadTo(o, k, opt)
    /\ \A p \in Seen(o, k) : LetterSeen(p) \in Known
    /\ LastSeen(o, k, Operation, operation)
    /\ LastSeen(o, k, Action, action)

LastCounts(letters, value) ==
  \/ value = 0 /\ \A p \in Places : LetterAt(p) \notin DOMAIN letters
  \/ \E x \in DOMAIN letters : value = letters[x] /\ LastIs(x, DOMAIN letters)

Understood ==
  /\ \A p \in Places : LetterAt(p) \in Known
  /\ LastCounts(Operation, operation)
  /\ LastCounts(Action, action)
  /\ count = Cardinality(OperandPlaces)
  /\ \A n \in 0 .. count - 1 : operand(n) = OperandNo(n)

IsCallable ==
  operation \in {1, 2} /\ action # 0 /\ count >= Least[action]

Asked ==
  \/ asked = {} /\ ~IsCallable
  \/ asked = {pfield} /\ IsCallable /\ (action = 2 => count # 2)

CallNamed ==
  /\ pc # "none" => argv = Arranged(line)
  /\ pc = "options" => Reading
  /\ pc \in {"dispatch", "calling", "listing"} => code = 0
  /\ pc \in {"dispatch", "calling", "listing"} \/ (pc = "exited" /\ code = 0) =>
       Understood
  /\ pc \in {"calling", "listing"} \/ (pc = "exited" /\ code = 0) => Asked
  /\ pc = "exited" /\ code = 1 =>
       asked = {} /\ \E p \in Places : LetterAt(p) \notin Known

-----------------------------------------------------------------------------
(* Orders and the numbers of their elements *)

Below(R, n, j) == { i \in 1 .. n : << i, j >> \in R }

IsOrder(R, n) ==
  /\ \A i \in 1 .. n : << i, i >> \notin R
  /\ \A i, j, k \in 1 .. n : << i, j >> \in R /\ << j, k >> \in R => << i, k >> \in R
  /\ \A i, j \in 1 .. n : i = j \/ << i, j >> \in R \/ << j, i >> \in R

(* In an order of 1 .. n each number has as many before it as its place says. *)
LEMMA OrderedPlaces ==
  ASSUME NEW n \in Nat, NEW R, IsOrder(R, n)
  PROVE  \E place \in [1 .. n -> 1 .. n] :
           /\ \A k, j \in 1 .. n : Cardinality(Below(R, n, j)) = k - 1 <=> j = place[k]
           /\ \A k, j \in 1 .. n : << place[k], place[j] >> \in R <=> k < j
           /\ \A j \in 1 .. n : \E k \in 1 .. n : place[k] = j
<1> DEFINE D == 1 .. n
           rank == [j \in D |-> Cardinality(Below(R, n, j)) + 1]
<1>1. IsFiniteSet(D) /\ Cardinality(D) = n
  BY FS_Interval
<1>2. \A j \in D : /\ Below(R, n, j) \subseteq D /\ j \notin Below(R, n, j)
                   /\ IsFiniteSet(Below(R, n, j)) /\ Cardinality(Below(R, n, j)) \in Nat
  <2> TAKE j \in D
  <2>1. Below(R, n, j) \subseteq D /\ j \notin Below(R, n, j)
    BY DEF Below, IsOrder
  <2>2. IsFiniteSet(Below(R, n, j))
    BY <1>1, <2>1, FS_Subset
  <2> QED
    BY <2>1, <2>2, FS_CardinalityType
<1>3. ASSUME NEW i \in D, NEW j \in D, << i, j >> \in R
      PROVE  rank[i] < rank[j]
  <2>1. Below(R, n, i) \subseteq Below(R, n, j) /\ i \in Below(R, n, j)
    BY <1>3 DEF Below, IsOrder
  <2>2. Cardinality(Below(R, n, i)) <= Cardinality(Below(R, n, j))
        /\ Cardinality(Below(R, n, i)) # Cardinality(Below(R, n, j))
    BY <1>2, <2>1, FS_Subset
  <2> QED
    BY <1>2, <2>2
<1>4. ASSUME NEW j \in D
      PROVE  rank[j] \in D
  <2>1. Cardinality(Below(R, n, j)) <= n /\ Cardinality(Below(R, n, j)) # n
    BY <1>1, <1>2, FS_Subset
  <2> QED
    BY <1>2, <2>1
<1>5. rank \in Injection(D, D)
  <2>1. rank \in [D -> D]
    BY <1>4
  <2>2. \A i, j \in D : rank[i] = rank[j] => i = j
    <3> SUFFICES ASSUME NEW i \in D, NEW j \in D, i # j
                 PROVE  rank[i] # rank[j]
      BY Zenon
    <3>1. << i, j >> \in R \/ << j, i >> \in R
      BY DEF IsOrder
    <3>2. rank[i] \in D /\ rank[j] \in D
      BY <1>4
    <3>3. rank[i] < rank[j] \/ rank[j] < rank[i]
      BY <1>3, <3>1
    <3> HIDE DEF rank
    <3> QED
      BY <3>2, <3>3
  <2> HIDE DEF rank
  <2> QED
    BY <2>1, <2>2 DEF Injection, IsInjective
<1>6. rank \in Surjection(D, D)
  <2> HIDE DEF rank
  <2> QED
    BY <1>1, <1>5, FS_Injection
<1>7. \A k \in D : \E j \in D : rank[j] = k
  <2> HIDE DEF rank
  <2> QED
    BY <1>6 DEF Surjection
<1> DEFINE place == [k \in D |-> CHOOSE j \in D : rank[j] = k]
<1>8. \A k \in D : place[k] \in D /\ rank[place[k]] = k
  <2> HIDE DEF rank
  <2> QED
    BY <1>7
<1>9. \A i, j \in D : rank[i] = rank[j] => i = j
  <2> HIDE DEF rank
  <2> QED
    BY <1>5 DEF Injection, IsInjective
<1>10. \A k, j \in D : Cardinality(Below(R, n, j)) = k - 1 <=> j = place[k]
  <2> TAKE k, j \in D
  <2>1. Cardinality(Below(R, n, j)) = k - 1 <=> rank[j] = k
    BY <1>2
  <2> HIDE DEF rank, place
  <2> QED
    BY <1>8, <1>9, <2>1
<1>11. \A k, j \in D : << place[k], place[j] >> \in R <=> k < j
  <2> HIDE DEF rank, place
  <2> TAKE k, j \in D
  <2>1. place[k] \in D /\ place[j] \in D /\ rank[place[k]] = k /\ rank[place[j]] = j
    BY <1>8
  <2>2. << place[k], place[j] >> \in R => k < j
    BY <1>3, <2>1
  <2>3. << place[j], place[k] >> \in R => j < k
    BY <1>3, <2>1
  <2>4. place[k] = place[j] \/ << place[k], place[j] >> \in R \/ << place[j], place[k] >> \in R
    BY <2>1 DEF IsOrder
  <2>5. place[k] = place[j] => k = j
    BY <2>1
  <2> QED
    BY <2>2, <2>3, <2>4, <2>5
<1>12. \A j \in D : \E k \in D : place[k] = j
  <2> TAKE j \in D
  <2>1. rank[j] \in D
    BY <1>4
  <2>2. place[rank[j]] = j
    <3> HIDE DEF rank
    <3> QED
      BY <1>8, <1>9, <2>1
  <2> QED
    BY <2>1, <2>2
<1>13. place \in [D -> D]
  BY <1>8
<1> HIDE DEF place
<1> QED
  BY <1>10, <1>11, <1>12, <1>13

(* A set that has all numbers below each of its own is an interval. *)
LEMMA InitialSegment ==
  ASSUME NEW n \in Nat, NEW S \in SUBSET (1 .. n),
         \A k \in S : 1 .. k \subseteq S
  PROVE  /\ Cardinality(S) \in 0 .. n
         /\ \A k \in 1 .. n : k \in S <=> k <= Cardinality(S)
<1>1. IsFiniteSet(1 .. n) /\ Cardinality(1 .. n) = n
  BY FS_Interval
<1>2. IsFiniteSet(S) /\ Cardinality(S) \in Nat /\ Cardinality(S) <= n
  BY <1>1, FS_Subset, FS_CardinalityType
<1>3. ASSUME NEW k \in S PROVE k <= Cardinality(S)
  <2>1. k \in Nat /\ IsFiniteSet(1 .. k) /\ Cardinality(1 .. k) = k
    BY FS_Interval
  <2> QED
    BY <1>2, <2>1, FS_Subset
<1>4. ASSUME NEW k \in 1 .. n, k \notin S PROVE Cardinality(S) < k
  <2>1. k - 1 \in Nat /\ IsFiniteSet(1 .. k - 1) /\ Cardinality(1 .. k - 1) = k - 1
    BY FS_Interval
  <2>2. S \subseteq 1 .. k - 1
    <3> SUFFICES ASSUME NEW i \in S PROVE i < k
      BY <2>1
    <3>1. k \notin 1 .. i
      BY <1>4
    <3> QED
      BY <3>1
  <2>3. Cardinality(S) <= k - 1
    BY <2>1, <2>2, FS_Subset
  <2> QED
    BY <1>2, <2>1, <2>3
<1> QED
  BY <1>2, <1>3, <1>4

(* The places of a set in rising order. *)
LEMMA Numbered ==
  ASSUME NEW n \in Nat, NEW S \in SUBSET Nat, NEW place \in [1 .. n -> S],
         \A k, j \in 1 .. n : k < j => place[k] < place[j],
         \A i \in S : \E k \in 1 .. n : place[k] = i
  PROVE  /\ Cardinality(S) = n
         /\ \A k \in 1 .. n, i \in S :
              Cardinality({ j \in S : j < i }) = k - 1 <=> i = place[k]
<1>1. \A k, j \in 1 .. n : place[k] = place[j] => k = j
  <2> SUFFICES ASSUME NEW k \in 1 .. n, NEW j \in 1 .. n, k # j
               PROVE  place[k] # place[j]
    BY Zenon
  <2>1. place[k] \in Nat /\ place[j] \in Nat
    OBVIOUS
  <2> QED
    BY <2>1
<1>2. Cardinality(S) = n
  <2>1. place \in Bijection(1 .. n, S)
    BY <1>1 DEF Bijection, Injection, IsInjective, Surjection
  <2> QED
    BY <2>1, FS_CountingElements DEF ExistsBijection
<1>3. ASSUME NEW k \in 1 .. n
      PROVE  Cardinality({ j \in S : j < place[k] }) = k - 1
  <2> DEFINE T == { j \in S : j < place[k] }
             f == [i \in 1 .. k - 1 |-> place[i]]
  <2>1. f \in [1 .. k - 1 -> T]
    OBVIOUS
  <2>2. \A i, j \in 1 .. k - 1 : f[i] = f[j] => i = j
    BY <1>1
  <2>3. ASSUME NEW i \in T PROVE \E j \in 1 .. k - 1 : f[j] = i
    <3>1. PICK j \in 1 .. n : place[j] = i
      OBVIOUS
    <3>2. place[k] \in Nat /\ place[j] \in Nat /\ place[j] < place[k]
      BY <3>1
    <3>3. ~ (k < j) /\ k # j
      <4>1. k < j => place[k] < place[j]
        OBVIOUS
      <4> QED
        BY <3>2, <4>1
    <3> QED
      BY <3>1, <3>3
  <2>4. f \in Bijection(1 .. k - 1, T)
    <3> HIDE DEF f, T
    <3> QED
      BY <2>1, <2>2, <2>3 DEF Bijection, Injection, IsInjective, Surjection
  <2> QED
    <3> HIDE DEF f, T
    <3>1. k - 1 \in Nat
      OBVIOUS
    <3>2. Cardinality(T) = k - 1
      BY <2>4, <3>1, FS_CountingElements DEF ExistsBijection
    <3> QED
      BY <3>2 DEF T
<1>4. ASSUME NEW k \in 1 .. n, NEW i \in S,
             Cardinality({ j \in S : j < i }) = k - 1
      PROVE  i = place[k]
  <2>1. PICK l \in 1 .. n : place[l] = i
    OBVIOUS
  <2>2. l - 1 = k - 1
    BY <1>3, <1>4, <2>1
  <2> QED
    BY <2>1, <2>2
<1> QED
  BY <1>2, <1>3, <1>4

-----------------------------------------------------------------------------
(* How getopt arranges the arguments: options, "--" if there is one, operands,
   the options and the operands among each other in the order they were typed.
   place[n] is where argument n was typed, m the last option, e the last
   argument that is no operand. *)
Arrangement(place, m, e) ==
  LET N == Len(argv)
  IN  /\ N \in Nat \ {0} /\ Len(line.args) = N
      /\ place \in [1 .. N -> 1 .. N]
      /\ \A n \in 1 .. N : argv[n] = line.args[place[n]]
      /\ m \in 1 .. N /\ e \in 1 .. N /\ (e = m \/ e = m + 1)
      /\ \A n \in 2 .. m : place[n] \in 2 .. N /\ OptionAt(place[n])
      /\ \A n, k \in 2 .. m : n < k => place[n] < place[k]
      /\ \A i \in 2 .. N : OptionAt(i) => \E n \in 2 .. m : place[n] = i
      /\ \A n \in e + 1 .. N : place[n] \in OperandPlaces
      /\ \A n, k \in e + 1 .. N : n < k => place[n] < place[k]
      /\ \A i \in OperandPlaces : \E n \in e + 1 .. N : place[n] = i
      /\ e = m => m = N \/ ~IsOption(argv[m + 1])
      /\ e = m + 1 => EndsOptions(argv[e])

LEMMA EndIsFirstDashes ==
  ASSUME NEW args, Len(args) \in Nat \ {0}
  PROVE  /\ EndOf(args) \in 2 .. Len(args) + 1
         /\ EndOf(args) <= Len(args) => IsDashes(args[EndOf(args)])
         /\ \A j \in 2 .. EndOf(args) - 1 : ~IsDashes(args[j])
<1> DEFINE n == Len(args)
           T == { i \in 1 .. n : \A j \in 2 .. i : ~IsDashes(args[j]) }
           t == Cardinality(T)
<1>1. t \in 0 .. n /\ \A i \in 1 .. n : i \in T <=> i <= t
  <2>1. \A k \in T : 1 .. k \subseteq T
    OBVIOUS
  <2> HIDE DEF T
  <2>2. T \in SUBSET (1 .. n)
    BY DEF T
  <2> QED
    BY <2>1, <2>2, InitialSegment
<1>2. t >= 1
  <2>1. 1 \in T
    OBVIOUS
  <2> HIDE DEF T
  <2> QED
    BY <1>1, <2>1
<1>3. \A j \in 2 .. t : ~IsDashes(args[j])
  <2>1. t \in T
    <3> HIDE DEF T
    <3> QED
      BY <1>1, <1>2
  <2> HIDE DEF t
  <2> QED
    BY <2>1
<1>4. t + 1 <= n => IsDashes(args[t + 1])
  <2>1. t + 1 <= n => t + 1 \notin T
    <3> HIDE DEF T
    <3> QED
      BY <1>1
  <2> HIDE DEF t
  <2>2. t \in Nat
    BY <1>1
  <2> QED
    BY <1>2, <1>3, <2>1, <2>2
<1>5. \E i \in 2 .. n + 1 : /\ i <= n => IsDashes(args[i])
                            /\ \A j \in 2 .. i - 1 : ~IsDashes(args[j])
  <2> HIDE DEF t
  <2>1. t + 1 \in 2 .. n + 1 /\ (t + 1) - 1 = t
    BY <1>1, <1>2
  <2> QED
    BY <1>3, <1>4, <2>1
<1> HIDE DEF T
<1> QED
  BY <1>5 DEF EndOf

(* glibc's getopt sorts the arguments by their rank. *)
LEMMA RanksAreKinds ==
  ASSUME line \in CommandLines, line.system = "glibc",
         NEW i \in 2 .. Len(line.args), Len(line.args) \in Nat
  PROVE  LET end == EndOf(line.args)
             rank == Rank(i, end, line.args)
         IN  /\ rank \in 1 .. 3
             /\ rank = 1 <=> OptionAt(i)
             /\ rank = 2 <=> i = end
             /\ rank = 3 <=> OperandAt(i)
             /\ rank = 3 /\ i < end => ~IsOption(line.args[i])
<1> DEFINE end == EndOf(line.args)
           n == Len(line.args)
<1>1. /\ end \in 2 .. n + 1 /\ (end <= n => IsDashes(line.args[end]))
      /\ \A j \in 2 .. end - 1 : ~IsDashes(line.args[j])
  BY EndIsFirstDashes
<1>2. \A arg : EndsOptions(arg) <=> IsDashes(arg)
  BY DEF EndsOptions
<1>3. \A j : Ends(j) <=> IsDashes(line.args[j])
  BY <1>2 DEF Ends
<1> HIDE DEF end
<1>4. IsFree(i) <=> i <= end
  BY <1>1, <1>3 DEF IsFree
<1>5. IsFree(i) /\ IsDashes(line.args[i]) <=> i = end
  BY <1>1, <1>4
<1>6. OptionAt(i) <=> i < end /\ IsOption(line.args[i])
  BY <1>2, <1>4, <1>5, <1>1 DEF OptionAt
<1>7. OperandAt(i) <=> ~(i < end /\ IsOption(line.args[i])) /\ i # end
  BY <1>2, <1>5, <1>6 DEF OperandAt
<1>8. CASE i < end /\ IsOption(line.args[i])
  <2>1. Rank(i, end, line.args) = 1
    BY <1>8 DEF Rank
  <2> QED
    BY <1>1, <1>6, <1>7, <1>8, <2>1 DEF end
<1>9. CASE i = end
  <2>1. Rank(i, end, line.args) = 2
    BY <1>9, <1>1 DEF Rank
  <2> QED
    BY <1>1, <1>6, <1>7, <1>9, <2>1 DEF end
<1>10. CASE ~(i < end /\ IsOption(line.args[i])) /\ i # end
  <2>1. Rank(i, end, line.args) = 3
    BY <1>10 DEF Rank
  <2> QED
    BY <1>1, <1>6, <1>7, <1>10, <2>1 DEF end
<1> QED
  BY <1>8, <1>9, <1>10

Sorts(place, args) ==
  LET n == Len(args)
      end == EndOf(args)
  IN  /\ place \in [1 .. n -> 1 .. n]
      /\ \A k \in 1 .. n : Permuted(args)[k] = args[place[k]]
      /\ \A k, j \in 1 .. n : Earlier(place[k], place[j], end, args) <=> k < j
      /\ \A j \in 1 .. n : \E k \in 1 .. n : place[k] = j

LEMMA PermutedByRank ==
  ASSUME NEW args, Len(args) \in Nat,
         \A i \in 1 .. Len(args) : Rank(i, EndOf(args), args) \in 0 .. 3
  PROVE  \E place : Sorts(place, args)
<1> DEFINE n == Len(args)
           end == EndOf(args)
           D == 1 .. n
           R == { p \in D \X D : Earlier(p[1], p[2], end, args) }
<1>1. \A i, j \in D : << i, j >> \in R <=> Earlier(i, j, end, args)
  OBVIOUS
<1>2. IsOrder(R, n)
  <2> HIDE DEF R
  <2>1. \A i \in D : ~Earlier(i, i, end, args)
    BY DEF Earlier
  <2>2. \A i, j, k \in D : Earlier(i, j, end, args) /\ Earlier(j, k, end, args)
                             => Earlier(i, k, end, args)
    BY DEF Earlier
  <2>3. \A i, j \in D : i = j \/ Earlier(i, j, end, args) \/ Earlier(j, i, end, args)
    BY DEF Earlier
  <2> QED
    BY <1>1, <2>1, <2>2, <2>3 DEF IsOrder
<1>3. PICK place \in [D -> D] :
        /\ \A k, j \in D : Cardinality(Below(R, n, j)) = k - 1 <=> j = place[k]
        /\ \A k, j \in D : << place[k], place[j] >> \in R <=> k < j
        /\ \A j \in D : \E k \in D : place[k] = j
  <2>1. \A Q : IsOrder(Q, n) =>
          \E place \in [D -> D] :
            /\ \A k, j \in D : Cardinality(Below(Q, n, j)) = k - 1 <=> j = place[k]
            /\ \A k, j \in D : << place[k], place[j] >> \in Q <=> k < j
            /\ \A j \in D : \E k \in D : place[k] = j
    BY OrderedPlaces
  <2> HIDE DEF R, D
  <2> QED
    BY <1>2, <2>1
<1>4. ASSUME NEW k \in D
      PROVE  PlaceOf(k, args) = place[k]
  <2>1. \A j \in D : { i \in D : Earlier(i, j, end, args) } = Below(R, n, j)
    BY DEF Below
  <2> HIDE DEF R
  <2>2. \A j \in D : Cardinality({ i \in D : Earlier(i, j, end, args) }) = k - 1
                       <=> j = place[k]
    BY <1>3, <2>1
  <2>3. PlaceOf(k, args) \in D
        /\ Cardinality({ i \in D : Earlier(i, PlaceOf(k, args), end, args) }) = k - 1
    <3>1. place[k] \in D
          /\ Cardinality({ i \in D : Earlier(i, place[k], end, args) }) = k - 1
      BY <2>2
    <3>2. PlaceOf(k, args) =
            CHOOSE j \in D : Cardinality({ i \in D : Earlier(i, j, end, args) }) = k - 1
      BY DEF PlaceOf
    <3> QED
      BY <3>1, <3>2
  <2> QED
    BY <2>2, <2>3
<1>5. \A k \in D : Permuted(args)[k] = args[place[k]]
  BY <1>4 DEF Permuted
<1>6. \A k, j \in D : Earlier(place[k], place[j], end, args) <=> k < j
  <2> HIDE DEF R
  <2> QED
    BY <1>1, <1>3
<1> HIDE DEF R
<1>7. Sorts(place, args)
  BY <1>3, <1>5, <1>6 DEF Sorts
<1> QED
  BY <1>7

(* Ranks rise along the places, and the places of one rank rise, too: enough
   to say where the options, "--" and the operands stand. *)
LEMMA GlibcArranges ==
  ASSUME line \in CommandLines, line.system = "glibc", argv = Arranged(line)
  PROVE  \E place, m, e : Arrangement(place, m, e)
<1> DEFINE end == EndOf(line.args)
           n == Len(line.args)
           rank(i) == Rank(i, end, line.args)
<1>1. n \in Nat \ {0} /\ Len(argv) = n
  BY ArrangedLength
<1>2. rank(1) = 0
  BY DEF Rank
<1>3. \A i \in 2 .. n :
        /\ rank(i) \in 1 .. 3
        /\ rank(i) = 1 <=> OptionAt(i)
        /\ rank(i) = 2 <=> i = end
        /\ rank(i) = 3 <=> OperandAt(i)
        /\ rank(i) = 3 /\ i < end => ~IsOption(line.args[i])
  BY <1>1, RanksAreKinds
<1>4. end \in 2 .. n + 1 /\ (end <= n => IsDashes(line.args[end]))
  BY <1>1, EndIsFirstDashes
<1>5. \A i \in 1 .. n : rank(i) \in 0 .. 3 /\ (rank(i) = 0 <=> i = 1)
  <2> HIDE DEF rank
  <2> TAKE i \in 1 .. n
  <2>1. i = 1 \/ i \in 2 .. n
    BY <1>1
  <2> QED
    BY <1>2, <1>3, <2>1
<1>6. PICK place : Sorts(place, line.args)
  <2>1. \A i \in 1 .. n : Rank(i, end, line.args) \in 0 .. 3
    BY <1>5
  <2> QED
    BY <1>1, <2>1, PermutedByRank
<1>7. /\ place \in [1 .. n -> 1 .. n]
      /\ \A k \in 1 .. n : Permuted(line.args)[k] = line.args[place[k]]
      /\ \A k, j \in 1 .. n : Earlier(place[k], place[j], end, line.args) <=> k < j
      /\ \A j \in 1 .. n : \E k \in 1 .. n : place[k] = j
  BY <1>6 DEF Sorts
<1>8. \A k, j \in 1 .. n : k < j =>
        \/ rank(place[k]) < rank(place[j])
        \/ rank(place[k]) = rank(place[j]) /\ place[k] < place[j]
  BY <1>7 DEF Earlier
<1>9. \A k \in 1 .. n : argv[k] = line.args[place[k]]
  BY <1>7 DEF Arranged
<1> HIDE DEF rank, end
<1>10. place[1] = 1
  <2>1. PICK k \in 1 .. n : place[k] = 1
    BY <1>1, <1>7
  <2>2. ~(1 < k)
    <3>1. rank(place[1]) \in 0 .. 3 /\ place[1] \in 1 .. n
      <4>1. 1 \in 1 .. n
        BY <1>1
      <4>2. place[1] \in 1 .. n
        BY <1>7, <4>1
      <4> QED
        BY <1>5, <4>2
    <3>2. ~(rank(place[1]) < rank(place[k])) /\ ~(place[1] < place[k])
      BY <1>2, <2>1, <3>1
    <3> QED
      BY <1>1, <1>8, <3>2
  <2> QED
    BY <2>1, <2>2
<1>11. \A k \in 2 .. n : place[k] \in 2 .. n
  <2> TAKE k \in 2 .. n
  <2>1. place[k] \in 1 .. n
    <3>1. k \in 1 .. n
      OBVIOUS
    <3> QED
      BY <1>7, <3>1
  <2>2. place[k] # 1
    <3>1. rank(place[1]) < rank(place[k]) \/ place[1] < place[k]
      BY <1>1, <1>8
    <3> QED
      BY <1>2, <1>10, <3>1
  <2> QED
    BY <2>1, <2>2
<1> DEFINE S == { k \in 1 .. n : rank(place[k]) <= 1 }
           m == Cardinality(S)
           e == IF end <= n THEN m + 1 ELSE m
<1>12. /\ m \in 0 .. n
       /\ \A k \in 1 .. n : rank(place[k]) <= 1 <=> k <= m
  <2>1. \A k \in S : 1 .. k \subseteq S
    <3> TAKE k \in S
    <3> SUFFICES ASSUME NEW j \in 1 .. k, j # k
                 PROVE  rank(place[j]) <= 1 /\ j \in 1 .. n
      OBVIOUS
    <3>1. j \in 1 .. n /\ j < k
      OBVIOUS
    <3>2. rank(place[j]) <= rank(place[k])
      <4>1. rank(place[j]) \in 0 .. 3 /\ rank(place[k]) \in 0 .. 3
        BY <1>5, <1>7, <3>1
      <4> QED
        BY <1>8, <3>1, <4>1
    <3>3. rank(place[j]) \in 0 .. 3 /\ rank(place[k]) \in 0 .. 3
      BY <1>5, <1>7, <3>1
    <3> QED
      BY <3>1, <3>2, <3>3
  <2>2. \A k \in 1 .. n : k \in S <=> rank(place[k]) <= 1
    OBVIOUS
  <2>3. S \in SUBSET (1 .. n) /\ n \in Nat
    BY <1>1
  <2> HIDE DEF S
  <2>4. Cardinality(S) \in 0 .. n /\ \A k \in 1 .. n : k \in S <=> k <= Cardinality(S)
    BY <2>1, <2>3, InitialSegment
  <2> QED
    BY <2>2, <2>4
<1> HIDE DEF m
<1>13. m >= 1
  BY <1>1, <1>2, <1>10, <1>12
<1>14. \A k \in 2 .. m : OptionAt(place[k]) /\ rank(place[k]) = 1
  <2> TAKE k \in 2 .. m
  <2>1. k \in 2 .. n /\ place[k] \in 2 .. n
    BY <1>11, <1>12
  <2>2. rank(place[k]) <= 1 /\ rank(place[k]) \in 1 .. 3
    BY <1>3, <1>12, <2>1
  <2> QED
    BY <1>3, <2>1, <2>2
<1>15. \A k, j \in 2 .. m : k < j => place[k] < place[j]
  <2> TAKE k, j \in 2 .. m
  <2>1. k \in 1 .. n /\ j \in 1 .. n
    BY <1>12
  <2> QED
    BY <1>8, <1>14, <2>1
<1>16. \A i \in 2 .. n : OptionAt(i) => \E k \in 2 .. m : place[k] = i
  <2> TAKE i \in 2 .. n
  <2> HAVE OptionAt(i)
  <2>1. PICK k \in 1 .. n : place[k] = i
    <3>1. i \in 1 .. n
      OBVIOUS
    <3> QED
      BY <1>7, <3>1
  <2>2. rank(i) = 1 /\ k # 1
    BY <1>3, <1>10, <2>1
  <2>3. k <= m
    BY <1>12, <2>1, <2>2
  <2> QED
    BY <2>1, <2>2, <2>3
<1>17. end <= n => m + 1 <= n /\ place[m + 1] = end
  <2> HAVE end <= n
  <2>1. PICK k \in 1 .. n : place[k] = end
    BY <1>4, <1>7
  <2>2. rank(end) = 2
    BY <1>3, <1>4
  <2>3. m < k
    BY <1>12, <2>1, <2>2
  <2>4. m + 1 \in 1 .. n /\ m + 1 \in 2 .. n /\ ~(m + 1 <= m)
    BY <1>12, <1>13, <2>3
  <2>5. rank(place[m + 1]) \in 2 .. 3
    <3>1. ~(rank(place[m + 1]) <= 1)
      BY <1>12, <2>4
    <3>2. rank(place[m + 1]) \in 1 .. 3
      BY <1>3, <1>11, <2>4
    <3> QED
      BY <3>1, <3>2
  <2>6. CASE m + 1 < k
    <3>1. \/ rank(place[m + 1]) < 2
          \/ rank(place[m + 1]) = 2 /\ place[m + 1] < end
      BY <1>8, <2>1, <2>2, <2>4, <2>6
    <3>2. rank(place[m + 1]) = 2 /\ place[m + 1] < end
      BY <2>5, <3>1
    <3>3. place[m + 1] = end
      BY <1>3, <1>11, <2>4, <3>2
    <3> QED
      BY <1>4, <3>2, <3>3
  <2>7. CASE ~(m + 1 < k)
    <3>1. m + 1 = k
      BY <1>12, <2>3, <2>7
    <3> QED
      BY <2>1, <2>4, <3>1
  <2> QED
    BY <2>6, <2>7
<1>18. \A k \in e + 1 .. n : k \in 2 .. n /\ place[k] \in 2 .. n /\ rank(place[k]) = 3
  <2> TAKE k \in e + 1 .. n
  <2>1. k \in 2 .. n /\ k > m /\ k > e
    BY <1>12, <1>13
  <2>2. place[k] \in 2 .. n /\ rank(place[k]) \in 1 .. 3
    BY <1>3, <1>11, <2>1
  <2>3. ~(rank(place[k]) <= 1)
    BY <1>12, <2>1
  <2>4. rank(place[k]) # 2
    <3> SUFFICES ASSUME place[k] = end PROVE FALSE
      BY <1>3, <2>2
    <3>1. end <= n
      BY <2>2
    <3>2. m + 1 \in 1 .. n /\ place[m + 1] = end /\ m + 1 < k
      BY <1>12, <1>13, <1>17, <2>1, <3>1
    <3>3. rank(place[m + 1]) < rank(place[k]) \/ place[m + 1] < place[k]
      BY <1>8, <2>1, <3>2
    <3>4. rank(end) = 2 /\ end \in Nat
      BY <1>3, <2>2
    <3> QED
      BY <3>2, <3>3, <3>4
  <2> QED
    BY <2>1, <2>2, <2>3, <2>4
<1>19. \A k \in e + 1 .. n : place[k] \in OperandPlaces
  BY <1>3, <1>18 DEF OperandPlaces
<1>20. \A k, j \in e + 1 .. n : k < j => place[k] < place[j]
  <2> TAKE k, j \in e + 1 .. n
  <2>1. k \in 1 .. n /\ j \in 1 .. n /\ rank(place[k]) = 3 /\ rank(place[j]) = 3
    BY <1>18
  <2> QED
    BY <1>8, <2>1
<1>21. \A i \in OperandPlaces : \E k \in e + 1 .. n : place[k] = i
  <2> TAKE i \in OperandPlaces
  <2>1. i \in 2 .. n /\ rank(i) = 3
    BY <1>3 DEF OperandPlaces
  <2>2. PICK k \in 1 .. n : place[k] = i
    BY <1>7, <2>1
  <2>3. k > m
    BY <1>12, <2>1, <2>2
  <2>4. end <= n => k # m + 1
    BY <1>3, <1>17, <2>1, <2>2
  <2> QED
    BY <1>12, <2>2, <2>3, <2>4
<1>22. e = m => m = n \/ ~IsOption(argv[m + 1])
  <2> SUFFICES ASSUME e = m, m < n PROVE ~IsOption(argv[m + 1])
    BY <1>12
  <2>1. ~(end <= n)
    BY <1>12
  <2>2. m + 1 \in e + 1 .. n /\ m + 1 \in 1 .. n
    BY <1>12
  <2>3. place[m + 1] \in 2 .. n /\ rank(place[m + 1]) = 3 /\ place[m + 1] < end
    BY <1>4, <1>18, <2>1, <2>2
  <2> QED
    BY <1>3, <1>9, <2>2, <2>3
<1>23. e = m + 1 => EndsOptions(argv[e])
  <2> HAVE e = m + 1
  <2>1. end <= n
    BY <1>12
  <2>2. argv[e] = line.args[end]
    BY <1>9, <1>12, <1>17, <2>1
  <2> QED
    BY <1>4, <2>1, <2>2 DEF EndsOptions
<1>24. m \in 1 .. n /\ e \in 1 .. n /\ (e = m \/ e = m + 1)
  BY <1>12, <1>13, <1>17
<1> HIDE DEF e
<1>25. Arrangement(place, m, e)
  <2>1. Len(argv) \in Nat \ {0} /\ Len(line.args) = Len(argv)
    BY <1>1
  <2>2. \A k \in 2 .. m : place[k] \in 2 .. n /\ OptionAt(place[k])
    BY <1>11, <1>14, <1>24
  <2> QED
    BY <1>1, <1>7, <1>9, <1>15, <1>16, <1>19, <1>20, <1>21, <1>22, <1>23, <1>24,
       <2>1, <2>2 DEF Arrangement
<1> QED
  BY <1>25

(* Other systems leave the arguments as they were typed: the options end at
   the first operand. *)
LEMMA OthersArrange ==
  ASSUME line \in CommandLines, line.system # "glibc", argv = Arranged(line)
  PROVE  \E place, m, e : Arrangement(place, m, e)
<1> DEFINE n == Len(line.args)
           place == [k \in 1 .. n |-> k]
           S == { i \in 1 .. n : i = 1 \/ OptionAt(i) }
           m == Cardinality(S)
           e == IF m < n /\ EndsOptions(argv[m + 1]) THEN m + 1 ELSE m
<1>1. n \in Nat \ {0} /\ Len(argv) = n
  BY ArrangedLength
<1>2. argv = line.args
  BY DEF Arranged
<1>3. \A i : Ends(i) <=> EndsOptions(argv[i]) \/ ~IsOption(argv[i])
  BY <1>2 DEF Ends
<1>4. \A i : OptionAt(i) <=> IsFree(i) /\ ~Ends(i)
  BY <1>2, <1>3 DEF OptionAt
<1>5. m \in 0 .. n /\ \A k \in 1 .. n : k = 1 \/ OptionAt(k) <=> k <= m
  <2>1. \A k \in S : 1 .. k \subseteq S
    <3> TAKE k \in S
    <3> SUFFICES ASSUME NEW j \in 1 .. k, j # 1, j # k
                 PROVE  j \in 1 .. n /\ OptionAt(j)
      OBVIOUS
    <3>1. j \in 1 .. n /\ j \in 2 .. k - 1 /\ OptionAt(k)
      OBVIOUS
    <3>2. IsFree(j) /\ ~Ends(j)
      BY <1>4, <3>1 DEF IsFree
    <3> QED
      BY <1>4, <3>1, <3>2
  <2>2. \A k \in 1 .. n : k \in S <=> k = 1 \/ OptionAt(k)
    OBVIOUS
  <2>3. S \in SUBSET (1 .. n) /\ n \in Nat
    BY <1>1
  <2> HIDE DEF S
  <2>4. m \in 0 .. n /\ \A k \in 1 .. n : k \in S <=> k <= m
    BY <2>1, <2>3, InitialSegment
  <2> QED
    BY <2>2, <2>4
<1> HIDE DEF m
<1>6. m >= 1
  BY <1>1, <1>5
<1>7. \A k \in 2 .. m : OptionAt(k)
  BY <1>5
<1>8. m < n => IsFree(m + 1) /\ Ends(m + 1) /\ ~OptionAt(m + 1)
  <2> HAVE m < n
  <2>1. ~OptionAt(m + 1)
    BY <1>5, <1>6
  <2>2. IsFree(m + 1)
    BY <1>4, <1>5, <1>7 DEF IsFree
  <2> QED
    BY <1>4, <2>1, <2>2
<1>9. m < n => (OperandAt(m + 1) <=> e = m)
  <2> HAVE m < n
  <2>1. OperandAt(m + 1) <=> ~EndsOptions(argv[m + 1])
    BY <1>2, <1>8 DEF OperandAt
  <2> QED
    BY <1>5, <2>1
<1>10. \A k \in m + 2 .. n : OperandAt(k)
  <2> TAKE k \in m + 2 .. n
  <2>1. m + 1 \in 2 .. k - 1 /\ m < n
    BY <1>5, <1>6
  <2>2. ~IsFree(k)
    BY <1>8, <2>1 DEF IsFree
  <2> QED
    BY <2>2 DEF OperandAt, OptionAt
<1>11. \A k \in 2 .. n : OperandAt(k) <=> k > e
  <2> TAKE k \in 2 .. n
  <2>1. CASE k <= m
    <3>1. OptionAt(k)
      BY <1>7, <2>1
    <3> QED
      BY <1>5, <2>1, <3>1 DEF OperandAt
  <2>2. CASE k = m + 1
    BY <1>5, <1>9, <2>2
  <2>3. CASE k > m + 1
    BY <1>5, <1>10, <2>3
  <2> QED
    BY <1>5, <2>1, <2>2, <2>3
<1>12. m \in 1 .. n /\ e \in 1 .. n /\ (e = m \/ e = m + 1)
  BY <1>5, <1>6
<1>13. e = m => m = n \/ ~IsOption(argv[m + 1])
  BY <1>3, <1>5, <1>8
<1>14. e = m + 1 => EndsOptions(argv[e])
  BY <1>5
<1> HIDE DEF e
<1>15. \A k \in 1 .. n : place[k] = k
  OBVIOUS
<1>16. place \in [1 .. n -> 1 .. n]
  OBVIOUS
<1> HIDE DEF place
<1>17. \A k \in 2 .. m : place[k] \in 2 .. n /\ OptionAt(place[k])
  BY <1>7, <1>12, <1>15
<1>18. \A k, j \in 2 .. m : k < j => place[k] < place[j]
  BY <1>12, <1>15
<1>19. \A i \in 2 .. n : OptionAt(i) => \E k \in 2 .. m : place[k] = i
  BY <1>5, <1>12, <1>15
<1>20. \A k \in e + 1 .. n : place[k] \in OperandPlaces
  BY <1>11, <1>12, <1>15 DEF OperandPlaces
<1>21. \A k, j \in e + 1 .. n : k < j => place[k] < place[j]
  BY <1>12, <1>15
<1>22. \A i \in OperandPlaces : \E k \in e + 1 .. n : place[k] = i
  BY <1>11, <1>12, <1>15 DEF OperandPlaces
<1>23. \A k \in 1 .. n : argv[k] = line.args[place[k]]
  BY <1>2, <1>15
<1>24. Arrangement(place, m, e)
  BY <1>1, <1>12, <1>13, <1>14, <1>16, <1>17, <1>18, <1>19, <1>20, <1>21, <1>22,
     <1>23 DEF Arrangement
<1> QED
  BY <1>24

LEMMA Arranges ==
  ASSUME line \in CommandLines, argv = Arranged(line)
  PROVE  \E place, m, e : Arrangement(place, m, e)
BY GlibcArranges, OthersArrange

-----------------------------------------------------------------------------
(* What the arrangement says of places and operands *)

LEMMA ArgumentsAreTexts ==
  ASSUME line \in CommandLines, NEW place, NEW m, NEW e, Arrangement(place, m, e)
  PROVE  /\ Len(argv) \in Nat \ {0}
         /\ \A n \in 1 .. Len(argv) : argv[n] \in Seq(STRING)
<1>1. line.args \in Seq(Seq(STRING))
  BY DEF CommandLines, Arguments
<1>2. \A n \in 1 .. Len(argv) : place[n] \in 1 .. Len(line.args)
                                /\ argv[n] = line.args[place[n]]
  BY DEF Arrangement
<1>3. \A i \in 1 .. Len(line.args) : line.args[i] \in Seq(STRING)
  BY <1>1
<1> QED
  BY <1>2, <1>3 DEF Arrangement

LEMMA OperandsInPlace ==
  ASSUME NEW place, NEW m, NEW e, Arrangement(place, m, e)
  PROVE  /\ Cardinality(OperandPlaces) = Len(argv) - e
         /\ \A k \in 0 .. (Len(argv) - e) - 1 : OperandNo(k) = argv[e + k + 1]
<1> DEFINE n == Len(argv) - e
           S == OperandPlaces
           f == [k \in 1 .. n |-> place[e + k]]
<1>1. /\ Len(argv) \in Nat /\ e \in Nat /\ n \in Nat
      /\ S \in SUBSET Nat
      /\ \A i \in 1 .. Len(argv) : argv[i] = line.args[place[i]]
      /\ \A i \in e + 1 .. Len(argv) : place[i] \in S
      /\ \A i, j \in e + 1 .. Len(argv) : i < j => place[i] < place[j]
      /\ \A i \in S : \E k \in e + 1 .. Len(argv) : place[k] = i
  BY DEF Arrangement, OperandPlaces
<1> HIDE DEF S
<1>2. \A k \in 1 .. n : e + k \in e + 1 .. Len(argv) /\ f[k] = place[e + k]
  BY <1>1
<1>3. f \in [1 .. n -> S]
  BY <1>1, <1>2
<1> HIDE DEF f
<1>4. \A k, j \in 1 .. n : k < j => f[k] < f[j]
  <2> TAKE k, j \in 1 .. n
  <2> HAVE k < j
  <2>1. e + k < e + j
    BY <1>1
  <2> QED
    BY <1>1, <1>2, <2>1
<1>5. \A i \in S : \E k \in 1 .. n : f[k] = i
  <2> TAKE i \in S
  <2>1. PICK k \in e + 1 .. Len(argv) : place[k] = i
    BY <1>1
  <2>2. k - e \in 1 .. n /\ e + (k - e) = k
    BY <1>1
  <2> QED
    BY <1>2, <2>1, <2>2
<1>6. /\ Cardinality(S) = n
      /\ \A k \in 1 .. n, i \in S :
           Cardinality({ j \in S : j < i }) = k - 1 <=> i = f[k]
  <2> HIDE DEF n
  <2> QED
    BY <1>1, <1>3, <1>4, <1>5, Numbered
<1>7. ASSUME NEW k \in 0 .. n - 1
      PROVE  OperandNo(k) = argv[e + k + 1]
  <2>1. k + 1 \in 1 .. n /\ (k + 1) - 1 = k /\ e + (k + 1) = e + k + 1
        /\ e + k + 1 \in 1 .. Len(argv)
    <3>1. k \in Nat /\ k <= n - 1
      BY <1>1
    <3>2. k + 1 \in 1 .. n /\ (k + 1) - 1 = k
      <4> HIDE DEF n
      <4> QED
        BY <1>1, <3>1
    <3>3. k + 1 <= Len(argv) - e
      BY <1>1, <3>1
    <3> QED
      BY <1>1, <3>1, <3>2, <3>3
  <2>2. f[k + 1] \in S /\ f[k + 1] = place[e + k + 1]
    BY <1>2, <1>3, <2>1
  <2>3. \A i \in S : Cardinality({ j \in S : j < i }) = k <=> i = f[k + 1]
    BY <1>6, <2>1
  <2>4. OperandNo(k) = line.args[CHOOSE i \in S : Cardinality({ j \in S : j < i }) = k]
    BY DEF OperandNo, S
  <2>5. (CHOOSE i \in S : Cardinality({ j \in S : j < i }) = k) = f[k + 1]
    BY <2>2, <2>3
  <2> QED
    BY <1>1, <2>1, <2>2, <2>4, <2>5
<1> QED
  BY <1>6, <1>7 DEF S

(* The letters usage() speaks of are those of the first m arguments. *)
LEMMA LettersInPlace ==
  ASSUME NEW place, NEW m, NEW e, Arrangement(place, m, e)
  PROVE  /\ \A n \in 2 .. m : \A c \in 2 .. Len(argv[n]) :
              << place[n], c >> \in Places
              /\ LetterAt(<< place[n], c >>) = argv[n][c]
         /\ \A p \in Places : \E n \in 2 .. m : \E c \in 2 .. Len(argv[n]) :
              p = << place[n], c >>
<1>1. /\ Len(argv) \in Nat /\ Len(line.args) = Len(argv) /\ m \in 1 .. Len(argv)
      /\ \A n \in 1 .. Len(argv) : argv[n] = line.args[place[n]]
      /\ \A n \in 2 .. m : place[n] \in 2 .. Len(line.args) /\ OptionAt(place[n])
      /\ \A i \in 2 .. Len(line.args) : OptionAt(i) => \E n \in 2 .. m : place[n] = i
  BY DEF Arrangement
<1>2. ASSUME NEW n \in 2 .. m, NEW c \in 2 .. Len(argv[n])
      PROVE  << place[n], c >> \in Places /\ LetterAt(<< place[n], c >>) = argv[n][c]
  <2>1. argv[n] = line.args[place[n]]
    BY <1>1
  <2>2. place[n] \in { j \in 2 .. Len(line.args) : OptionAt(j) }
    BY <1>1
  <2>3. << place[n], c >> \in {place[n]} \X (2 .. Len(line.args[place[n]]))
    BY <2>1
  <2>4. << place[n], c >> \in Places
    BY <2>2, <2>3 DEF Places
  <2> QED
    BY <2>1, <2>4 DEF LetterAt
<1>3. ASSUME NEW p \in Places
      PROVE  \E n \in 2 .. m : \E c \in 2 .. Len(argv[n]) : p = << place[n], c >>
  <2>1. PICK i \in 2 .. Len(line.args) : OptionAt(i) /\ p \in {i} \X (2 .. Len(line.args[i]))
    BY DEF Places
  <2>2. PICK n \in 2 .. m : place[n] = i
    BY <1>1, <2>1
  <2>3. argv[n] = line.args[i]
    BY <1>1, <2>2
  <2> QED
    BY <2>1, <2>2, <2>3
<1> QED
  BY <1>2, <1>3

(* getopt gets no further than the last option, and no less far. *)
LEMMA GivenAreFirst ==
  ASSUME NEW place, NEW m, NEW e, Arrangement(place, m, e),
         NEW o \in 1 .. Len(argv), \A i \in 2 .. o : IsGiven(i)
  PROVE  /\ o <= m
         /\ o = Len(argv) \/ ~IsGiven(o + 1) => o = m
<1>1. /\ Len(argv) \in Nat /\ m \in 1 .. Len(argv)
      /\ \A n \in 1 .. Len(argv) : argv[n] = line.args[place[n]]
      /\ \A n \in 2 .. m : OptionAt(place[n])
      /\ m < Len(argv) => ~IsOption(argv[m + 1]) \/ EndsOptions(argv[m + 1])
  BY DEF Arrangement
<1>2. o <= m
  <2> SUFFICES ASSUME m < o PROVE FALSE
    BY <1>1
  <2>1. m + 1 \in 2 .. o
    BY <1>1
  <2> QED
    BY <1>1, <2>1 DEF IsGiven
<1>3. \A n \in 2 .. m : IsGiven(n)
  <2> TAKE n \in 2 .. m
  <2>1. argv[n] = line.args[place[n]]
    BY <1>1
  <2> QED
    BY <1>1, <2>1 DEF IsGiven, OptionAt
<1> QED
  BY <1>1, <1>2, <1>3

-----------------------------------------------------------------------------
(* One call of getopt *)

LEMMA RestOfGroup ==
  ASSUME NEW s \in Seq(STRING), NEW k \in Nat, k <= Len(s)
  PROVE  LET rest == SubSeq(s, k + 1, Len(s))
         IN  /\ rest = << >> <=> k = Len(s)
             /\ k < Len(s) => /\ Head(rest) = s[k + 1]
                              /\ Tail(rest) = SubSeq(s, (k + 1) + 1, Len(s))
<1> DEFINE rest == SubSeq(s, k + 1, Len(s))
<1>1. Len(s) \in Nat /\ rest \in Seq(STRING) /\ Len(rest) = Len(s) - k
      /\ \A i \in 1 .. Len(s) - k : rest[i] = s[k + i]
  OBVIOUS
<1>2. rest = << >> <=> k = Len(s)
  <2>1. rest = << >> <=> Len(rest) = 0
    <3> HIDE DEF rest
    <3> QED
      BY <1>1, EmptySeq
  <2> QED
    BY <1>1, <2>1
<1>3. ASSUME k < Len(s)
      PROVE  Head(rest) = s[k + 1] /\ Tail(rest) = SubSeq(s, (k + 1) + 1, Len(s))
  BY <1>1, <1>3
<1> QED
  BY <1>2, <1>3

LEMMA TailIsRest ==
  ASSUME NEW s \in Seq(STRING), Len(s) > 1
  PROVE  /\ Head(Tail(s)) = s[2]
         /\ Tail(Tail(s)) = SubSeq(s, 2 + 1, Len(s))
OBVIOUS

LEMMA LettersOfMain ==
  /\ Letters(OptString) = {"a", "d", "h", "p", "u", "l", "e", "v"}
  /\ \A c : ~TakesArgument(c, OptString)
  /\ "-" \notin Letters(OptString)
BY DEF Letters, TakesArgument, OptString

(* An option of main() stands for itself. *)
LEMMA OptionStands ==
  ASSUME NEW args, NEW i, NEW group
  PROVE  Option(args, OptString, i, group) =
           State(i, Tail(group), NULL,
                 IF Head(group) \in Letters(OptString) THEN Head(group) ELSE "?")
BY LettersOfMain, Zenon DEF Option

(* getopt returns the letter behind those it has returned and moves on by that
   one; or it has returned all letters of the options and stands behind them,
   or behind what ends them. *)
IsNextLetter(o, k, o2, k2) ==
  /\ o2 >= 2 /\ k2 <= Len(argv[o2])
  /\ << o2, k2 >> \in Seen(o2, k2)
  /\ Seen(o2, k2) = Seen(o, k) \cup {<< o2, k2 >>}
  /\ \A p \in Seen(o, k) : Before(p, << o2, k2 >>)

IsLetterRead(o, k, o2, k2) ==
  /\ ReadTo(o2, k2, Read)
  /\ IsNextLetter(o, k, o2, k2)
  /\ Read.ret = IF argv[o2][k2] \in Letters(OptString) THEN argv[o2][k2] ELSE "?"

IsEndRead(o, k) ==
  /\ Read.ret = "EOF"
  /\ o > 1 => k = Len(argv[o])
  /\ \/ Read.optind = o /\ (o = Len(argv) \/ ~IsOption(argv[o + 1]))
     \/ Read.optind = o + 1 /\ o < Len(argv) /\ EndsOptions(argv[o + 1])

LEMMA NextInGroup ==
  ASSUME NEW o \in 2 .. Len(argv), Len(argv) \in Nat, NEW k \in Nat,
         argv[o] \in Seq(STRING), k \in 2 .. Len(argv[o]) - 1
  PROVE  IsNextLetter(o, k, o, k + 1)
<1>1. Len(argv[o]) \in Nat /\ k + 1 \in 2 .. Len(argv[o]) /\ k < k + 1
  OBVIOUS
<1>2. << o, k + 1 >> \in Seen(o, k + 1)
  BY <1>1 DEF Seen
<1>3. ASSUME NEW p \in Seen(o, k + 1), p # << o, k + 1 >>
      PROVE  p \in Seen(o, k)
  <2>1. /\ p \in (2 .. o) \X Nat /\ p[2] \in 2 .. Len(argv[p[1]])
        /\ p[1] = o => p[2] <= k + 1
    BY <1>3 DEF Seen
  <2>2. p = << p[1], p[2] >>
    BY <2>1
  <2>3. p[1] = o => p[2] # k + 1
    BY <1>3, <2>2
  <2>4. p[1] = o => p[2] <= k
    BY <2>1, <2>3
  <2> QED
    BY <2>1, <2>4 DEF Seen
<1>4. ASSUME NEW p \in Seen(o, k)
      PROVE  p \in Seen(o, k + 1) /\ Before(p, << o, k + 1 >>)
  <2>1. /\ p \in (2 .. o) \X Nat /\ p[2] \in 2 .. Len(argv[p[1]])
        /\ p[1] = o => p[2] <= k
    BY DEF Seen
  <2> QED
    BY <1>1, <2>1 DEF Seen, Before
<1>5. Seen(o, k + 1) = Seen(o, k) \cup {<< o, k + 1 >>}
  BY <1>2, <1>3, <1>4
<1> QED
  BY <1>1, <1>2, <1>4, <1>5 DEF IsNextLetter

LEMMA FirstInGroup ==
  ASSUME NEW o \in 1 .. Len(argv) - 1, Len(argv) \in Nat, NEW k \in Nat,
         o > 1 => k = Len(argv[o]),
         argv[o + 1] \in Seq(STRING), Len(argv[o + 1]) > 1
  PROVE  IsNextLetter(o, k, o + 1, 2)
<1>1. Len(argv[o + 1]) \in Nat /\ o + 1 \in 2 .. Len(argv) /\ o < o + 1
  OBVIOUS
<1>2. << o + 1, 2 >> \in Seen(o + 1, 2)
  BY <1>1 DEF Seen
<1>3. ASSUME NEW p \in Seen(o + 1, 2), p # << o + 1, 2 >>
      PROVE  p \in Seen(o, k)
  <2>1. /\ p \in (2 .. o + 1) \X Nat /\ p[2] \in 2 .. Len(argv[p[1]])
        /\ p[1] = o + 1 => p[2] <= 2
    BY <1>3 DEF Seen
  <2>2. p = << p[1], p[2] >>
    BY <2>1
  <2>3. p[1] # o + 1
    BY <1>3, <2>1, <2>2
  <2>4. p[1] \in 2 .. o
    BY <2>1, <2>3
  <2>5. p[1] = o => p[2] <= k
    BY <2>1, <2>4
  <2> QED
    BY <2>1, <2>4, <2>5 DEF Seen
<1>4. ASSUME NEW p \in Seen(o, k)
      PROVE  p \in Seen(o + 1, 2) /\ Before(p, << o + 1, 2 >>)
  <2>1. p \in (2 .. o) \X Nat /\ p[2] \in 2 .. Len(argv[p[1]])
    BY DEF Seen
  <2>2. p[1] < o + 1 /\ p \in (2 .. o + 1) \X Nat
    BY <2>1
  <2> QED
    BY <2>1, <2>2 DEF Seen, Before
<1> QED
  BY <1>1, <1>2, <1>3, <1>4 DEF IsNextLetter

LEMMA ReadOnce ==
  ASSUME Len(argv) \in Nat \ {0},
         \A n \in 1 .. Len(argv) : argv[n] \in Seq(STRING),
         NEW o \in Nat, NEW k \in Nat, ReadTo(o, k, opt)
  PROVE  \/ \E o2, k2 \in Nat : IsLetterRead(o, k, o2, k2)
         \/ IsEndRead(o, k)
<1> DEFINE i == IF opt.optind = 0 THEN 1 ELSE opt.optind
           letter(o2, k2) ==
             IF argv[o2][k2] \in Letters(OptString) THEN argv[o2][k2] ELSE "?"
<1>1. /\ o \in 1 .. Len(argv) /\ i = o
      /\ o = 1 => opt.next = << >>
      /\ o > 1 => k \in 2 .. Len(argv[o]) /\ opt.next = SubSeq(argv[o], k + 1, Len(argv[o]))
      /\ opt.optind = 0 => o = 1
      /\ \A n \in 2 .. o : IsGiven(n)
  BY DEF ReadTo
<1>2. CASE opt.next # << >>
  <2>1. /\ o > 1 /\ o \in 2 .. Len(argv) /\ opt.optind # 0
        /\ argv[o] \in Seq(STRING) /\ k \in Nat /\ k <= Len(argv[o])
        /\ opt.next = SubSeq(argv[o], k + 1, Len(argv[o]))
    BY <1>1, <1>2
  <2>2. /\ k < Len(argv[o]) /\ Head(opt.next) = argv[o][k + 1]
        /\ Tail(opt.next) = SubSeq(argv[o], (k + 1) + 1, Len(argv[o]))
    BY <1>2, <2>1, RestOfGroup
  <2>3. Read = Option(argv, OptString, o, opt.next)
    BY <1>1, <1>2, <2>1 DEF Read, posix_getopt, getopt
  <2>4. Read = State(o, SubSeq(argv[o], (k + 1) + 1, Len(argv[o])), NULL, letter(o, k + 1))
    BY <2>2, <2>3, OptionStands
  <2>5. ReadTo(o, k + 1, Read)
    <3>1. Read.optind = o /\ Read.next = SubSeq(argv[o], (k + 1) + 1, Len(argv[o]))
      BY <2>4 DEF State
    <3>2. k + 1 \in 2 .. Len(argv[o]) /\ k + 1 \in Nat
      BY <1>1, <2>1, <2>2
    <3> QED
      BY <1>1, <2>1, <3>1, <3>2 DEF ReadTo
  <2>6. IsNextLetter(o, k, o, k + 1)
    BY <1>1, <2>1, <2>2, NextInGroup
  <2>7. Read.ret = letter(o, k + 1)
    BY <2>4 DEF State
  <2>8. IsLetterRead(o, k, o, k + 1)
    BY <2>5, <2>6, <2>7 DEF IsLetterRead
  <2> QED
    BY <2>8
<1>3. CASE opt.next = << >>
  <2>1. o > 1 => k = Len(argv[o])
    <3> HAVE o > 1
    <3>1. /\ argv[o] \in Seq(STRING) /\ k \in Nat /\ k <= Len(argv[o])
          /\ SubSeq(argv[o], k + 1, Len(argv[o])) = << >>
      BY <1>1, <1>3
    <3> QED
      BY <3>1, RestOfGroup
  <2>2. IsGroup(argv, o) <=> o < Len(argv) /\ IsOption(argv[o + 1])
    BY DEF IsGroup, IsOption
  <2>3. getopt(argv, OptString, opt) = NextGroup(argv, OptString, o)
    BY <1>1, <1>3 DEF getopt
  <2>4. CASE ~IsGroup(argv, o)
    <3>1. Read = Operands(argv, o)
      BY <1>1, <2>3, <2>4 DEF Read, posix_getopt, NextGroup
    <3>2. Read.ret = "EOF" /\ Read.optind = o
      BY <3>1 DEF Operands, State
    <3>3. IsEndRead(o, k)
      BY <1>1, <2>1, <2>2, <2>4, <3>2 DEF IsEndRead
    <3> QED
      BY <3>3
  <2>5. CASE IsGroup(argv, o) /\ EndsOptions(argv[o + 1])
    <3>1. argv[o + 1][2] = "-"
      BY <2>5 DEF EndsOptions, IsDashes
    <3>2. Read = Operands(argv, o + 1)
      <4>1. getopt(argv, OptString, opt) = Operands(argv, o + 1)
        BY <2>3, <2>5, <3>1 DEF NextGroup
      <4>2. line.system # "Windows" => IsDashes(argv[o + 1])
        BY <2>5 DEF EndsOptions
      <4> QED
        BY <1>1, <4>1, <4>2 DEF Read, posix_getopt
    <3>3. Read.ret = "EOF" /\ Read.optind = o + 1
      BY <3>2 DEF Operands, State
    <3>4. IsEndRead(o, k)
      BY <2>1, <2>2, <2>5, <3>3 DEF IsEndRead
    <3> QED
      BY <3>4
  <2>6. CASE IsGroup(argv, o) /\ ~EndsOptions(argv[o + 1])
    <3>1. /\ o + 1 \in 2 .. Len(argv) /\ argv[o + 1] \in Seq(STRING)
          /\ Len(argv[o + 1]) > 1 /\ o \in 1 .. Len(argv) - 1
      BY <1>1, <2>2, <2>6 DEF IsGroup
    <3>2. Read = Option(argv, OptString, o + 1, Tail(argv[o + 1]))
      <4>1. CASE argv[o + 1][2] = "-"
        <5>1. line.system # "Windows" /\ ~IsDashes(argv[o + 1])
          BY <2>2, <2>6, <4>1 DEF EndsOptions
        <5> QED
          BY <1>1, <1>3, <2>6, <4>1, <5>1 DEF Read, posix_getopt, GroupAt
      <4>2. CASE argv[o + 1][2] # "-"
        BY <1>1, <2>3, <2>6, <4>2 DEF Read, posix_getopt, NextGroup, GroupAt
      <4> QED
        BY <4>1, <4>2
    <3>3. Read = State(o + 1, SubSeq(argv[o + 1], 2 + 1, Len(argv[o + 1])), NULL,
                       letter(o + 1, 2))
      <4> DEFINE group == Tail(argv[o + 1])
      <4>1. Head(group) = argv[o + 1][2]
            /\ Tail(group) = SubSeq(argv[o + 1], 2 + 1, Len(argv[o + 1]))
        BY <3>1, TailIsRest
      <4>2. Read = State(o + 1, Tail(group), NULL,
                         IF Head(group) \in Letters(OptString) THEN Head(group) ELSE "?")
        BY <3>2, OptionStands
      <4> HIDE DEF group
      <4> QED
        BY <4>1, <4>2
    <3>4. ReadTo(o + 1, 2, Read)
      <4>1. Read.optind = o + 1
            /\ Read.next = SubSeq(argv[o + 1], 2 + 1, Len(argv[o + 1]))
        BY <3>3 DEF State
      <4>2. \A n \in 2 .. o + 1 : IsGiven(n)
        <5>1. IsGiven(o + 1)
          BY <2>2, <2>6 DEF IsGiven
        <5> QED
          BY <1>1, <5>1
      <4> QED
        BY <1>1, <3>1, <4>1, <4>2 DEF ReadTo
    <3>5. IsNextLetter(o, k, o + 1, 2)
      BY <2>1, <3>1, FirstInGroup
    <3>6. Read.ret = letter(o + 1, 2)
      BY <3>3 DEF State
    <3>7. IsLetterRead(o, k, o + 1, 2)
      BY <3>4, <3>5, <3>6 DEF IsLetterRead
    <3> QED
      BY <3>7
  <2> QED
    BY <2>4, <2>5, <2>6
<1> QED
  BY <1>2, <1>3

-----------------------------------------------------------------------------
(* What getopt has returned, and what the command line says *)

LEMMA LastSeenStep ==
  ASSUME NEW o \in Nat, NEW k \in Nat, NEW o2 \in Nat, NEW k2 \in Nat,
         IsNextLetter(o, k, o2, k2),
         NEW letters, NEW value, LastSeen(o, k, letters, value)
  PROVE  LastSeen(o2, k2, letters, LastOf(letters, argv[o2][k2], value))
<1> DEFINE new == << o2, k2 >>
           c == argv[o2][k2]
<1>1. /\ Seen(o2, k2) = Seen(o, k) \cup {new} /\ new \in Seen(o2, k2)
      /\ \A p \in Seen(o, k) : Before(p, new)
      /\ LetterSeen(new) = c
  BY DEF IsNextLetter, LetterSeen
<1>2. \A p \in Seen(o, k) : p[1] \in Nat /\ p[2] \in Nat
  BY DEF Seen
<1>3. ~Before(new, new)
  BY DEF Before
<1>4. \A p \in Seen(o, k) : ~Before(new, p)
  BY <1>1, <1>2 DEF Before
<1>5. CASE c \in DOMAIN letters
  <2>1. LastOf(letters, c, value) = letters[c]
    BY <1>5 DEF LastOf
  <2>2. \A q \in Seen(o2, k2) : Before(new, q) => LetterSeen(q) \notin DOMAIN letters
    BY <1>1, <1>3, <1>4
  <2> HIDE DEF new, c
  <2> QED
    BY <1>1, <1>5, <2>1, <2>2 DEF LastSeen, new, c
<1>6. CASE c \notin DOMAIN letters
  <2>1. LastOf(letters, c, value) = value
    BY <1>6 DEF LastOf
  <2> HIDE DEF new, c
  <2>2. CASE value = 0 /\ \A p \in Seen(o, k) : LetterSeen(p) \notin DOMAIN letters
    <3>1. \A p \in Seen(o2, k2) : LetterSeen(p) \notin DOMAIN letters
      BY <1>1, <1>6, <2>2
    <3> QED
      BY <2>1, <2>2, <3>1 DEF LastSeen, c
  <2>3. CASE \E p \in Seen(o, k) :
               /\ LetterSeen(p) \in DOMAIN letters
               /\ value = letters[LetterSeen(p)]
               /\ \A q \in Seen(o, k) :
                    Before(p, q) => LetterSeen(q) \notin DOMAIN letters
    <3>1. PICK p \in Seen(o, k) :
               /\ LetterSeen(p) \in DOMAIN letters
               /\ value = letters[LetterSeen(p)]
               /\ \A q \in Seen(o, k) :
                    Before(p, q) => LetterSeen(q) \notin DOMAIN letters
      BY <2>3
    <3>2. \A q \in Seen(o2, k2) : Before(p, q) => LetterSeen(q) \notin DOMAIN letters
      BY <1>1, <1>6, <3>1
    <3>3. p \in Seen(o2, k2)
      BY <1>1
    <3> QED
      BY <2>1, <3>1, <3>2, <3>3 DEF LastSeen, c
  <2> QED
    BY <2>2, <2>3 DEF LastSeen
<1> QED
  BY <1>5, <1>6

LEMMA LastSeenCounts ==
  ASSUME NEW place, NEW m, NEW e, Arrangement(place, m, e),
         NEW k \in Nat, m > 1 => k = Len(argv[m]),
         \A n \in 1 .. Len(argv) : argv[n] \in Seq(STRING),
         NEW letters, NEW value, LastSeen(m, k, letters, value)
  PROVE  LastCounts(letters, value)
<1>1. /\ Len(argv) \in Nat /\ m \in 1 .. Len(argv)
      /\ \A n \in 2 .. m : place[n] \in Nat
      /\ \A n, j \in 2 .. m : n < j => place[n] < place[j]
  <2>1. /\ Len(argv) \in Nat /\ m \in 1 .. Len(argv)
        /\ \A n \in 2 .. m : place[n] \in 2 .. Len(argv)
        /\ \A n, j \in 2 .. m : n < j => place[n] < place[j]
    BY DEF Arrangement
  <2> QED
    BY <2>1
<1>2. /\ \A n \in 2 .. m : \A c \in 2 .. Len(argv[n]) :
           << place[n], c >> \in Places /\ LetterAt(<< place[n], c >>) = argv[n][c]
      /\ \A p \in Places : \E n \in 2 .. m : \E c \in 2 .. Len(argv[n]) :
           p = << place[n], c >>
  BY LettersInPlace
<1>3. \A n \in 2 .. m : \A c \in 2 .. Len(argv[n]) :
        << n, c >> \in Seen(m, k) /\ LetterSeen(<< n, c >>) = argv[n][c]
  <2> TAKE n \in 2 .. m
  <2> TAKE c \in 2 .. Len(argv[n])
  <2>1. n = m => c <= k
    BY <1>1
  <2> QED
    BY <1>1, <2>1 DEF Seen, LetterSeen
<1>4. \A p \in Seen(m, k) : \E n \in 2 .. m : \E c \in 2 .. Len(argv[n]) : p = << n, c >>
  BY DEF Seen
<1>5. CASE value = 0 /\ \A p \in Seen(m, k) : LetterSeen(p) \notin DOMAIN letters
  <2>1. \A p \in Places : LetterAt(p) \notin DOMAIN letters
    <3> TAKE p \in Places
    <3>1. PICK n \in 2 .. m : \E c \in 2 .. Len(argv[n]) : p = << place[n], c >>
      BY <1>2
    <3>2. PICK c \in 2 .. Len(argv[n]) : p = << place[n], c >>
      BY <3>1
    <3>3. LetterAt(p) = argv[n][c]
      BY <1>2, <3>2
    <3> QED
      BY <1>3, <1>5, <3>3
  <2> QED
    BY <1>5, <2>1 DEF LastCounts
<1>6. CASE \E p \in Seen(m, k) :
             /\ LetterSeen(p) \in DOMAIN letters
             /\ value = letters[LetterSeen(p)]
             /\ \A q \in Seen(m, k) :
                  Before(p, q) => LetterSeen(q) \notin DOMAIN letters
  <2>1. PICK p \in Seen(m, k) :
             /\ LetterSeen(p) \in DOMAIN letters
             /\ value = letters[LetterSeen(p)]
             /\ \A q \in Seen(m, k) :
                  Before(p, q) => LetterSeen(q) \notin DOMAIN letters
    BY <1>6
  <2>2. PICK n \in 2 .. m : \E c \in 2 .. Len(argv[n]) : p = << n, c >>
    BY <1>4
  <2>3. PICK c \in 2 .. Len(argv[n]) : p = << n, c >>
    BY <2>2
  <2> DEFINE x == LetterSeen(p)
             P == << place[n], c >>
  <2>4. P \in Places /\ LetterAt(P) = x
    BY <1>2, <1>3, <2>3
  <2>5. ASSUME NEW q \in Places, Before(P, q)
        PROVE  LetterAt(q) \notin DOMAIN letters
    <3>1. PICK j \in 2 .. m : \E d \in 2 .. Len(argv[j]) : q = << place[j], d >>
      BY <1>2
    <3>2. PICK d \in 2 .. Len(argv[j]) : q = << place[j], d >>
      BY <3>1
    <3>3. place[n] < place[j] \/ (place[n] = place[j] /\ c < d)
      BY <2>5, <3>2 DEF Before
    <3>4. ~(j < n)
      <4>1. j < n => place[j] < place[n]
        BY <1>1
      <4>2. place[j] \in Nat /\ place[n] \in Nat
        BY <1>1
      <4> QED
        BY <3>3, <4>1, <4>2
    <3>5. n < j \/ (n = j /\ c < d)
      <4>1. place[n] < place[j] => n # j
        BY <1>1
      <4>2. n < j => place[n] < place[j]
        BY <1>1
      <4>3. place[j] \in Nat /\ place[n] \in Nat
        BY <1>1
      <4> QED
        BY <1>1, <3>3, <3>4, <4>1, <4>2, <4>3
    <3>6. Before(p, << j, d >>)
      BY <2>3, <3>5 DEF Before
    <3>7. << j, d >> \in Seen(m, k) /\ LetterSeen(<< j, d >>) = argv[j][d]
      BY <1>3
    <3>8. LetterAt(q) = argv[j][d]
      BY <1>2, <3>2
    <3> QED
      BY <2>1, <3>6, <3>7, <3>8
  <2>6. LastIs(x, DOMAIN letters)
    <3> HIDE DEF x, P
    <3> QED
      BY <2>4, <2>5 DEF LastIs
  <2> QED
    BY <2>1, <2>6 DEF LastCounts
<1> QED
  BY <1>5, <1>6 DEF LastSeen

LEMMA NextOptionReads ==
  ASSUME Len(argv) \in Nat \ {0},
         \A n \in 1 .. Len(argv) : argv[n] \in Seq(STRING),
         Reading, NextOption
  PROVE  Reading'
<1>1. PICK o, k \in Nat :
        /\ ReadTo(o, k, opt)
        /\ \A p \in Seen(o, k) : LetterSeen(p) \in Known
        /\ LastSeen(o, k, Operation, operation)
        /\ LastSeen(o, k, Action, action)
  BY DEF Reading
<1>2. /\ opt' = Read /\ opt'.ret \in Known
      /\ operation' = LastOf(Operation, opt'.ret, operation)
      /\ action' = LastOf(Action, opt'.ret, action)
      /\ UNCHANGED << line, argv >>
  BY DEF NextOption, Known
<1>3. PICK o2, k2 \in Nat : IsLetterRead(o, k, o2, k2)
  <2>1. ~IsEndRead(o, k)
    BY <1>2 DEF IsEndRead, Known
  <2> QED
    BY <1>1, <2>1, ReadOnce
<1>4. argv[o2][k2] = opt'.ret
  BY <1>2, <1>3 DEF IsLetterRead, Known
<1>5. IsNextLetter(o, k, o2, k2) /\ ReadTo(o2, k2, Read)
  BY <1>3 DEF IsLetterRead
<1>6. ReadTo(o2, k2, opt)'
  BY <1>2, <1>5 DEF ReadTo, IsGiven, EndsOptions
<1>7. \A p \in Seen(o2, k2) : LetterSeen(p) \in Known
  <2>1. LetterSeen(<< o2, k2 >>) \in Known
    BY <1>2, <1>4 DEF LetterSeen
  <2> QED
    BY <1>1, <1>5, <2>1 DEF IsNextLetter
<1>8. LastSeen(o2, k2, Operation, operation') /\ LastSeen(o2, k2, Action, action')
  BY <1>1, <1>2, <1>4, <1>5, LastSeenStep
<1>9. /\ \A p \in Seen(o2, k2)' : LetterSeen(p)' \in Known
      /\ LastSeen(o2, k2, Operation, operation)'
      /\ LastSeen(o2, k2, Action, action)'
  BY <1>2, <1>7, <1>8 DEF Seen, LetterSeen, LastSeen
<1> QED
  BY <1>6, <1>9 DEF Reading

LEMMA BadOptionSaid ==
  ASSUME line \in CommandLines, argv = Arranged(line), Reading, BadOption
  PROVE  \E p \in Places : LetterAt(p) \notin Known
<1>1. PICK place, m, e : Arrangement(place, m, e)
  BY Arranges
<1>2. /\ Len(argv) \in Nat \ {0}
      /\ \A n \in 1 .. Len(argv) : argv[n] \in Seq(STRING)
  BY <1>1, ArgumentsAreTexts
<1>3. PICK o, k \in Nat : ReadTo(o, k, opt)
  BY DEF Reading
<1>4. Read.ret \in {"h", "?"}
  BY DEF BadOption
<1>5. PICK o2, k2 \in Nat : IsLetterRead(o, k, o2, k2)
  <2>1. ~IsEndRead(o, k)
    BY <1>4 DEF IsEndRead
  <2> QED
    BY <1>2, <1>3, <2>1, ReadOnce
<1>6. argv[o2][k2] \notin Known
  BY <1>4, <1>5, LettersOfMain DEF IsLetterRead, Known
<1>7. /\ o2 \in 2 .. Len(argv) /\ o2 \in 1 .. Len(argv)
      /\ \A i \in 2 .. o2 : IsGiven(i)
      /\ k2 \in 2 .. Len(argv[o2])
  BY <1>2, <1>5 DEF IsLetterRead, IsNextLetter, ReadTo
<1>8. o2 <= m /\ m \in Nat
  <2>1. m \in Nat
    <3>1. m \in 1 .. Len(argv)
      BY <1>1 DEF Arrangement
    <3> QED
      BY <1>2, <3>1
  <2>2. o2 <= m
    BY <1>1, <1>7, GivenAreFirst
  <2> QED
    BY <2>1, <2>2
<1>9. o2 \in 2 .. m
  BY <1>7, <1>8
<1>10. << place[o2], k2 >> \in Places /\ LetterAt(<< place[o2], k2 >>) = argv[o2][k2]
  BY <1>1, <1>7, <1>9, LettersInPlace
<1> QED
  BY <1>6, <1>10

LEMMA OptionsEndUnderstood ==
  ASSUME line \in CommandLines, argv = Arranged(line), Reading, OptionsEnd
  PROVE  Understood'
<1>1. PICK place, m, e : Arrangement(place, m, e)
  BY Arranges
<1>2. /\ Len(argv) \in Nat \ {0}
      /\ \A n \in 1 .. Len(argv) : argv[n] \in Seq(STRING)
  BY <1>1, ArgumentsAreTexts
<1>3. PICK o, k \in Nat :
        /\ ReadTo(o, k, opt)
        /\ \A p \in Seen(o, k) : LetterSeen(p) \in Known
        /\ LastSeen(o, k, Operation, operation)
        /\ LastSeen(o, k, Action, action)
  BY DEF Reading
<1>4. /\ opt' = Read /\ Read.ret = "EOF"
      /\ UNCHANGED << line, argv, operation, action >>
  BY DEF OptionsEnd
<1>5. IsEndRead(o, k)
  <2>1. ASSUME NEW o2 \in Nat, NEW k2 \in Nat, IsLetterRead(o, k, o2, k2)
        PROVE  FALSE
    BY <1>4, <2>1, LettersOfMain DEF IsLetterRead
  <2> QED
    BY <1>2, <1>3, <2>1, ReadOnce
<1>6. /\ o \in 1 .. Len(argv) /\ \A i \in 2 .. o : IsGiven(i)
  BY <1>3 DEF ReadTo
<1>7. \A arg : EndsOptions(arg) => IsOption(arg)
  BY DEF EndsOptions, IsDashes, IsOption
<1>8. o = m
  <2>1. o = Len(argv) \/ ~IsGiven(o + 1)
    BY <1>5 DEF IsEndRead, IsGiven
  <2> QED
    BY <1>1, <1>6, <2>1, GivenAreFirst
<1>9. Read.optind = e
  <2>1. /\ e = m \/ e = m + 1
        /\ e \in 1 .. Len(argv) /\ m \in 1 .. Len(argv)
        /\ e = m => m = Len(argv) \/ ~IsOption(argv[m + 1])
        /\ e = m + 1 => EndsOptions(argv[e])
    BY <1>1 DEF Arrangement
  <2>2. CASE Read.optind = m /\ (m = Len(argv) \/ ~IsOption(argv[m + 1]))
    BY <1>2, <1>7, <2>1, <2>2
  <2>3. CASE Read.optind = m + 1 /\ m < Len(argv) /\ EndsOptions(argv[m + 1])
    BY <1>7, <2>1, <2>3
  <2> QED
    BY <1>5, <1>8, <2>2, <2>3 DEF IsEndRead
<1>10. \A p \in Places : LetterAt(p) \in Known
  <2> TAKE p \in Places
  <2>1. PICK n \in 2 .. m : \E c \in 2 .. Len(argv[n]) : p = << place[n], c >>
    BY <1>1, LettersInPlace
  <2>2. PICK c \in 2 .. Len(argv[n]) : p = << place[n], c >>
    BY <2>1
  <2>3. LetterAt(p) = argv[n][c]
    BY <1>1, <2>2, LettersInPlace
  <2>4. << n, c >> \in Seen(o, k) /\ LetterSeen(<< n, c >>) = argv[n][c]
    <3>1. n = o => c <= k
      BY <1>5, <1>6, <1>8 DEF IsEndRead
    <3> QED
      BY <1>2, <1>6, <1>8, <3>1 DEF Seen, LetterSeen
  <2> QED
    BY <1>3, <2>3, <2>4
<1>11. LastCounts(Operation, operation) /\ LastCounts(Action, action)
  <2>1. m > 1 => k = Len(argv[m])
    BY <1>5, <1>8 DEF IsEndRead
  <2> QED
    BY <1>1, <1>2, <1>3, <1>8, <2>1, LastSeenCounts
<1>12. /\ Cardinality(OperandPlaces) = Len(argv) - e
       /\ \A n \in 0 .. (Len(argv) - e) - 1 : OperandNo(n) = argv[e + n + 1]
  BY <1>1, OperandsInPlace
<1>13. count' = Len(argv) - e
  BY <1>4, <1>9 DEF count
<1>14. \A n \in 0 .. count' - 1 : operand(n)' = argv[e + n + 1]
  <2> TAKE n \in 0 .. count' - 1
  <2>1. n < count'
    <3>1. e \in 1 .. Len(argv) /\ Len(argv) \in Nat
      BY <1>1, <1>2 DEF Arrangement
    <3>2. n \in 0 .. (Len(argv) - e) - 1
      BY <1>13
    <3> QED
      BY <1>13, <3>1, <3>2
  <2> QED
    BY <1>4, <1>9, <2>1 DEF operand
<1>15. (\A p \in Places : LetterAt(p) \in Known)'
  BY <1>4, <1>10 DEF Places, OptionAt, IsFree, Ends, EndsOptions, LetterAt
<1>16. (LastCounts(Operation, operation) /\ LastCounts(Action, action))'
  <2>1. Places' = Places /\ \A p : LetterAt(p)' = LetterAt(p)
    BY <1>4 DEF Places, OptionAt, IsFree, Ends, EndsOptions, LetterAt
  <2>2. \A x, letters : LastIs(x, letters)' <=> LastIs(x, letters)
    BY <2>1 DEF LastIs
  <2> QED
    BY <1>4, <1>11, <2>1, <2>2 DEF LastCounts
<1>17. OperandPlaces' = OperandPlaces
  BY <1>4 DEF OperandPlaces, OperandAt, OptionAt, IsFree, Ends, EndsOptions
<1>18. \A n : OperandNo(n)' = OperandNo(n)
  BY <1>4, <1>17 DEF OperandNo
<1> QED
  BY <1>12, <1>13, <1>14, <1>15, <1>16, <1>17, <1>18 DEF Understood

-----------------------------------------------------------------------------
(* A process makes the call its command line names *)

LEMMA UnderstoodStays ==
  ASSUME UNCHANGED << line, argv, opt, operation, action >>
  PROVE  Understood' <=> Understood
<1>1. Places' = Places /\ \A p : LetterAt(p)' = LetterAt(p)
  BY DEF Places, OptionAt, IsFree, Ends, EndsOptions, LetterAt
<1>2. \A x, letters : LastIs(x, letters)' <=> LastIs(x, letters)
  BY <1>1 DEF LastIs
<1>3. /\ LastCounts(Operation, operation)' <=> LastCounts(Operation, operation)
      /\ LastCounts(Action, action)' <=> LastCounts(Action, action)
  BY <1>1, <1>2 DEF LastCounts
<1>4. OperandPlaces' = OperandPlaces
  BY DEF OperandPlaces, OperandAt, OptionAt, IsFree, Ends, EndsOptions
<1>5. \A n : OperandNo(n)' = OperandNo(n)
  BY <1>4 DEF OperandNo
<1>6. count' = count /\ \A n : operand(n)' = operand(n)
  BY DEF count, operand
<1> QED
  BY <1>1, <1>3, <1>4, <1>5, <1>6 DEF Understood

LEMMA AskedStays ==
  ASSUME UNCHANGED << argv, opt, operation, action >>
  PROVE  /\ IsCallable' <=> IsCallable
         /\ count' = count /\ pfield' = pfield
BY DEF IsCallable, count, pfield, Via, Lifetime, operand

LEMMA CallNamedStays ==
  ASSUME CallNamed, UNCHANGED process
  PROVE  CallNamed'
<1>1. UNCHANGED << pc, line, argv, opt, operation, action, asked, code >>
  BY DEF process
<1>2. Understood' <=> Understood
  BY <1>1, UnderstoodStays
<1>3. Asked' <=> Asked
  BY <1>1, AskedStays DEF Asked
<1>4. Reading' <=> Reading
  BY <1>1 DEF Reading, ReadTo, IsGiven, EndsOptions, Seen, LetterSeen, LastSeen
<1>5. (\E p \in Places : LetterAt(p) \notin Known)'
        <=> \E p \in Places : LetterAt(p) \notin Known
  BY <1>1 DEF Places, OptionAt, IsFree, Ends, EndsOptions, LetterAt
<1> QED
  BY <1>1, <1>2, <1>3, <1>4, <1>5 DEF CallNamed

LEMMA RunReads ==
  ASSUME Inv, Run
  PROVE  CallNamed'
<1>1. Inv'
  BY RunInv
<1>2. /\ pc' = "options" /\ argv' = Arranged(line')
      /\ opt' = Untouched /\ operation' = 0 /\ action' = 0
  BY DEF Run
<1>3. Len(argv') \in Nat \ {0}
  <2>1. line' \in CommandLines
    BY <1>1, <1>2 DEF Inv, ToldInv, Phase
  <2> QED
    BY <1>2, <2>1, ArrangedLength
<1>4. opt'.optind = 0 /\ opt'.next = << >>
  BY <1>2 DEF Untouched, State
<1>5. ReadTo(1, 0, opt)'
  BY <1>3, <1>4 DEF ReadTo
<1>6. Seen(1, 0)' = {}
  BY DEF Seen
<1>7. LastSeen(1, 0, Operation, operation)' /\ LastSeen(1, 0, Action, action)'
  BY <1>2, <1>6 DEF LastSeen
<1>8. Reading'
  BY <1>5, <1>6, <1>7 DEF Reading
<1> QED
  BY <1>2, <1>8 DEF CallNamed

LEMMA OptionReads ==
  ASSUME Inv, CallNamed, NextOption \/ BadOption \/ OptionsEnd
  PROVE  CallNamed'
<1>1. /\ pc = "options" /\ UNCHANGED << line, argv, asked >>
      /\ asked = {} /\ code = 0 /\ line \in CommandLines
      /\ argv = Arranged(line) /\ Reading
  BY DEF NextOption, BadOption, OptionsEnd, Inv, ToldInv, Phase, CallNamed
<1>2. argv' = Arranged(line')
  BY <1>1 DEF Arranged, Permuted
<1>3. CASE NextOption
  <2>1. /\ Len(argv) \in Nat \ {0}
        /\ \A n \in 1 .. Len(argv) : argv[n] \in Seq(STRING)
    BY <1>1, Arranges, ArgumentsAreTexts
  <2>2. Reading'
    BY <1>1, <1>3, <2>1, NextOptionReads
  <2>3. pc' = "options"
    BY <1>1, <1>3 DEF NextOption
  <2> QED
    BY <1>2, <2>2, <2>3 DEF CallNamed
<1>4. CASE BadOption
  <2>1. \E p \in Places : LetterAt(p) \notin Known
    BY <1>1, <1>4, BadOptionSaid
  <2>2. (\E p \in Places : LetterAt(p) \notin Known)'
    BY <1>1, <2>1 DEF Places, OptionAt, IsFree, Ends, EndsOptions, LetterAt
  <2>3. pc' = "exited" /\ code' = 1 /\ asked' = {}
    BY <1>1, <1>4 DEF BadOption
  <2> QED
    BY <1>2, <2>2, <2>3 DEF CallNamed
<1>5. CASE OptionsEnd
  <2>1. Understood'
    BY <1>1, <1>5, OptionsEndUnderstood
  <2>2. pc' = "dispatch" /\ code' = 0
    BY <1>1, <1>5 DEF OptionsEnd
  <2> QED
    BY <1>2, <2>1, <2>2 DEF CallNamed
<1> QED
  BY <1>3, <1>4, <1>5

LEMMA CountIsNumber ==
  ASSUME Inv
  PROVE  count \in Nat /\ \A a \in 1 .. 3 : Least[a] \in Nat
<1>1. Len(argv) \in Nat
  <2>1. line = NoLine \/ line \in CommandLines
    BY DEF Inv, TypeOK
  <2>2. line = NoLine => Len(line.args) \in Nat
    BY DEF NoLine
  <2>3. line \in CommandLines => Len(line.args) \in Nat
    BY ArrangedLength
  <2> QED
    BY <2>1, <2>2, <2>3 DEF Inv, TypeOK
<1>2. opt.optind \in 0 .. Len(argv)
  BY DEF Inv, TypeOK
<1> QED
  BY <1>1, <1>2 DEF count, Least

LEMMA WithoutCallNamed ==
  ASSUME Inv, CallNamed, Usage \/ List \/ NoAction \/ MissingArguments \/ NoProtocol
  PROVE  CallNamed'
<1>1. /\ pc = "dispatch" /\ pc' \in {"exited", "killed", "listing"}
      /\ UNCHANGED << line, argv, opt, operation, action, asked, code >>
      /\ asked = {} /\ code = 0 /\ argv = Arranged(line) /\ Understood
  BY DEF Usage, List, NoAction, MissingArguments, NoProtocol, Exit, Inv, ToldInv,
         Phase, CallNamed
<1>2. argv' = Arranged(line')
  BY <1>1 DEF Arranged, Permuted
<1>3. Understood'
  BY <1>1, UnderstoodStays
<1>4. pc' # "killed" => ~IsCallable
  <2>1. MissingArguments => count < Least[action] /\ action \in 1 .. 3
    BY DEF MissingArguments, Inv, TypeOK
  <2>2. MissingArguments => ~(count >= Least[action])
    BY <2>1, CountIsNumber
  <2>3. NoProtocol => pc' = "killed"
    BY DEF NoProtocol
  <2>4. Usage \/ List \/ NoAction => ~IsCallable
    <3>1. (Usage => operation = 0) /\ (List => operation = 3) /\ (NoAction => action = 0)
      BY DEF Usage, List, NoAction
    <3> QED
      BY <3>1 DEF IsCallable
  <2>5. MissingArguments => ~IsCallable
    BY <2>2 DEF IsCallable
  <2> QED
    BY <2>3, <2>4, <2>5
<1>5. pc' # "killed" => Asked'
  BY <1>1, <1>4, AskedStays DEF Asked
<1> QED
  BY <1>1, <1>2, <1>3, <1>5 DEF CallNamed

LEMMA AskNamed ==
  ASSUME Inv, CallNamed, CallLibrary \/ CallFails
  PROVE  CallNamed'
<1>1. /\ pc = "dispatch" /\ pc' \in {"calling", "exited"}
      /\ UNCHANGED << line, argv, opt, operation, action, code >>
      /\ code = 0 /\ argv = Arranged(line) /\ Understood
      /\ asked' = {pfield} /\ IsCallable /\ (action = 2 => operand(2) # NULL)
  BY DEF CallLibrary, CallFails, Ask, CallNamed, IsCallable
<1>2. argv' = Arranged(line')
  BY <1>1 DEF Arranged, Permuted
<1>3. Understood'
  BY <1>1, UnderstoodStays
<1>4. action = 2 => count # 2
  BY <1>1 DEF operand
<1>5. Asked'
  BY <1>1, <1>4, AskedStays DEF Asked
<1> QED
  BY <1>1, <1>2, <1>3, <1>5 DEF CallNamed

LEMMA CallNamedNext ==
  ASSUME Inv, CallNamed, [Next]_vars
  PROVE  CallNamed'
<1>1. CASE UNCHANGED process
  BY <1>1, CallNamedStays
<1>2. CASE Run
  BY <1>2, RunReads
<1>3. CASE Library \/ Killed
  <2>1. /\ pc \in {"calling", "listing"} /\ pc' \in {"exited", "killed"}
        /\ UNCHANGED << line, argv, opt, operation, action, asked, code >>
    BY <1>3 DEF Library, CallReturns, ListReturns, Exit, Killed
  <2>2. code = 0 /\ argv = Arranged(line) /\ Understood /\ Asked
    BY <2>1 DEF CallNamed
  <2>3. argv' = Arranged(line')
    BY <2>1, <2>2 DEF Arranged, Permuted
  <2>4. Understood' /\ Asked'
    BY <2>1, <2>2, UnderstoodStays, AskedStays DEF Asked
  <2> QED
    BY <2>1, <2>2, <2>3, <2>4 DEF CallNamed
<1>4. CASE Main
  BY <1>4, OptionReads, WithoutCallNamed, AskNamed DEF Main
<1>5. CASE Network \/ UNCHANGED vars
  BY <1>1, <1>5 DEF Network, GatewayDecides, GatewayDecidesLate,
                    GatewayDecidesAgain, GatewayForgets, vars
<1> QED
  BY <1>2, <1>3, <1>4, <1>5 DEF Next

(* Two letters are not both the last. *)
LEMMA OneLast ==
  ASSUME NEW letters, NEW x \in letters, NEW y \in letters,
         LastIs(x, letters), LastIs(y, letters)
  PROVE  x = y
<1>1. PICK p \in Places : /\ LetterAt(p) = x
                          /\ \A r \in Places : Before(p, r) => LetterAt(r) \notin letters
  BY DEF LastIs
<1>2. PICK q \in Places : /\ LetterAt(q) = y
                          /\ \A r \in Places : Before(q, r) => LetterAt(r) \notin letters
  BY DEF LastIs
<1>3. ~Before(p, q) /\ ~Before(q, p)
  BY <1>1, <1>2
<1>4. \A r \in Places : r[1] \in Int /\ r[2] \in Int /\ r = << r[1], r[2] >>
  BY DEF Places
<1>5. p[1] = q[1] /\ p[2] = q[2]
  BY <1>3, <1>4 DEF Before
<1>6. p = q
  BY <1>4, <1>5
<1> QED
  BY <1>1, <1>2, <1>6

LEMMA OperationIsLast ==
  ASSUME LastCounts(Operation, operation)
  PROVE  /\ LastIs("p", {"p", "u", "l"}) <=> operation = 1
         /\ LastIs("u", {"p", "u", "l"}) <=> operation = 2
<1> DEFINE letters == {"p", "u", "l"}
<1>1. /\ DOMAIN Operation = letters
      /\ Operation["p"] = 1 /\ Operation["u"] = 2 /\ Operation["l"] = 3
  BY DEF Operation
<1>2. CASE operation = 0 /\ \A p \in Places : LetterAt(p) \notin letters
  BY <1>2 DEF LastIs
<1>3. CASE \E x \in letters : operation = Operation[x] /\ LastIs(x, letters)
  <2>1. PICK x \in letters : operation = Operation[x] /\ LastIs(x, letters)
    BY <1>3
  <2>2. \A y \in letters : LastIs(y, letters) <=> y = x
    BY <2>1, OneLast
  <2> QED
    BY <1>1, <2>1, <2>2
<1> QED
  BY <1>1, <1>2, <1>3 DEF LastCounts

LEMMA ActionIsLast ==
  ASSUME LastCounts(Action, action)
  PROVE  /\ LastIs("a", {"a", "d", "e"}) <=> action = 1
         /\ LastIs("d", {"a", "d", "e"}) <=> action = 2
         /\ LastIs("e", {"a", "d", "e"}) <=> action = 3
<1> DEFINE letters == {"a", "d", "e"}
<1>1. /\ DOMAIN Action = letters
      /\ Action["a"] = 1 /\ Action["d"] = 2 /\ Action["e"] = 3
  BY DEF Action
<1>2. CASE action = 0 /\ \A p \in Places : LetterAt(p) \notin letters
  BY <1>2 DEF LastIs
<1>3. CASE \E x \in letters : action = Action[x] /\ LastIs(x, letters)
  <2>1. PICK x \in letters : action = Action[x] /\ LastIs(x, letters)
    BY <1>3
  <2>2. \A y \in letters : LastIs(y, letters) <=> y = x
    BY <2>1, OneLast
  <2> QED
    BY <1>1, <2>1, <2>2
<1> QED
  BY <1>1, <1>2, <1>3 DEF LastCounts

LEMMA NamedIsAsked ==
  ASSUME Inv, CallNamed
  PROVE  CallIsAsNamed
<1> SUFFICES ASSUME pc \in {"calling", "exited"}
             PROVE  CallIsAsNamed
  BY DEF CallIsAsNamed
<1> DEFINE n    == Cardinality(OperandPlaces)
           bad  == \E p \in Places : LetterAt(p) \notin {"a", "d", "p", "u", "l",
                                                         "e", "v"}
           via  == CASE LastIs("p", {"p", "u", "l"}) -> "NAT-PMP"
                     [] LastIs("u", {"p", "u", "l"}) -> "UPnP"
                     [] OTHER -> "none"
           fn   == CASE LastIs("a", {"a", "d", "e"}) -> "add"
                     [] LastIs("d", {"a", "d", "e"}) -> "del"
                     [] LastIs("e", {"a", "d", "e"}) -> "exip"
                     [] OTHER -> "none"
           none == bad \/ via = "none" \/ fn = "none" \/ n = 0
           call_named ==
             IF none THEN {}
             ELSE IF fn = "exip"
             THEN {Request(via, fn, 0, NULL, OperandNo(0), NULL, 0)}
             ELSE IF fn = "del" /\ n >= 3
             THEN {Request(via, fn, atoi(OperandNo(0)), NULL,
                           OperandNo(1), OperandNo(2), 0)}
             ELSE IF fn = "add" /\ n >= 4
             THEN {Request(via, fn, atoi(OperandNo(0)), OperandNo(1),
                           OperandNo(2), OperandNo(3),
                           IF n = 5 THEN atoi(OperandNo(4)) ELSE 0)}
             ELSE {}
<1>1. bad <=> \E p \in Places : LetterAt(p) \notin Known
  BY DEF Known
<1>2. code \in {0, 1}
  BY DEF Inv, TypeOK
<1>3. CASE code = 1
  <2>1. asked = {} /\ bad
    BY <1>1, <1>3 DEF CallNamed
  <2> HIDE DEF bad
  <2> QED
    BY <1>3, <2>1 DEF CallIsAsNamed, bad
<1>4. CASE code = 0
  <2>1. Understood /\ Asked
    BY <1>4 DEF CallNamed
  <2>2. ~bad
    BY <1>1, <2>1 DEF Understood
  <2>3. /\ operation = 1 => via = "NAT-PMP"
        /\ operation = 2 => via = "UPnP"
        /\ operation \notin {1, 2} => via = "none"
    BY <2>1, OperationIsLast DEF Understood
  <2>4. /\ action = 1 => fn = "add"
        /\ action = 2 => fn = "del"
        /\ action = 3 => fn = "exip"
        /\ action \notin {1, 2, 3} => fn = "none"
    BY <2>1, ActionIsLast DEF Understood
  <2>5. action \in 0 .. 3 /\ operation \in 0 .. 3 /\ n = count /\ n \in Nat
    BY <2>1, CountIsNumber DEF Understood, Inv, TypeOK
  <2>6. \A k \in 0 .. n - 1 : operand(k) = OperandNo(k)
    BY <2>1 DEF Understood
  <2> HIDE DEF bad, via, fn, n
  <2>7. IsCallable <=> /\ operation \in {1, 2} /\ action # 0
                       /\ n >= << 4, 2, 1 >>[action]
    BY <2>5 DEF IsCallable, Least
  <2>8. asked = call_named
    <3>1. CASE operation \notin {1, 2} \/ action = 0
      BY <2>1, <2>3, <2>4, <3>1 DEF Asked, IsCallable
    <3>2. CASE operation \in {1, 2} /\ action = 3
      BY <2>1, <2>2, <2>3, <2>4, <2>5, <2>6, <2>7, <3>2 DEF Asked, pfield, Via
    <3>3. CASE operation \in {1, 2} /\ action = 2
      BY <2>1, <2>2, <2>3, <2>4, <2>5, <2>6, <2>7, <3>3 DEF Asked, pfield, Via
    <3>4. CASE operation \in {1, 2} /\ action = 1
      BY <2>1, <2>2, <2>3, <2>4, <2>5, <2>6, <2>7, <3>4
      DEF Asked, pfield, Via, Lifetime
    <3> QED
      BY <2>5, <3>1, <3>2, <3>3, <3>4
  <2>9. (code = 1 <=> bad) /\ asked = call_named
    BY <1>4, <2>2, <2>8
  <2> HIDE DEF call_named
  <2> QED
    BY <2>9 DEF CallIsAsNamed, bad, via, fn, n, call_named
<1> QED
  BY <1>2, <1>3, <1>4

(* A process makes the call its command line names, whatever options and
   operands stand on it, on every system, or none if a letter is unknown or an
   operand missing. *)
THEOREM NamedCallIsMade == Spec => []CallIsAsNamed
<1>1. Init => CallNamed
  BY DEF Init, CallNamed
<1>2. Inv /\ CallNamed /\ [Next]_vars => CallNamed'
  BY CallNamedNext
<1>3. Inv /\ CallNamed => CallIsAsNamed
  BY NamedIsAsked
<1> QED
  BY Invariant, <1>1, <1>2, <1>3, PTL DEF Spec
=============================================================================
