---------------------------- MODULE CommandLine ----------------------------
(***************************************************************************)
(* The command line program of libpmap (src/main.c): its options, its      *)
(* operands, the one library call a process makes and what it prints, for  *)
(* a user who runs it again and again against one gateway.  All a process  *)
(* leaves behind is the gateway's table and what the user has read.        *)
(*                                                                         *)
(* The library call is the abstract one of RemoteCall, which NatPmp and    *)
(* Upnp implement.  A process may be killed during it, the gateway may     *)
(* decide on a request after its process has gone, and the network may     *)
(* deliver a request of NAT-PMP, a datagram, to it again.  The gateway's   *)
(* answers are taken to be whole (NatPmp says what a cut one does).        *)
(*                                                                         *)
(* An argument is a sequence of characters; an operand is one symbol in a  *)
(* sequence.  atoi and inet_addr are the C library's.                      *)
(***************************************************************************)
EXTENDS Getopt, FiniteSets

CONSTANTS
  Typed,      \* for each process, the command lines the user may type: the
              \* arguments, and the system, whose getopt reads them
  Number,     \* the texts that are numbers, with their value
  Gateway,    \* the gateway's address as the user types it
  Supported,  \* the protocols: TCP and UDP
  Granted     \* external ports a NAT-PMP gateway may choose

Arguments == Seq(Seq(STRING)) \ {<< >>}
Systems == {"glibc", "BSD", "Windows"}
CommandLines == [args : Arguments, system : Systems]

ASSUME CommandLineConstantsOK ==
  /\ Typed \in Seq(SUBSET CommandLines)
  /\ \A text \in DOMAIN Number : Number[text] \in Nat
  /\ NULL \notin Supported
  /\ Granted \subseteq Nat

VARIABLES
  (* the process *)
  pc,         \* "none" yet, "options", "dispatch", "calling", "listing",
              \* "exited", or "killed" by a signal
  line,       \* its command line as it was typed
  argv,       \* as getopt leaves it
  opt,        \* what getopt keeps and returned last
  operation,  \* 1 NAT-PMP, 2 UPnP, 3 list
  action,     \* 1 add, 2 delete, 3 external address
  asked,      \* the library call it made, if any
  output,     \* the lines it printed
  code,       \* its exit code
  (* the call, see RemoteCall *)
  busy, decided, status, told,
  (* the gateway *)
  table,      \* its mappings for this host
  late,       \* requests of processes that left without an answer
  echoes,     \* datagrams it decided on that may be delivered again
  (* history *)
  run,        \* processes started
  known,      \* the mappings the processes told the user of
  unsure      \* keys of the mappings it may have that they did not tell of

process == << pc, line, argv, opt, operation, action, asked, output, code >>
call    == << busy, decided, status, told >>
vars    == << process, call, table, late, echoes, run, known, unsure >>

Decision == [ok : 0 .. 1, ext : Nat]

Call == INSTANCE RemoteCall

NoLine == [args |-> << >>, system |-> "none"]

Init ==
  /\ pc = "none" /\ line = NoLine /\ argv = << >> /\ opt = Untouched
  /\ operation = 0 /\ action = 0 /\ asked = {} /\ output = << >> /\ code = 0
  /\ Call!Init
  /\ table = {} /\ late = {} /\ echoes = {}
  /\ run = 0 /\ known = {} /\ unsure = {}

-----------------------------------------------------------------------------
(* The C library (external) *)

atoi(text) == IF text \in DOMAIN Number THEN Number[text] ELSE 0

IsDashes(arg) == arg = << "-", "-" >>
IsOption(arg) == Len(arg) > 1 /\ arg[1] = "-"

(* The getopt of a POSIX system: "--" alone ends the options. *)
posix_getopt(args, optstring, state) ==
  LET i == IF state.optind = 0 THEN 1 ELSE state.optind
  IN  IF /\ state.optind = 0 \/ state.next = << >>
         /\ IsGroup(args, i) /\ args[i + 1][2] = "-" /\ ~IsDashes(args[i + 1])
      THEN Option(args, optstring, i + 1, GroupAt(args, i))
      ELSE getopt(args, optstring, state)

(* That of glibc moves the operands it finds between the options behind them,
   and behind "--"; to the others an operand ends the options. *)
EndOf(args) ==
  CHOOSE i \in 2 .. Len(args) + 1 :
    /\ i <= Len(args) => IsDashes(args[i])
    /\ \A j \in 2 .. i - 1 : ~IsDashes(args[j])

Rank(i, end, args) ==
  CASE i = 1 -> 0
    [] i > 1 /\ i < end /\ IsOption(args[i]) -> 1
    [] i > 1 /\ i = end -> 2
    [] OTHER -> 3

Earlier(i, j, end, args) ==
  \/ Rank(i, end, args) < Rank(j, end, args)
  \/ Rank(i, end, args) = Rank(j, end, args) /\ i < j

PlaceOf(n, args) ==
  LET end == EndOf(args)
  IN  CHOOSE j \in 1 .. Len(args) :
        Cardinality({ i \in 1 .. Len(args) : Earlier(i, j, end, args) }) = n - 1

Permuted(args) == [n \in 1 .. Len(args) |-> args[PlaceOf(n, args)]]

Arranged(l) == IF l.system = "glibc" THEN Permuted(l.args) ELSE l.args

-----------------------------------------------------------------------------
(* main(): the options *)

OptString == << "a", "d", "h", "p", "u", "l", "e", "v" >>

Operation == [p |-> 1, u |-> 2, l |-> 3]
Action    == [a |-> 1, d |-> 2, e |-> 3]

(* A new process; a request of the one before may still be on its way. *)
Run ==
  /\ pc \in {"none", "exited", "killed"}
  /\ run < Len(Typed)
  /\ run' = run + 1
  /\ line' \in Typed[run + 1]
  /\ argv' = Arranged(line')
  /\ pc' = "options" /\ opt' = Untouched
  /\ operation' = 0 /\ action' = 0
  /\ asked' = {} /\ output' = << >> /\ code' = 0
  /\ busy' = FALSE /\ decided' = {} /\ status' = "none" /\ told' = {}
  /\ late' = late \cup IF decided = {} /\ status # "not sent"
                       THEN asked ELSE {}
  /\ UNCHANGED << table, echoes, known, unsure >>

Read == IF line.system = "Windows" THEN getopt(argv, OptString, opt)
        ELSE posix_getopt(argv, OptString, opt)

FirstOf(letters, letter, before) ==    \* mutant: the first option wins
  IF before = 0 /\ letter \in DOMAIN letters THEN letters[letter] ELSE before
LastOf(letters, letter, before) ==
  IF letter \in DOMAIN letters THEN letters[letter] ELSE before

(* One turn of the loop that has an option it knows; -v changes the debug
   level only. *)
NextOption ==
  /\ pc = "options"
  /\ opt' = Read
  /\ opt'.ret \in {"p", "u", "l", "a", "d", "e", "v"}
  /\ operation' = LastOf(Operation, opt'.ret, operation)
  /\ action' = LastOf(Action, opt'.ret, action)
  /\ UNCHANGED << pc, line, argv, asked, output, code, call, table, late,
                  echoes, run, known, unsure >>

(* -h, or an option it does not know. *)
BadOption ==
  /\ pc = "options"
  /\ opt' = Read
  /\ opt'.ret \in {"h", "?"}
  /\ pc' = "exited" /\ code' = 1 /\ output' = << "usage" >>
  /\ UNCHANGED << line, argv, operation, action, asked, call, table, late,
                  echoes, run, known, unsure >>

OptionsEnd ==
  /\ pc = "options"
  /\ opt' = Read
  /\ opt'.ret = "EOF"
  /\ pc' = "dispatch"
  /\ UNCHANGED << line, argv, operation, action, asked, output, code, call, table,
                  late, echoes, run, known, unsure >>

-----------------------------------------------------------------------------
(* main(): the dispatch, and the functions it calls up to the library call *)

count == Len(argv) - opt.optind
operand(k) == IF k < count THEN argv[opt.optind + k + 1] ELSE NULL

LeastByOne == << 3, 2, 1 >>      \* mutant: the protocol not counted
Least == << 4, 2, 1 >>

(* The process prints and exits without a call. *)
Exit(lines) ==
  /\ pc' = "exited"
  /\ output' = lines
  /\ UNCHANGED << line, argv, opt, operation, action, asked, code, call, table,
                  late, echoes, run, known, unsure >>

Usage ==
  /\ pc = "dispatch" /\ operation = 0
  /\ Exit(<< "usage" >>)

(* print_list_igds: Discovery says what is listed, and that other hosts may
   keep the search from coming back. *)
List ==
  /\ pc = "dispatch" /\ operation = 3
  /\ pc' = "listing"
  /\ UNCHANGED << line, argv, opt, operation, action, asked, output, code, call,
                  table, late, echoes, run, known, unsure >>

ListReturns ==
  /\ pc = "listing"
  /\ Exit(<< "list" >>)

NoAction ==
  /\ pc = "dispatch" /\ operation \in {1, 2} /\ action = 0
  /\ Exit(<< "-a, -d or -e" >>)

MissingArguments ==
  /\ pc = "dispatch" /\ operation \in {1, 2} /\ action # 0
  /\ count < Least[action]
  /\ Exit(<< "missing", "usage" >>)

(* Deleting takes three operands but two are enough to get here: strncpy
   reads the NULL that ends argv. *)
NoProtocol ==
  /\ pc = "dispatch" /\ operation \in {1, 2} /\ action = 2
  /\ count = Least[2]
  /\ pc' = "killed"
  /\ UNCHANGED << line, argv, opt, operation, action, asked, output, code, call,
                  table, late, echoes, run, known, unsure >>

Request(via, fn, port, client, gateway, proto, life) ==
  [via |-> via, fn |-> fn, port |-> port, client |-> client,
   gateway |-> gateway, proto |-> proto, life |-> life]

Via == IF operation = 1 THEN "NAT-PMP" ELSE "UPnP"

Lifetime == IF count = 5 THEN atoi(operand(4)) ELSE 0

(* The port is the external and the internal one. *)
pfield ==
  CASE action = 1 -> Request(Via, "add", atoi(operand(0)), operand(1),
                             operand(2), operand(3), Lifetime)
    [] action = 2 -> Request(Via, "del", atoi(operand(0)), NULL, operand(1),
                             operand(2), 0)
    [] action = 3 -> Request(Via, "exip", 0, NULL, operand(0), NULL, 0)

Ask ==
  /\ pc = "dispatch" /\ operation \in {1, 2} /\ action # 0
  /\ count >= Least[action] /\ (action = 2 => operand(2) # NULL)
  /\ asked' = {pfield}
  /\ UNCHANGED << line, argv, opt, operation, action, code, table, late, echoes,
                  run, known, unsure >>

(* NAT-PMP knows the protocols it sends. *)
CallLibrary ==
  /\ Ask
  /\ pfield.via = "NAT-PMP" /\ pfield.fn # "exip" => pfield.proto \in Supported
  /\ Call!Begin
  /\ pc' = "calling" /\ UNCHANGED output

CallFails ==
  /\ Ask
  /\ Call!Stillborn
  /\ pc' = "exited" /\ output' = << "error" >>

-----------------------------------------------------------------------------
(* What the process prints when its call comes back, and what the user then
   knows.  A mapping goes by the port its user names it by; "ext" is the
   external port it was told. *)

Key(m) == << m.via, m.proto, m.named >>
KeyOf(r) == << r.via, r.proto, r.port >>
Mapping(r, ext) ==
  [via |-> r.via, proto |-> r.proto, named |-> r.port, ext |-> ext]
Except(S, key) == { m \in S : Key(m) # key }

AskedPort(r, d) == r.port       \* mutant: NAT-PMP's answer is not printed
PrintedPort(r, d) == IF r.via = "NAT-PMP" THEN d.ext ELSE r.port

Success(r, d) ==
  /\ output' = CASE r.fn = "add"  -> << "added", r.proto, PrintedPort(r, d) >>
                 [] r.fn = "del"  -> << "deleted", r.proto, r.port >>
                 [] r.fn = "exip" -> << "address" >>
  /\ known' = CASE r.fn = "add"  -> Except(known, KeyOf(r))
                                      \cup {Mapping(r, PrintedPort(r, d))}
                [] r.fn = "del"  -> Except(known, KeyOf(r))
                [] r.fn = "exip" -> known
  /\ UNCHANGED unsure

(* What these requests may make, no process has told. *)
Doubt(requests) ==
  unsure' = unsure \cup { KeyOf(r) : r \in { q \in requests : q.fn = "add" } }

(* After an error the request may have been heard all the same. *)
Error(r) ==
  /\ output' = << "error" >>
  /\ UNCHANGED known
  /\ IF status' = "unknown" THEN Doubt({r}) ELSE UNCHANGED unsure

CallReturns ==
  /\ pc = "calling"
  /\ Call!Finish
  /\ pc' = "exited"
  /\ \E r \in asked :
       \/ \E d \in told' : d.ok = 1 /\ Success(r, d)
       \/ (\A d \in told' : d.ok = 0) /\ Error(r)
  /\ UNCHANGED << line, argv, opt, operation, action, asked, code, table, late,
                  echoes, run >>

(* The user interrupts it, or SIGPIPE ends it (HttpReq). *)
Killed ==
  /\ pc \in {"calling", "listing"}
  /\ pc' = "killed"
  /\ Doubt(asked)
  /\ UNCHANGED << line, argv, opt, operation, action, asked, output, code, call,
                  table, late, echoes, run, known >>

-----------------------------------------------------------------------------
(* The gateway and the network (external).  UPnP maps the port it is asked
   for or refuses; NAT-PMP chooses one, and takes a mapping without lifetime
   for a deletion, all mappings of a protocol if the port is 0. *)

Deletes(r) ==
  \/ r.fn = "del"
  \/ r.fn = "add" /\ r.via = "NAT-PMP" /\ r.life = 0

ForgetsAll(r) == r.via = "NAT-PMP" /\ r.port = 0

Named(r) ==
  { m \in table : /\ m.via = r.via /\ m.proto = r.proto
                  /\ m.named = r.port \/ (Deletes(r) /\ ForgetsAll(r)) }

Refusal == [ok |-> 0, ext |-> 0]
Grants(ports) == { [ok |-> 1, ext |-> e] : e \in ports }

Decisions(r) ==
  {Refusal} \cup
    IF r.fn = "exip" THEN Grants({0})
    ELSE IF r.proto \notin Supported THEN {}
    ELSE IF Deletes(r) THEN Grants({r.port})
    ELSE IF r.via = "UPnP" THEN Grants({r.port})
    ELSE IF r.port = 0 THEN {} ELSE Grants(Granted)

Decided(r, d) ==
  IF d.ok = 0 \/ r.fn = "exip" THEN table
  ELSE (table \ Named(r)) \cup (IF Deletes(r) THEN {} ELSE {Mapping(r, d.ext)})

(* A request granted to the process that runs replaces whatever mapping of its
   key nobody was told of, unless more of that key is on its way. *)
Settled(r, d) ==
  IF pc = "calling" /\ d.ok = 1
     /\ ~ \E l \in late : l.fn = "add" /\ KeyOf(l) = KeyOf(r)
  THEN unsure \ {KeyOf(r)} ELSE unsure

(* On the request of the process that runs or was the last to run. *)
GatewayDecides ==
  /\ decided = {}
  /\ status # "not sent"
  /\ \E r \in asked :
       /\ r.gateway = Gateway
       /\ \E d \in Decisions(r) :
            decided' = {d} /\ table' = Decided(r, d) /\ unsure' = Settled(r, d)
       /\ echoes' = IF r.via = "NAT-PMP" THEN echoes \cup {r} ELSE echoes
  /\ Call!Decide
  /\ UNCHANGED << process, late, run, known >>

(* On a request that was delayed past that, and perhaps duplicated. *)
GatewayDecidesLate ==
  /\ \E r \in late :
       /\ r.gateway = Gateway
       /\ \E d \in Decisions(r) : table' = Decided(r, d)
  /\ UNCHANGED << process, call, late, echoes, run, known, unsure >>

(* Once more on a request it decided on, of any process; the one that runs may
   get the second answer. *)
GatewayDecidesAgain ==
  /\ \E r \in echoes :
       /\ Doubt({r})
       /\ \E d \in Decisions(r) :
            /\ table' = Decided(r, d)
            /\ \/ UNCHANGED decided
               \/ r \in asked /\ decided # {} /\ decided' = decided \cup {d}
  /\ UNCHANGED << process, busy, status, told, late, echoes, run, known >>

(* A lifetime ends, or the gateway restarts. *)
GatewayForgets ==
  /\ \E m \in table : table' = table \ {m}
  /\ UNCHANGED << process, call, late, echoes, run, known, unsure >>

-----------------------------------------------------------------------------
Main ==
  \/ NextOption \/ BadOption \/ OptionsEnd
  \/ Usage \/ List \/ NoAction \/ MissingArguments \/ NoProtocol
  \/ CallLibrary \/ CallFails

Library == CallReturns \/ ListReturns

Network ==
  GatewayDecides \/ GatewayDecidesLate \/ GatewayDecidesAgain \/ GatewayForgets

Next == Run \/ Main \/ Library \/ Killed \/ Network

Spec == Init /\ [][Next]_vars

(* main() goes on by itself; the library need not come back. *)
FairSpec == Spec /\ WF_vars(Main)

-----------------------------------------------------------------------------
(* Properties *)

AtMostOne(S) == \A a, b \in S : a = b

(* Type invariant: optind stays within argv, a process makes one call at most,
   what it tells was decided, and a call over TCP is decided once. *)
TypeOK ==
  /\ pc \in {"none", "options", "dispatch", "calling", "listing", "exited",
             "killed"}
  /\ line = NoLine \/ line \in CommandLines
  /\ Len(argv) = Len(line.args) /\ opt.optind \in 0 .. Len(argv)
  /\ operation \in 0 .. 3 /\ action \in 0 .. 3 /\ code \in 0 .. 1
  /\ AtMostOne(asked) /\ (pc = "calling" => asked # {})
  /\ busy \in BOOLEAN /\ told \subseteq decided
  /\ decided \subseteq Decision
  /\ (\E r \in asked : r.via = "UPnP") => AtMostOne(decided)
  /\ run \in 0 .. Len(Typed)

(* How usage() (main.c:179-199) wants a command line read: the options are
   the letters of the arguments with a dash, up to "--" or, except with glibc,
   up to the first operand; everything else is an operand.  For "--" xgetopt.c
   takes any argument with two dashes. *)
EndsOptions(arg) ==
  IF line.system = "Windows" THEN IsOption(arg) /\ arg[2] = "-" ELSE IsDashes(arg)
Ends(i) ==
  \/ EndsOptions(line.args[i])
  \/ line.system # "glibc" /\ ~IsOption(line.args[i])
IsFree(i) == \A j \in 2 .. i - 1 : ~Ends(j)
OptionAt(i) ==
  IsFree(i) /\ IsOption(line.args[i]) /\ ~EndsOptions(line.args[i])
OperandAt(i) == ~OptionAt(i) /\ ~(IsFree(i) /\ EndsOptions(line.args[i]))

Places ==
  UNION { {i} \X (2 .. Len(line.args[i])) :
            i \in { j \in 2 .. Len(line.args) : OptionAt(j) } }
LetterAt(p) == line.args[p[1]][p[2]]
Before(p, q) == p[1] < q[1] \/ (p[1] = q[1] /\ p[2] < q[2])
LastIs(letter, letters) ==
  \E p \in Places :
    /\ LetterAt(p) = letter
    /\ \A q \in Places : Before(p, q) => LetterAt(q) \notin letters

OperandPlaces == { i \in 2 .. Len(line.args) : OperandAt(i) }
OperandNo(n) ==
  line.args[CHOOSE i \in OperandPlaces :
              Cardinality({ j \in OperandPlaces : j < i }) = n]

(* A process makes the call its command line names, with the operands in the
   places usage() lists them, once and only if none is missing and all options
   are known.  Of options that exclude each other the last counts.  usage()
   lists a lifetime for -a, but the code does without it (main.c:255, 264): it
   is 0 with four operands, and with six. *)
CallIsAsNamed ==
  pc \in {"calling", "exited"} =>
    LET n    == Cardinality(OperandPlaces)
        bad  == \E p \in Places : LetterAt(p) \notin {"a", "d", "p", "u", "l",
                                                      "e", "v"}
        via  == CASE LastIs("p", {"p", "u", "l"}) -> "NAT-PMP"
                  [] LastIs("u", {"p", "u", "l"}) -> "UPnP"
                  [] OTHER -> "none"
        fn   == CASE LastIs("a", {"a", "d", "e"}) -> "add"
                  [] LastIs("d", {"a", "d", "e"}) -> "del"
                  [] LastIs("e", {"a", "d", "e"}) -> "exip"
                  [] OTHER -> "none"
        none == bad \/ via = "none" \/ fn = "none" \/ n = 0
    IN  /\ code = 1 <=> bad
        /\ asked = IF none THEN {}
                   ELSE IF fn = "exip"
                   THEN {Request(via, fn, 0, NULL, OperandNo(0), NULL, 0)}
                   ELSE IF fn = "del" /\ n >= 3
                   THEN {Request(via, fn, atoi(OperandNo(0)), NULL,
                                 OperandNo(1), OperandNo(2), 0)}
                   ELSE IF fn = "add" /\ n >= 4
                   THEN {Request(via, fn, atoi(OperandNo(0)), OperandNo(1),
                                 OperandNo(2), OperandNo(3),
                                 IF n = 5 THEN atoi(OperandNo(4)) ELSE 0)}
                   ELSE {}

(* A process that got too few operands says so (main.c:52) and calls nothing;
   only deleting with exactly two reads a protocol that is not there.  What a
   call was made with stood in argv. *)
MissingOperandsAreNoticed ==
  /\ (/\ pc \in {"exited", "killed"} /\ code = 0 /\ asked = {}
      /\ operation \in {1, 2} /\ action # 0)
       => \/ output = << "missing", "usage" >> /\ count < Least[action]
          \/ pc = "killed" /\ action = 2 /\ count = 2
  /\ asked # {} => count > << 3, 2, 0 >>[action]

(* Whoever reads what the processes print knows every mapping of the gateway
   with its external port, except those whose adding ended in an error after
   the request may have been heard, or was interrupted, or was delivered to the
   gateway once more. *)
MappingsAreTold ==
  \A m \in table :
    \/ m \in known
    \/ Key(m) \in unsure
    \/ /\ pc = "calling"
       /\ \E r \in asked, d \in decided :
            d.ok = 1 /\ r.fn = "add" /\ m = Mapping(r, d.ext)

(* Every process reads its command line to the end, whatever was typed, and
   comes to its library call or its exit. *)
EveryLineIsRead ==
  pc = "options" ~> pc \in {"calling", "listing", "exited", "killed"}
=============================================================================
