------------------------------- MODULE NatPmp -------------------------------
(***************************************************************************)
(* The NAT-PMP client of libpmap (src/pmap_npmp.c): pmap_npmp_getexip,     *)
(* pmap_npmp_addport and pmap_npmp_delport, called one after another by    *)
(* one thread, against a gateway and a datagram network that loses, delays *)
(* and duplicates.                                                         *)
(*                                                                         *)
(* A call opens its own UDP socket, sends ONE request and receives on the  *)
(* socket until a datagram of the gateway arrives or receiving has failed  *)
(* often enough.  The socket of call n is named n: it is never closed, so  *)
(* no later call can be given its descriptor or its UDP port.              *)
(*                                                                         *)
(* Abstractions.  A packet is a record of the fields the code reads; the   *)
(* body of a reply is its "value", an external address or a granted        *)
(* mapping, and a datagram that is not full stops before it.  Ports keep   *)
(* their width (PortModulus); lifetime_sec makes a round trip through      *)
(* htonl/ntohl and is left as it is.  The counter "retry" is only compared *)
(* with 0 and saturates there.  All callers pass an error buffer, so the   *)
(* NULL branch is not modelled.                                            *)
(***************************************************************************)
EXTENDS Integers, Sequences, FiniteSets

CONSTANTS
  Field,        \* the pmap_field_t values callers pass (ext, int, proto, life)
  PortModulus,  \* 2^16 in the code: the range of a port in a packet
  Address,      \* external addresses the gateway may report
  NoAddress,    \* what the caller's external_ip buffer holds before
  ResultCode,   \* the non-zero result codes the gateway may answer
  Taken,        \* external ports the gateway has given to other hosts
  StrayGrant,   \* mappings that datagrams of other hosts may carry
  FdLimit,      \* descriptors the process may have open
  MaxCalls,     \* bound: calls in one behaviour
  MaxAnswers    \* bound: different replies the gateway sends to one call

PortField == 0 .. PortModulus - 1
Grant == [ext : PortField, int : PortField, life : Nat]

ASSUME ConstantsOK ==
  /\ Field \subseteq [ext : Nat, int : Nat, proto : STRING, life : Nat]
  /\ PortModulus \in Nat \ {0}
  /\ ResultCode \subseteq Nat \ {0}
  /\ StrayGrant \subseteq Grant
  /\ FdLimit \in Nat
  /\ MaxCalls \in Nat
  /\ MaxAnswers \in Nat

-----------------------------------------------------------------------------
(* errno values and tables of the code *)

NPMP_OK      == 210
EINVALIDPROT == 201
ETIMEDOUT    == 110
EMFILE       == 24
ENETUNREACH  == 101

npmp_res_codes ==
  << "Success", "Unsupported Version", "Not Authorized/Refused",
     "Network Failure", "Out of resources", "Unsupported opcode" >>
npmp_fatal_err == "Fatal Error"
PointerSize == 8                     \* of a char * on a 64-bit build
SizeofResCodes == Len(npmp_res_codes) * PointerSize   \* the sizeof
BeyondTable == "beyond the table"    \* whatever the bytes there point to

(* The text put into the caller's buffer for a result code. *)
ErrorText(code) ==
  IF code < SizeofResCodes
  THEN IF code < Len(npmp_res_codes) THEN npmp_res_codes[code + 1]
                                     ELSE BeyondTable
  ELSE npmp_fatal_err

HtonsFullWidth(port) == port               \* mutant: the port is not cut
Htons(port) == port % PortModulus
Supported == {"UDP", "TCP"}
OpCode(proto) == IF proto = "UDP" THEN 1 ELSE 2
OneTry == 1                                \* mutant: gives up at once
Retries == 2

-----------------------------------------------------------------------------
VARIABLES
  (* the client *)
  pc,        \* "idle", or "wait" while a call is in its receive loop
  call,      \* number of the latest call, and of its socket
  fn,        \* "exip", "add" or "del": the function called
  pfield,    \* the caller's pmap_field_t
  request,   \* the packet the latest call built
  resp,      \* the receive buffer behind the result code
  retry,     \* the loop's counter
  ret,       \* return value of the latest call
  errno,
  text,      \* the caller's error buffer
  exip,      \* the caller's external_ip buffer
  open,      \* number of descriptors open in the process
  (* the network and the gateway *)
  requests,  \* every request sent
  answers,   \* every reply the gateway has sent
  strays,    \* datagrams other hosts have sent to the latest socket
  table,     \* the gateway's mappings for this host
  (* history *)
  view,      \* what successful calls told the caller of its mappings
  blurred,   \* mappings a call has left undecided for the caller
  fruitless, \* receives of the latest call that brought nothing, up to 2
  dropped    \* whether (1) or not (0) it received one of another host

client  == << pc, call, fn, pfield, request, resp, retry, ret, errno, text,
              exip, open >>
network == << requests, answers, strays, table >>
history == << view, blurred, fruitless, dropped >>
vars    == << client, network, history >>

ZeroGrant == [ext |-> 0, int |-> 0, life |-> 0]
ExipRequest(n) == [call |-> n, op |-> 0, ext |-> 0, int |-> 0, life |-> 0]
NoField   == [ext |-> 0, int |-> 0, proto |-> "none", life |-> 0]

Key(m) == [op |-> m.op, int |-> m.int]

Init ==
  /\ pc = "idle" /\ call = 0 /\ fn = "exip" /\ pfield = NoField
  /\ request = ExipRequest(0) /\ resp = ZeroGrant /\ retry = 0
  /\ ret = 0 /\ errno = 0 /\ text = "none" /\ exip = NoAddress /\ open = 0
  /\ requests = {} /\ answers = {} /\ strays = {} /\ table = {}
  /\ view = {} /\ blurred = {}
  /\ fruitless = 0 /\ dropped = 0

-----------------------------------------------------------------------------
(* The calls: everything up to the first recvfrom. *)

Begin(f) ==
  /\ pc = "idle"
  /\ call < MaxCalls
  /\ call' = call + 1
  /\ fn' = f
  /\ fruitless' = 0
  /\ dropped' = 0
  /\ UNCHANGED << text, exip, answers, table, view, blurred >>

(* The locals of the receive loop end with the call, and nobody reads its
   socket again. *)
Return(r, e) ==
  /\ pc' = "idle"
  /\ ret' = r
  /\ errno' = e
  /\ resp' = ZeroGrant
  /\ retry' = 0
  /\ strays' = {}

HaveSocket == open < FdLimit

NothingSent == UNCHANGED << request, requests >>

(* socket() fails: the process has no descriptor left. *)
NoSocket ==
  /\ ~HaveSocket
  /\ Return(1, EMFILE)
  /\ NothingSent
  /\ UNCHANGED open

(* setsockopt() or sendto() fails; the socket stays open. *)
SocketFails ==
  /\ HaveSocket
  /\ open' = open + 1
  /\ Return(1, ENETUNREACH)
  /\ NothingSent

(* The request leaves, and the receive loop starts on a cleared buffer. *)
Send(packet) ==
  /\ HaveSocket
  /\ open' = open + 1
  /\ request' = packet
  /\ requests' = requests \cup {packet}
  /\ resp' = ZeroGrant
  /\ retry' = Retries
  /\ pc' = "wait"
  /\ strays' = {}
  /\ UNCHANGED << ret, errno >>

GetExip ==
  /\ Begin("exip")
  /\ UNCHANGED pfield
  /\ \/ NoSocket
     \/ SocketFails
     \/ Send(ExipRequest(call + 1))

(* The socket is made before the protocol is looked at. *)
BadProtocol(f) ==
  /\ f.proto \notin Supported
  /\ HaveSocket
  /\ open' = open + 1
  /\ Return(-2, EINVALIDPROT)
  /\ NothingSent

RequestMapping(name, f) ==
  /\ Begin(name)
  /\ pfield' = f
  /\ \/ NoSocket
     \/ SocketFails
     \/ BadProtocol(f)
     \/ /\ f.proto \in Supported
        /\ Send([call |-> call + 1, op |-> OpCode(f.proto), life |-> f.life,
                 int |-> Htons(f.int), ext |-> Htons(f.ext)])

AddPort(f) == RequestMapping("add", f)

DelPort(f) == RequestMapping("del", [f EXCEPT !.life = 0])

-----------------------------------------------------------------------------
(* The receive loop. *)

(* recvfrom writes over the first bytes of resp only, and its length is not
   compared with that of a reply: what a short datagram does not reach keeps
   the zeros of memset, or the value an earlier datagram left there. *)
Overlay(d) ==
  [op |-> d.op, code |-> d.code,
   value |-> IF d.full THEN d.value ELSE resp]

(* The check of the sender's address. *)
FromAnyone(d) == TRUE                      \* mutant: sender not checked
FromGateway(d) == d.from = "gateway"

(* pmap_npmp_getexip does not look at the operation code. *)
AcceptedNoOffset(r) ==                     \* mutant: the 128 is forgotten
  /\ r.code = 0
  /\ fn # "exip" => r.op = request.op
Accepted(r) ==
  /\ r.code = 0
  /\ fn # "exip" => r.op - 128 = request.op

(* What may arrive at the socket of this call: its port is not one an
   earlier call had, so nothing of theirs. *)
QueuedAnyCall == answers \cup strays       \* mutant: one socket for all calls
Queued == {d \in answers \cup strays : d.call = call}

NoCountDown == retry                       \* mutant: retry-- forgotten
CountDown == IF retry > 0 THEN retry - 1 ELSE 0

Take(d) ==
  /\ pc = "wait"
  /\ UNCHANGED << call, fn, request, open, requests, answers, table,
                  fruitless >>

(* A datagram of another host is dropped, and has used up a turn. *)
RecvStray(d) ==
  /\ ~FromGateway(d)
  /\ Take(d)
  /\ resp' = Overlay(d).value
  /\ retry' = CountDown
  /\ dropped' = 1
  /\ strays' = strays \ {d}
  /\ UNCHANGED << pc, pfield, ret, errno, text, exip, view, blurred >>

(* The caller's knowledge of its mappings after a success. *)
Learn(m) ==
  view' = {v \in view : Key(v) # Key(m)} \cup
          (IF m.life = 0 THEN {}
           ELSE {[op |-> m.op, int |-> m.int, ext |-> m.ext]})

RecvAddress(d) ==
  /\ FromGateway(d)
  /\ fn = "exip"
  /\ Accepted(Overlay(d))
  /\ Take(d)
  /\ exip' = Overlay(d).value
  /\ Return(0, errno)
  /\ UNCHANGED << pfield, text, view, blurred, dropped >>

KeepExternalPort(v) ==                     \* mutant: external port not read
  [ext |-> pfield.ext, int |-> v.int, proto |-> pfield.proto, life |-> v.life]

Granted(v) ==
  [ext |-> v.ext, int |-> v.int, proto |-> pfield.proto, life |-> v.life]

(* A success without its fields says nothing of the mapping asked for, and
   what it is taken to say is of the mapping the leftovers name. *)
RecvGrant(d) ==
  /\ FromGateway(d)
  /\ fn # "exip"
  /\ Accepted(Overlay(d))
  /\ Take(d)
  /\ pfield' = Granted(Overlay(d).value)
  /\ Return(0, errno)
  /\ LET told == [op |-> request.op, int |-> pfield'.int, ext |-> pfield'.ext,
                  life |-> pfield'.life]
     IN  /\ Learn(told)
         /\ blurred' = IF d.full THEN blurred
                       ELSE blurred \cup {Key(request), Key(told)}
  /\ UNCHANGED << text, exip, dropped >>

RecvRefusal(d) ==
  /\ FromGateway(d)
  /\ ~Accepted(Overlay(d))
  /\ Take(d)
  /\ Return(1, NPMP_OK + d.code)
  /\ text' = ErrorText(d.code)
  /\ UNCHANGED << pfield, exip, view, blurred, dropped >>

(* recvfrom does not return more than 0: nothing came within 250 ms, a signal
   interrupted it, it failed, or it took an empty datagram, whoever sent that.
   A call that gives up leaves its mapping undecided: the request or the reply
   may still be on its way. *)
RecvNothing ==
  /\ pc = "wait"
  /\ fruitless' = IF fruitless < 2 THEN fruitless + 1 ELSE 2
  /\ IF CountDown <= 0
     THEN /\ Return(1, ETIMEDOUT)
          /\ blurred' = blurred \cup {Key(request)}
     ELSE /\ retry' = CountDown
          /\ UNCHANGED << pc, ret, errno, resp, strays, blurred >>
  /\ UNCHANGED << call, fn, pfield, request, text, exip, open, requests,
                  answers, table, view, dropped >>

Recv ==
  \/ \E d \in Queued : RecvStray(d) \/ RecvAddress(d) \/ RecvGrant(d)
                       \/ RecvRefusal(d)
  \/ RecvNothing

-----------------------------------------------------------------------------
(* The gateway and the network; not code of this repository, modelled from
   the packets pmap_npmp.c sends and the replies it expects.  A datagram may
   arrive late, more than once or never: what was sent stays in the set. *)

(* A reply that is not full stops after the result code; "value" is then what
   the gateway has decided and the datagram does not carry. *)
Reply(q, code, full, value) ==
  [call |-> q.call, from |-> "gateway", op |-> q.op + 128, code |-> code,
   full |-> full, value |-> value]

(* A second copy of a request leaves its mapping undecided. *)
Answer(q, reply) ==
  /\ Cardinality({a \in answers : a.call = q.call}) < MaxAnswers
  /\ answers' = answers \cup {reply}
  /\ blurred' = IF \E a \in answers : a.call = q.call
                THEN blurred \cup {Key(q)} ELSE blurred
  /\ UNCHANGED << client, requests, strays, view, fruitless, dropped >>

GatewayAddress(q) ==
  /\ q.op = 0
  /\ \E a \in Address, full \in BOOLEAN : Answer(q, Reply(q, 0, full, a))
  /\ UNCHANGED table

Held(op) == Taken \cup {m.ext : m \in {n \in table : n.op = op}}

(* A mapping exists once per protocol and internal port; a renewal keeps its
   external port, and a new one has the requested port only if it is free. *)
ExternalPorts(q) ==
  LET mine == {m.ext : m \in {n \in table : Key(n) = Key(q)}}
      free == PortField \ (Held(q.op) \cup {0})
  IN  IF mine # {} THEN mine
      ELSE IF q.ext \in free THEN {q.ext} ELSE free

GatewayMap(q) ==
  /\ q.op # 0
  /\ q.life > 0
  /\ \E e \in ExternalPorts(q), l \in 1 .. q.life, full \in BOOLEAN :
       /\ table' = {m \in table : Key(m) # Key(q)}
                     \cup {[op |-> q.op, int |-> q.int, ext |-> e]}
       /\ Answer(q, Reply(q, 0, full, [ext |-> e, int |-> q.int, life |-> l]))

(* A lifetime of 0 removes the mapping of the internal port, and with the
   internal port 0 every mapping of the protocol. *)
GatewayUnmap(q) ==
  /\ q.op # 0
  /\ q.life = 0
  /\ table' = {m \in table : m.op # q.op \/ (q.int # 0 /\ m.int # q.int)}
  /\ \E full \in BOOLEAN :
       Answer(q, Reply(q, 0, full, [ext |-> 0, int |-> q.int, life |-> 0]))

(* Of a refusal the code reads no more than the result code. *)
GatewayRefuse(q) ==
  /\ \E c \in ResultCode : Answer(q, Reply(q, c, FALSE, ZeroGrant))
  /\ UNCHANGED table

Expire(m) ==
  /\ table' = table \ {m}
  /\ UNCHANGED << client, requests, answers, strays, history >>

(* What a datagram of another host may carry to a call. *)
Foreign == IF fn = "exip" THEN Address ELSE StrayGrant

(* Another host sends to the port of the waiting socket; at most one such
   datagram is under way at a time, and it can be any reply. *)
Stray ==
  /\ pc = "wait"
  /\ strays = {}
  /\ \E c \in {0} \cup ResultCode, full \in BOOLEAN,
        v \in Foreign :
       strays' = {[call |-> call, from |-> "other", op |-> request.op + 128,
                   code |-> c, full |-> full, value |-> v]}
  /\ UNCHANGED << client, requests, answers, table, history >>

Gateway ==
  \/ \E q \in requests : GatewayAddress(q) \/ GatewayMap(q) \/ GatewayUnmap(q)
                         \/ GatewayRefuse(q)
  \/ \E m \in table : Expire(m)

-----------------------------------------------------------------------------
Call ==
  \/ GetExip
  \/ \E f \in Field : AddPort(f) \/ DelPort(f)

Next == Call \/ Recv \/ Gateway \/ Stray

Spec == Init /\ [][Next]_vars

(* recvfrom returns within SO_RCVTIMEO and nothing else blocks; nothing is
   assumed of the gateway or the network. *)
FairSpec == Spec /\ WF_vars(Recv)
-----------------------------------------------------------------------------
(* Properties *)

Code == {0} \cup ResultCode

FieldType == [ext : Nat, int : Nat, life : Nat,
              proto : {"none"} \cup {f.proto : f \in Field}]

Packet == [call : 1 .. MaxCalls, op : 0 .. 2, ext : PortField,
           int : PortField, life : Nat]

Datagram == [call : 1 .. MaxCalls, from : {"gateway", "other"}, op : Nat,
             code : Code, full : BOOLEAN, value : Grant \cup Address]

Mapping == [op : 1 .. 2, int : PortField, ext : PortField]

(* Type invariant.  The port fields of a packet hold 16 bits whatever the
   caller passed (htons), and a grant puts 16-bit ports into pfield. *)
TypeOK ==
  /\ pc \in {"idle", "wait"} /\ call \in 0 .. MaxCalls
  /\ fn \in {"exip", "add", "del"}
  /\ pfield \in FieldType
  /\ request \in Packet \cup {ExipRequest(0)}
  /\ resp \in Grant \cup Address
  /\ retry \in 0 .. Retries /\ ret \in {-2, 0, 1} /\ errno \in Nat
  /\ text \in {"none"} \cup {ErrorText(c) : c \in Code}
  /\ exip \in Address \cup {NoAddress, ZeroGrant} /\ open \in 0 .. FdLimit
  /\ requests \subseteq Packet
  /\ answers \subseteq Datagram /\ strays \subseteq Datagram
  /\ table \subseteq Mapping /\ view \subseteq Mapping
  /\ fruitless \in 0 .. 2 /\ dropped \in 0 .. 1
  /\ blurred \subseteq [op : 0 .. 2, int : PortField]

Succeeded == pc = "idle" /\ call > 0 /\ ret = 0
Failed    == pc = "idle" /\ call > 0 /\ ret # 0
LocalErrors == {EMFILE, ENETUNREACH, EINVALIDPROT}

(* What a call that returned 0 handed to its caller. *)
Handed ==
  IF fn = "exip" THEN exip
  ELSE [ext |-> pfield.ext, int |-> pfield.int, life |-> pfield.life]

(* What the answer a can bring there: its own value if it is full, and else
   the zeros of memset or what a dropped datagram of this call left. *)
Brought(a) ==
  IF a.full THEN {a.value}
  ELSE {ZeroGrant} \cup (IF dropped = 0 THEN {} ELSE Foreign)

(* A call that returns 0 was granted by the gateway: by an answer to this very
   call, of the protocol asked for.  What it hands over is the grant, and that
   is of the internal port asked for, if the answer came with all its fields.
   An answer that stops short is taken for a grant as well: it hands over
   zeros, or, only after a datagram of another host has been dropped in this
   call, the fields of that datagram; never those of an earlier call. *)
GrantIsReal ==
  Succeeded =>
    \E a \in answers :
      /\ a.call = call /\ a.code = 0
      /\ Handed \in Brought(a)
      /\ fn # "exip" => a.op = OpCode(pfield.proto) + 128
      /\ fn # "exip" /\ a.full => pfield.int = request.int

(* errno tells the caller which way a call failed: a result code is one the
   gateway answered to this call, a timeout means the request left, and after
   any other failure the gateway never hears of the call. *)
ErrnoExplains ==
  Failed =>
    \/ /\ errno > NPMP_OK /\ request.call = call
       /\ \E a \in answers : a.call = call /\ a.code = errno - NPMP_OK
    \/ errno = ETIMEDOUT /\ request.call = call
    \/ /\ errno \in LocalErrors
       /\ request.call # call
       /\ \A q \in requests : q.call # call
       /\ \A a \in answers : a.call # call

(* Between calls the caller knows the external port of every mapping the
   gateway holds for it, except where a call timed out, the network duplicated
   a request or a success came without its fields: a whole success and a
   refusal are never wrong about the gateway's table. *)
NoUnknownMapping ==
  pc = "idle" => \A m \in table : Key(m) \in blurred \/ m \in view

(* A call gives up only after two receives that brought nothing, or after one
   when a datagram of another host has used up the other turn; while it waits
   at most one was in vain.  ETIMEDOUT does not mean that time has passed: an
   empty datagram of any host counts like 250 ms of silence. *)
PatienceSpent ==
  /\ pc = "wait" => fruitless <= 1 /\ (retry = 2 <=> fruitless + dropped = 0)
  /\ pc = "idle" /\ ret = 1 /\ errno = ETIMEDOUT =>
       fruitless + dropped >= 2 /\ fruitless > 0

(* However many datagrams other hosts send, once they stop every call comes
   back, whatever the gateway and the network do. *)
CallReturns == <>[][~Stray]_vars => (pc = "wait" ~> pc = "idle")

(* What the latest call told its caller, read off ret, errno, pfield and exip
   as a caller would read them. *)
Status ==
  CASE pc = "wait" \/ call = 0                   -> "none"
    [] Succeeded \/ (Failed /\ errno >= NPMP_OK) -> "decided"
    [] Failed /\ errno = ETIMEDOUT               -> "unknown"
    [] OTHER                                      -> "not sent"

Told ==
  CASE Succeeded                   -> {[code |-> 0, value |-> Handed]}
    [] Failed /\ errno >= NPMP_OK ->
         {[code |-> errno - NPMP_OK, value |-> ZeroGrant]}
    [] OTHER                       -> {}

(* A decision whose fields did not come leaves the value open. *)
DecisionsOf(a) ==
  IF a.full \/ a.code # 0 THEN {[code |-> a.code, value |-> a.value]}
  ELSE [code : {0}, value : {ZeroGrant} \cup Foreign]

Decisions == UNION {DecisionsOf(a) : a \in {b \in answers : b.call = call}}

Promise == INSTANCE RemoteCall WITH
  Decision <- [code : Code, value : Grant \cup Address],
  busy <- pc = "wait", decided <- Decisions, status <- Status, told <- Told

(* The client implements the abstract call of RemoteCall: one request at most,
   and an answer that is the gateway's own decision on this call, or none. *)
ImplementsPromise == Promise!Spec

(* What the documents say and the code does not do. *)

(* "0 indicates no expiration" (README.md:92): an added mapping with lifetime
   0 is there until it is deleted. *)
ZeroLifetimeIsPermanent ==
  Succeeded /\ fn = "add" /\ request.life = 0 =>
    \E m \in table : Key(m) = Key(request)

(* "the external port number that you want to delete the mapping for"
   (README.md:117): after a successful delete the gateway does not map it. *)
DeletedPortIsFree ==
  Succeeded /\ fn = "del" =>
    \A m \in table : m.op = request.op => m.ext # request.ext
=============================================================================
