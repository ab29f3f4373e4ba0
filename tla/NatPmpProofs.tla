---------------------------- MODULE NatPmpProofs ----------------------------
(***************************************************************************)
(* Theorems about NatPmp for every value of its constants, checked by      *)
(* TLAPS.  Inv is the inductive invariant; the parts of it say what the    *)
(* packets in the network know about the calls that sent them, and what    *)
(* the gateway's table owes to the replies it has given.                   *)
(***************************************************************************)
EXTENDS NatPmp, TLAPS

-----------------------------------------------------------------------------
(* The inductive invariant *)

(* Every packet belongs to a call that was made, and a call sends once. *)
Numbering ==
  /\ request.call <= call
  /\ \A q \in requests : q.call <= call
  /\ \A q, r \in requests : q.call = r.call => q = r

(* A waiting call has its own request and socket. *)
Waiting ==
  pc = "wait" =>
    /\ request \in requests /\ request.call = call
    /\ fn = "exip" => request.op = 0
    /\ fn # "exip" => request.op = OpCode(pfield.proto)

IsAnswer(a, q) ==
  /\ a.call = q.call
  /\ a.op = q.op + 128
  /\ a.code = 0 =>
       /\ q.op = 0 => a.value \in Address
       /\ q.op # 0 => a.value \in Grant /\ a.value.int = q.int

(* The gateway answers requests, and nobody else answers as the gateway. *)
Provenance ==
  /\ \A a \in answers : a.from = "gateway" /\ \E q \in requests : IsAnswer(a, q)
  /\ \A d \in strays : d.from = "other"

(* What a datagram without its fields would be read with: zeros, unless a
   datagram of another host has been dropped in this call. *)
Leftover ==
  /\ \A d \in strays : d.value \in Foreign
  /\ pc = "wait" =>
       resp \in {ZeroGrant} \cup (IF dropped = 0 THEN {} ELSE Foreign)

Inv ==
  /\ TypeOK /\ Numbering /\ Waiting /\ Provenance /\ Leftover
  /\ GrantIsReal /\ ErrnoExplains /\ PatienceSpent

(* What the caller does not know of a mapping yet is what the reply it waits
   for will tell it. *)
Pending(m) ==
  /\ pc = "wait"
  /\ Key(m) = Key(request)
  /\ \E a \in answers :
       /\ a.call = call /\ a.code = 0
       /\ a.value.life > 0 /\ a.value.ext = m.ext

(* A call that has come back was answered, or has left its mapping blurred. *)
Settled ==
  \A q \in requests :
    q.call < call \/ pc = "idle" =>
      Key(q) \in blurred \/ \E a \in answers : a.call = q.call

(* Of two replies to one call at least one answers a second copy. *)
Single ==
  \A a, b \in answers : a.call = b.call /\ a # b =>
    \A q \in requests : q.call = a.call => Key(q) \in blurred

(* A mapping that is to go is gone before its reply is read. *)
Removed ==
  pc = "wait" /\ Key(request) \notin blurred =>
    \A a \in answers :
      a.call = call /\ a.code = 0 /\ request.op # 0 =>
        \A m \in table : Key(m) = Key(request) =>
          a.value.life > 0 /\ a.value.ext = m.ext

Knowledge ==
  \A m \in table : Key(m) \in blurred \/ m \in view \/ Pending(m)

TableInv ==
  Inv /\ Settled /\ Single /\ Removed /\ Knowledge

-----------------------------------------------------------------------------
(* Type correctness and the parts it needs *)

(* A call that does not get its request out. *)
Stillborn ==
  /\ pc = "idle" /\ pc' = "idle" /\ call < MaxCalls /\ call' = call + 1
  /\ fn' \in {"exip", "add", "del"}
  /\ pfield' \in FieldType
  /\ ret' \in {1, -2} /\ errno' \in LocalErrors
  /\ open' \in {open, open + 1} /\ open' <= FdLimit
  /\ resp' = ZeroGrant /\ retry' = 0 /\ fruitless' = 0 /\ dropped' = 0
  /\ strays' = {}
  /\ UNCHANGED << request, requests, text, exip, answers, table, view,
                  blurred >>

(* A call whose request leaves. *)
Sent ==
  /\ pc = "idle" /\ pc' = "wait" /\ call < MaxCalls /\ call' = call + 1
  /\ fn' \in {"exip", "add", "del"}
  /\ pfield' \in FieldType
  /\ request' \in Packet /\ request'.call = call + 1
  /\ requests' = requests \cup {request'}
  /\ fn' = "exip" => request'.op = 0
  /\ fn' # "exip" => request'.op = OpCode(pfield'.proto)
  /\ open' = open + 1 /\ open' <= FdLimit
  /\ resp' = ZeroGrant /\ retry' = Retries /\ fruitless' = 0 /\ dropped' = 0
  /\ strays' = {}
  /\ UNCHANGED << ret, errno, text, exip, answers, table, view, blurred >>

LEMMA CallCases ==
  ASSUME TypeOK, Call
  PROVE  Stillborn \/ Sent
<1> USE ConstantsOK DEF ConstantsOK
<1>1. CASE GetExip
  <2>1. CASE NoSocket \/ SocketFails
    BY <1>1, <2>1 DEF GetExip, NoSocket, SocketFails, HaveSocket, Return, Begin,
       NothingSent, Stillborn, TypeOK, LocalErrors
  <2>2. CASE Send(ExipRequest(call + 1))
    BY <1>1, <2>2 DEF GetExip, Send, HaveSocket, Begin, ExipRequest, Sent, TypeOK,
       Packet, PortField
  <2> QED
    BY <1>1, <2>1, <2>2 DEF GetExip
<1>2. ASSUME NEW name \in {"add", "del"},
             NEW f \in FieldType,
             RequestMapping(name, f)
      PROVE  Stillborn \/ Sent
  <2>1. CASE NoSocket \/ SocketFails \/ BadProtocol(f)
    BY <1>2, <2>1 DEF RequestMapping, NoSocket, SocketFails, BadProtocol,
       HaveSocket, Return, Begin, NothingSent, Stillborn, TypeOK, LocalErrors
  <2>2. CASE /\ f.proto \in Supported
             /\ Send([call |-> call + 1, op |-> OpCode(f.proto),
                      life |-> f.life, int |-> Htons(f.int),
                      ext |-> Htons(f.ext)])
    <3>1. Htons(f.int) \in PortField /\ Htons(f.ext) \in PortField
      BY DEF Htons, PortField, FieldType
    <3>2. OpCode(f.proto) \in 0 .. 2
      BY DEF OpCode
    <3>3. f.life \in Nat /\ f.proto = pfield'.proto
      BY <1>2 DEF RequestMapping, FieldType
    <3> QED
      BY <1>2, <2>2, <3>1, <3>2, <3>3 DEF RequestMapping, Send, HaveSocket,
         Begin, Sent, TypeOK, Packet
  <2> QED
    BY <1>2, <2>1, <2>2 DEF RequestMapping
<1>3. ASSUME NEW f \in Field, AddPort(f) \/ DelPort(f)
      PROVE  Stillborn \/ Sent
  <2>1. f \in FieldType /\ [f EXCEPT !.life = 0] \in FieldType
    BY DEF FieldType
  <2> QED
    BY <1>2, <1>3, <2>1 DEF AddPort, DelPort
<1> QED
  BY <1>1, <1>3 DEF Call

LEMMA ZeroGrantType == ZeroGrant \in Grant
BY ConstantsOK DEF ConstantsOK, ZeroGrant, Grant, PortField

LEMMA CodeInNat == Code \subseteq Nat
BY ConstantsOK DEF ConstantsOK, Code

LEMMA PositiveCode ==
  ASSUME NEW c \in Code, c # 0
  PROVE  c \in Nat /\ c > 0
BY ConstantsOK DEF ConstantsOK, Code

(* What a waiting call may find in its socket and its receive buffer. *)
LEMMA QueuedType ==
  ASSUME TypeOK, Provenance, Numbering, Waiting, Leftover, pc = "wait",
         NEW d \in Queued
  PROVE  /\ d \in Datagram /\ d.call = call /\ d.code \in Code
         /\ Overlay(d).value \in Grant \cup Address
         /\ FromGateway(d) =>
              /\ d \in answers /\ IsAnswer(d, request)
              /\ d.code = 0 => Overlay(d).value \in Brought(d)
         /\ ~FromGateway(d) => d \in strays /\ d.value \in Foreign
<1>1. d \in Datagram /\ d.call = call
  BY DEF Queued, TypeOK
<1>2. d.code \in Code /\ d.op \in Nat /\ d.value \in Grant \cup Address
  BY <1>1 DEF Datagram
<1>3. Overlay(d).value \in Grant \cup Address
  BY <1>2 DEF Overlay, TypeOK
<1>4. ASSUME FromGateway(d)
      PROVE  /\ d \in answers /\ IsAnswer(d, request)
             /\ d.code = 0 => Overlay(d).value \in Brought(d)
  <2>1. d \in answers
    BY <1>4 DEF FromGateway, Queued, Provenance
  <2>2. PICK q \in requests : IsAnswer(d, q)
    BY <2>1 DEF Provenance
  <2>3. q = request
    BY <1>1, <2>2 DEF IsAnswer, Waiting, Numbering
  <2>4. Overlay(d).value \in Brought(d)
    BY DEF Overlay, Brought, Leftover
  <2> QED
    BY <2>1, <2>2, <2>3, <2>4
<1>5. ~FromGateway(d) => d \in strays /\ d.value \in Foreign
  BY DEF FromGateway, Queued, Provenance, Leftover
<1> QED
  BY <1>1, <1>2, <1>3, <1>4, <1>5

(* What a success brings to a call is of the shape of what it asked for. *)
LEMMA BroughtType ==
  ASSUME Waiting, Provenance, Leftover, TypeOK, pc = "wait",
         NEW d, IsAnswer(d, request), d.code = 0
  PROVE  Brought(d) \subseteq IF fn = "exip" THEN Address \cup {ZeroGrant}
                                            ELSE Grant
<1>1. CASE fn = "exip"
  BY <1>1 DEF Waiting, IsAnswer, Brought, Foreign
<1>2. CASE fn # "exip"
  <2>1. d.value \in Grant
    BY <1>2 DEF Waiting, IsAnswer, OpCode
  <2>2. ZeroGrant \in Grant /\ StrayGrant \subseteq Grant
    BY ZeroGrantType, ConstantsOK DEF ConstantsOK
  <2> QED
    BY <1>2, <2>1, <2>2 DEF Brought, Foreign
<1> QED
  BY <1>1, <1>2

LEMMA RecvType ==
  ASSUME TypeOK, Provenance, Numbering, Waiting, Leftover, Recv
  PROVE  TypeOK'
<1>1. ASSUME NEW d \in Queued,
             RecvStray(d) \/ RecvAddress(d) \/ RecvGrant(d) \/ RecvRefusal(d)
      PROVE  TypeOK'
  <2>0. pc = "wait"
    BY <1>1 DEF RecvStray, RecvAddress, RecvGrant, RecvRefusal, Take
  <2>1. /\ d.code \in Code /\ d.code \in Nat
        /\ Overlay(d).value \in Grant \cup Address
        /\ FromGateway(d) => IsAnswer(d, request)
        /\ FromGateway(d) /\ d.code = 0 =>
             Overlay(d).value \in IF fn = "exip" THEN Address \cup {ZeroGrant}
                                                 ELSE Grant
    BY <2>0, CodeInNat, QueuedType, BroughtType
  <2>2. request \in Packet
    BY <2>0 DEF Waiting, TypeOK
  <2>3. CASE RecvStray(d)
    <3>1. retry' \in 0 .. Retries
      BY <2>3 DEF RecvStray, CountDown, Retries, TypeOK
    <3> QED
      BY <2>3, <2>0, <2>1, <3>1 DEF RecvStray, Take, TypeOK
  <2>4. CASE RecvAddress(d)
    <3>1. Overlay(d).value \in Address \cup {ZeroGrant}
      BY <2>0, <2>1, <2>4 DEF RecvAddress, Accepted, Overlay
    <3>2. exip' \in Address \cup {NoAddress, ZeroGrant}
      BY <2>4, <3>1 DEF RecvAddress
    <3> QED
      BY <2>4, <3>2, ZeroGrantType DEF RecvAddress, Take, Return, TypeOK, Retries
  <2>5. CASE RecvGrant(d)
    <3>1. Overlay(d).value \in Grant /\ request.op \in 1 .. 2
      BY <2>0, <2>1, <2>5 DEF RecvGrant, Accepted, Overlay, Waiting, OpCode
    <3>2. /\ pfield' = Granted(Overlay(d).value)
          /\ pfield' \in [ext : PortField, int : PortField, life : Nat,
                          proto : {pfield.proto}]
          /\ pfield.proto \in {"none"} \cup {f.proto : f \in Field}
      BY <2>5, <3>1, ConstantsOK DEF ConstantsOK, RecvGrant, Granted, Grant,
         TypeOK, FieldType
    <3>3. view' \subseteq Mapping
      BY <2>5, <3>1, <3>2 DEF RecvGrant, Learn, Mapping, TypeOK
    <3>4. pfield' \in FieldType
      BY <3>2 DEF FieldType, PortField
    <3>5. blurred' \subseteq [op : 0 .. 2, int : PortField]
      BY <2>2, <2>5, <3>1, <3>2 DEF RecvGrant, Key, TypeOK, Packet
    <3> QED
      BY <2>5, <3>2, <3>3, <3>4, <3>5, ZeroGrantType DEF RecvGrant, Take, Return,
         TypeOK, Retries
  <2>6. CASE RecvRefusal(d)
    BY <2>6, <2>1, ZeroGrantType DEF RecvRefusal, Take, Return, TypeOK, Retries,
       NPMP_OK
  <2> QED
    BY <1>1, <2>3, <2>4, <2>5, <2>6
<1>2. CASE RecvNothing
  <2>1. Key(request) \in [op : 0 .. 2, int : PortField]
    BY <1>2 DEF RecvNothing, Waiting, TypeOK, Packet, Key
  <2> QED
    BY <1>2, <2>1, ZeroGrantType DEF RecvNothing, Return, CountDown, TypeOK,
       Retries, ETIMEDOUT
<1> QED
  BY <1>1, <1>2 DEF Recv

(* What a reply and the table have to do with each other in the step that
   sends the reply. *)
Answered(q, a) ==
  /\ a.from = "gateway" /\ IsAnswer(a, q)
  /\ answers' = answers \cup {a}
  /\ blurred' = IF \E b \in answers : b.call = q.call
                THEN blurred \cup {Key(q)} ELSE blurred
  /\ table' \subseteq Mapping
  /\ \A m \in table' : Key(m) # Key(q) => m \in table
  /\ a.code # 0 => table' = table
  /\ a.code = 0 /\ q.op # 0 =>
       \A m \in table' : Key(m) = Key(q) =>
                           a.value.life > 0 /\ a.value.ext = m.ext
  /\ UNCHANGED << client, requests, strays, view, fruitless, dropped >>

Expired ==
  /\ table' \subseteq table
  /\ UNCHANGED << client, requests, answers, strays, history >>

LEMMA GatewayCases ==
  ASSUME TypeOK, Gateway
  PROVE  Expired \/ \E q \in requests, a \in Datagram : Answered(q, a)
<1> USE ConstantsOK DEF ConstantsOK
<1>1. ASSUME NEW m \in table, Expire(m)
      PROVE  Expired
  BY <1>1 DEF Expire, Expired
<1>2. ASSUME NEW q \in requests,
             \/ GatewayAddress(q) \/ GatewayMap(q)
             \/ GatewayUnmap(q)   \/ GatewayRefuse(q)
      PROVE  \E a \in Datagram : Answered(q, a)
  <2>1. /\ q \in Packet /\ q.op \in 0 .. 2 /\ q.op + 128 \in Nat
        /\ q.call \in 1 .. MaxCalls /\ q.int \in PortField /\ q.life \in Nat
    BY DEF TypeOK, Packet
  <2>2. PortField \subseteq Nat /\ 0 \in PortField
    BY DEF PortField
  <2>3. CASE GatewayAddress(q)
    <3>1. PICK x \in Address, full \in BOOLEAN : Answer(q, Reply(q, 0, full, x))
      BY <2>3 DEF GatewayAddress
    <3>2. Reply(q, 0, full, x) \in Datagram
      BY <2>1 DEF Reply, Datagram, Code
    <3>3. Answered(q, Reply(q, 0, full, x))
      BY <2>1, <2>3, <3>1 DEF GatewayAddress, Answer, Answered, Reply, IsAnswer,
         TypeOK
    <3> QED
      BY <3>2, <3>3
  <2>4. CASE GatewayMap(q)
    <3>1. PICK e \in ExternalPorts(q), l \in 1 .. q.life, full \in BOOLEAN :
            /\ table' = {m \in table : Key(m) # Key(q)}
                          \cup {[op |-> q.op, int |-> q.int, ext |-> e]}
            /\ Answer(q, Reply(q, 0, full,
                               [ext |-> e, int |-> q.int, life |-> l]))
      BY <2>4 DEF GatewayMap
    <3> DEFINE v == [ext |-> e, int |-> q.int, life |-> l]
               a == Reply(q, 0, full, v)
    <3>2. e \in PortField
      BY DEF ExternalPorts, TypeOK, Mapping
    <3>3. v \in Grant /\ v.life > 0
      BY <2>1, <3>2 DEF Grant
    <3>4. a \in Datagram
      BY <2>1, <3>3 DEF Reply, Datagram, Code
    <3>5. IsAnswer(a, q)
      BY <2>1, <2>4, <3>3 DEF GatewayMap, IsAnswer, Reply
    <3>6. table' \subseteq Mapping
      BY <2>1, <2>4, <3>1, <3>2 DEF GatewayMap, TypeOK, Mapping
    <3>7. \A m \in table' : Key(m) # Key(q) => m \in table
      BY <3>1 DEF Key
    <3>8. \A m \in table' : Key(m) = Key(q) => m.ext = e
      BY <3>1 DEF Key
    <3>9. a.from = "gateway" /\ a.code = 0 /\ a.value = v /\ v.ext = e
      BY DEF Reply
    <3> HIDE DEF a, v
    <3>10. Answered(q, a)
      BY <3>1, <3>3, <3>5, <3>6, <3>7, <3>8, <3>9 DEF Answer, Answered, a, v
    <3> QED
      BY <3>4, <3>10
  <2>5. CASE GatewayUnmap(q)
    <3>0. PICK full \in BOOLEAN :
            Answer(q, Reply(q, 0, full,
                            [ext |-> 0, int |-> q.int, life |-> 0]))
      BY <2>5 DEF GatewayUnmap
    <3> DEFINE a == Reply(q, 0, full, [ext |-> 0, int |-> q.int, life |-> 0])
    <3>1. a \in Datagram
      BY <2>1, <2>2 DEF Reply, Datagram, Code, Grant
    <3>2. IsAnswer(a, q)
      BY <2>1, <2>2, <2>5 DEF GatewayUnmap, IsAnswer, Reply, Grant
    <3>3. \A m \in table' : Key(m) # Key(q)
      BY <2>5 DEF GatewayUnmap, Key
    <3>4. Answered(q, a)
      BY <2>5, <3>0, <3>2, <3>3 DEF GatewayUnmap, Answer, Answered, Reply, TypeOK
    <3> QED
      BY <3>1, <3>4
  <2>6. CASE GatewayRefuse(q)
    <3>1. PICK c \in ResultCode : Answer(q, Reply(q, c, FALSE, ZeroGrant))
      BY <2>6 DEF GatewayRefuse
    <3>2. Reply(q, c, FALSE, ZeroGrant) \in Datagram
      BY <2>1, <2>2 DEF Reply, Datagram, Code, Grant, ZeroGrant
    <3>3. Answered(q, Reply(q, c, FALSE, ZeroGrant))
      BY <2>6, <3>1 DEF GatewayRefuse, Answer, Answered, Reply, IsAnswer, TypeOK
    <3> QED
      BY <3>2, <3>3
  <2> QED
    BY <1>2, <2>3, <2>4, <2>5, <2>6
<1> QED
  BY <1>1, <1>2 DEF Gateway

LEMMA NextType ==
  ASSUME TypeOK, Numbering, Waiting, Provenance, Leftover, [Next]_vars
  PROVE  TypeOK'
<1> USE ConstantsOK DEF ConstantsOK
<1>1. ZeroGrant \in Grant
  BY ZeroGrantType
<1>2. CASE Call
  <2>1. CASE Stillborn
    <3>1. call' \in 0 .. MaxCalls /\ open' \in 0 .. FdLimit
      BY <2>1 DEF Stillborn, TypeOK
    <3>2. resp' \in Grant \cup Address
      BY <1>1, <2>1 DEF Stillborn
    <3>3. retry' \in 0 .. Retries /\ fruitless' \in 0 .. 2
      BY <2>1 DEF Stillborn, Retries
    <3>6. dropped' \in 0 .. 1
      BY <2>1 DEF Stillborn
    <3>4. errno' \in Nat /\ ret' \in {-2, 0, 1}
      BY <2>1 DEF Stillborn, LocalErrors, EMFILE, ENETUNREACH, EINVALIDPROT
    <3>5. strays' \subseteq Datagram
      BY <2>1 DEF Stillborn
    <3> QED
      BY <2>1, <3>1, <3>2, <3>3, <3>4, <3>5, <3>6 DEF Stillborn, TypeOK
  <2>2. CASE Sent
    <3>1. call' \in 0 .. MaxCalls /\ open' \in 0 .. FdLimit
      BY <2>2 DEF Sent, TypeOK
    <3>2. resp' \in Grant \cup Address
      BY <1>1, <2>2 DEF Sent
    <3>3. retry' \in 0 .. Retries /\ fruitless' \in 0 .. 2
      BY <2>2 DEF Sent, TypeOK, Retries
    <3>4. request' \in Packet \cup {ExipRequest(0)} /\ requests' \subseteq Packet
      BY <2>2 DEF Sent, TypeOK
    <3>5. dropped' \in 0 .. 1
      BY <2>2 DEF Sent
    <3>6. strays' \subseteq Datagram
      BY <2>2 DEF Sent
    <3> QED
      BY <2>2, <3>1, <3>2, <3>3, <3>4, <3>5, <3>6 DEF Sent, TypeOK
  <2> QED
    BY <1>2, <2>1, <2>2, CallCases
<1>3. CASE Recv
  BY <1>3, RecvType
<1>4. CASE Gateway
  <2>1. CASE Expired
    BY <2>1 DEF Expired, TypeOK, client, history
  <2>2. ASSUME NEW q \in requests, NEW a \in Datagram, Answered(q, a)
        PROVE  TypeOK'
    <3>1. Key(q) \in [op : 0 .. 2, int : PortField]
      BY DEF TypeOK, Packet, Key
    <3> QED
      BY <2>2, <3>1 DEF Answered, TypeOK, client
  <2> QED
    BY <1>4, <2>1, <2>2, GatewayCases
<1>5. CASE Stray
  <2>1. request \in Packet
    BY <1>5 DEF Stray, Waiting, TypeOK
  <2>2. PICK c \in {0} \cup ResultCode, full \in BOOLEAN,
             v \in Foreign :
          strays' = {[call |-> call, from |-> "other", op |-> request.op + 128,
                      code |-> c, full |-> full, value |-> v]}
    BY <1>5 DEF Stray
  <2>3. v \in Grant \cup Address /\ c \in Code
    BY DEF Code, Foreign
  <2>4. strays' \subseteq Datagram
    <3>1. call \in 1 .. MaxCalls /\ request.op + 128 \in Nat
      BY <1>5, <2>1 DEF Stray, Waiting, Packet
    <3> QED
      BY <2>2, <2>3, <3>1 DEF Datagram
  <2> QED
    BY <1>5, <2>4 DEF Stray, TypeOK, client, history
<1>6. CASE UNCHANGED vars
  BY <1>6 DEF TypeOK, vars, client, network, history
<1> QED
  BY <1>2, <1>3, <1>4, <1>5, <1>6 DEF Next

-----------------------------------------------------------------------------
(* The other parts of Inv *)

LEMMA NextNumbering ==
  ASSUME TypeOK, Numbering, Waiting, [Next]_vars
  PROVE  Numbering' /\ Waiting'
<1>1. CASE Call
  <2>1. CASE Stillborn
    BY <2>1 DEF Stillborn, Numbering, Waiting, TypeOK, Packet, ExipRequest
  <2>2. CASE Sent
    <3>1. \A q \in requests : q.call \in Nat /\ q.call < call + 1
      BY DEF Numbering, TypeOK, Packet
    <3>2. call + 1 \in Nat /\ ~(call + 1 < call + 1)
      BY DEF TypeOK
    <3>3. Numbering'
      BY <2>2, <3>1, <3>2 DEF Sent, Numbering
    <3> QED
      BY <2>2, <3>3 DEF Sent, Waiting
  <2> QED
    BY <1>1, <2>1, <2>2, CallCases
<1>2. CASE Recv
  <2>1. ASSUME NEW d \in Queued,
               RecvStray(d) \/ RecvAddress(d) \/ RecvGrant(d) \/ RecvRefusal(d)
        PROVE  Numbering' /\ Waiting'
    BY <2>1 DEF RecvStray, RecvAddress, RecvGrant, RecvRefusal, Take, Return,
       Numbering, Waiting
  <2>2. CASE RecvNothing
    BY <2>2 DEF RecvNothing, Return, Numbering, Waiting
  <2> QED
    BY <1>2, <2>1, <2>2 DEF Recv
<1>3. CASE Gateway
  BY <1>3, GatewayCases DEF Expired, Answered, client, Numbering, Waiting
<1>4. CASE Stray
  BY <1>4 DEF Stray, client, Numbering, Waiting
<1>5. CASE UNCHANGED vars
  BY <1>5 DEF vars, client, network, Numbering, Waiting
<1> QED
  BY <1>1, <1>2, <1>3, <1>4, <1>5 DEF Next

LEMMA NextProvenance ==
  ASSUME TypeOK, Provenance, [Next]_vars
  PROVE  Provenance'
<1>1. CASE Call
  BY <1>1, CallCases DEF Stillborn, Sent, Provenance
<1>2. CASE Recv
  <2>1. ASSUME NEW d \in Queued,
               RecvStray(d) \/ RecvAddress(d) \/ RecvGrant(d) \/ RecvRefusal(d)
        PROVE  Provenance'
    BY <2>1 DEF RecvStray, RecvAddress, RecvGrant, RecvRefusal, Take, Return,
       Provenance
  <2>2. CASE RecvNothing
    BY <2>2 DEF RecvNothing, Return, Provenance
  <2> QED
    BY <1>2, <2>1, <2>2 DEF Recv
<1>3. CASE Gateway
  <2>1. CASE Expired
    BY <2>1 DEF Expired, Provenance
  <2>2. ASSUME NEW q \in requests, NEW a \in Datagram, Answered(q, a)
        PROVE  Provenance'
    BY <2>2 DEF Answered, Provenance
  <2> QED
    BY <1>3, <2>1, <2>2, GatewayCases
<1>4. CASE Stray
  BY <1>4 DEF Stray, Provenance
<1>5. CASE UNCHANGED vars
  BY <1>5 DEF vars, network, Provenance
<1> QED
  BY <1>1, <1>2, <1>3, <1>4, <1>5 DEF Next

LEMMA NextLeftover ==
  ASSUME TypeOK, Numbering, Waiting, Provenance, Leftover, [Next]_vars
  PROVE  Leftover'
<1> USE DEF Leftover
<1>1. CASE Call
  BY <1>1, CallCases DEF Stillborn, Sent, Foreign
<1>2. CASE Recv
  <2>1. ASSUME NEW d \in Queued, RecvStray(d)
        PROVE  Leftover'
    <3>1. pc = "wait" /\ UNCHANGED << pc, fn >> /\ dropped' = 1
      BY <2>1 DEF RecvStray, Take
    <3>2. d.value \in Foreign /\ resp' = Overlay(d).value
      BY <2>1, <3>1, QueuedType DEF RecvStray
    <3>3. resp' \in {ZeroGrant} \cup Foreign
      BY <3>1, <3>2 DEF Overlay
    <3> QED
      BY <2>1, <3>1, <3>3 DEF RecvStray, Foreign
  <2>2. ASSUME NEW d \in Queued,
               RecvAddress(d) \/ RecvGrant(d) \/ RecvRefusal(d)
        PROVE  Leftover'
    BY <2>2 DEF RecvAddress, RecvGrant, RecvRefusal, Return
  <2>3. CASE RecvNothing
    BY <2>3 DEF RecvNothing, Return, Foreign
  <2> QED
    BY <1>2, <2>1, <2>2, <2>3 DEF Recv
<1>3. CASE Gateway
  BY <1>3, GatewayCases DEF Expired, Answered, client, history, Foreign
<1>4. CASE Stray
  BY <1>4 DEF Stray, client, history, Foreign
<1>5. CASE UNCHANGED vars
  BY <1>5 DEF vars, client, network, history, Foreign
<1> QED
  BY <1>1, <1>2, <1>3, <1>4, <1>5 DEF Next

LEMMA NextGrantIsReal ==
  ASSUME TypeOK, Numbering, Waiting, Provenance, Leftover, GrantIsReal,
         [Next]_vars
  PROVE  GrantIsReal'
<1> USE DEF GrantIsReal, Succeeded, Handed
<1>1. CASE Call
  BY <1>1, CallCases DEF Stillborn, Sent
<1>2. CASE Recv
  <2>1. ASSUME NEW d \in Queued,
               RecvStray(d) \/ RecvAddress(d) \/ RecvGrant(d) \/ RecvRefusal(d)
        PROVE  GrantIsReal'
    <3>0. pc = "wait"
      BY <2>1 DEF RecvStray, RecvAddress, RecvGrant, RecvRefusal, Take
    <3>1. CASE RecvStray(d)
      BY <3>0, <3>1 DEF RecvStray
    <3>2. CASE RecvAddress(d)
      <4>1. /\ d \in answers /\ d.call = call /\ d.code = 0
            /\ exip' \in Brought(d)
        BY <3>0, <3>2, QueuedType DEF RecvAddress, Accepted, Overlay
      <4>2. /\ fn = "exip"
            /\ UNCHANGED << fn, dropped, answers, call >>
        BY <3>2 DEF RecvAddress, Take
      <4>3. Brought(d)' = Brought(d)
        BY <4>2 DEF Brought, Foreign
      <4> QED
        BY <4>1, <4>2, <4>3
    <3>3. CASE RecvGrant(d)
      <4>1. /\ d \in answers /\ d.call = call /\ d.code = 0
            /\ IsAnswer(d, request)
            /\ Overlay(d).value \in Brought(d)
        BY <3>0, <3>3, QueuedType DEF RecvGrant, Accepted, Overlay
      <4>2. request.op = OpCode(pfield.proto) /\ request.op # 0 /\ fn # "exip"
        BY <3>0, <3>3 DEF RecvGrant, Waiting, OpCode
      <4>3. /\ pfield' = Granted(Overlay(d).value)
            /\ UNCHANGED << fn, dropped, answers, call, request >>
        BY <3>3 DEF RecvGrant, Take
      <4>4. Brought(d)' = Brought(d)
        BY <4>3 DEF Brought, Foreign
      <4>5. Brought(d) \subseteq Grant
        BY <3>0, <4>1, <4>2, BroughtType
      <4>6. Handed' = Overlay(d).value
        BY <4>1, <4>2, <4>3, <4>5 DEF Granted, Grant
      <4>7. d.op = OpCode(pfield'.proto) + 128
        BY <4>1, <4>2, <4>3 DEF IsAnswer, Granted
      <4>8. d.full => pfield'.int = request.int
        BY <4>1, <4>2, <4>3 DEF IsAnswer, Granted, Overlay
      <4> QED
        BY <4>1, <4>3, <4>4, <4>6, <4>7, <4>8
    <3>4. CASE RecvRefusal(d)
      BY <3>4 DEF RecvRefusal, Return
    <3> QED
      BY <2>1, <3>1, <3>2, <3>3, <3>4
  <2>2. CASE RecvNothing
    BY <2>2 DEF RecvNothing, Return
  <2> QED
    BY <1>2, <2>1, <2>2 DEF Recv
<1>3. CASE Gateway
  BY <1>3, GatewayCases DEF Expired, Answered, client, history, Brought, Foreign
<1>4. CASE Stray
  BY <1>4 DEF Stray, client, history, Brought, Foreign
<1>5. CASE UNCHANGED vars
  BY <1>5 DEF vars, client, network, history, Brought, Foreign
<1> QED
  BY <1>1, <1>2, <1>3, <1>4, <1>5 DEF Next

LEMMA NextErrnoExplains ==
  ASSUME TypeOK, Numbering, Waiting, Provenance, Leftover, ErrnoExplains,
         [Next]_vars
  PROVE  ErrnoExplains'
<1> USE DEF ErrnoExplains, Failed
<1>1. CASE Call
  <2>1. CASE Stillborn
    <3>1. call \in Nat /\ call' = call + 1 /\ request.call \in Nat
      BY <2>1 DEF Stillborn, TypeOK, Packet, ExipRequest
    <3>2. \A q \in requests : q.call \in Nat /\ q.call # call + 1
      BY <3>1 DEF Numbering, TypeOK, Packet
    <3>3. \A a \in answers : a.call # call + 1
      BY <3>2 DEF Provenance, IsAnswer
    <3>4. request.call # call + 1
      BY <3>1 DEF Numbering
    <3> QED
      BY <2>1, <3>1, <3>2, <3>3, <3>4 DEF Stillborn
  <2>2. CASE Sent
    BY <2>2 DEF Sent
  <2> QED
    BY <1>1, <2>1, <2>2, CallCases
<1>2. CASE Recv
  <2>1. ASSUME NEW d \in Queued,
               RecvStray(d) \/ RecvAddress(d) \/ RecvGrant(d) \/ RecvRefusal(d)
        PROVE  ErrnoExplains'
    <3>0. pc = "wait"
      BY <2>1 DEF RecvStray, RecvAddress, RecvGrant, RecvRefusal, Take
    <3>1. CASE RecvStray(d)
      BY <3>0, <3>1 DEF RecvStray
    <3>2. CASE RecvAddress(d) \/ RecvGrant(d)
      BY <3>2 DEF RecvAddress, RecvGrant, Return
    <3>3. CASE RecvRefusal(d)
      <4>1. /\ d \in answers /\ d.call = call /\ d.code \in Code
            /\ IsAnswer(d, request)
        BY <3>0, <3>3, QueuedType DEF RecvRefusal
      <4>2. request \in Packet /\ request.call = call
        BY <3>0 DEF Waiting, TypeOK
      <4>3. d.op - 128 = request.op
        BY <4>1, <4>2 DEF IsAnswer, Packet
      <4>4. d.code # 0
        BY <3>3, <4>3 DEF RecvRefusal, Accepted, Overlay
      <4>5. d.code \in Nat /\ d.code > 0
        BY <4>1, <4>4, CodeInNat, PositiveCode
      <4>6. /\ errno' = NPMP_OK + d.code
            /\ UNCHANGED << call, request, answers >>
        BY <3>3 DEF RecvRefusal, Take, Return
      <4>7. errno' > NPMP_OK /\ errno' - NPMP_OK = d.code
        BY <4>5, <4>6 DEF NPMP_OK
      <4>8. \E a \in answers' : a.call = call' /\ a.code = errno' - NPMP_OK
        BY <4>1, <4>6, <4>7
      <4> QED
        BY <4>2, <4>6, <4>7, <4>8
    <3> QED
      BY <2>1, <3>1, <3>2, <3>3
  <2>2. CASE RecvNothing
    BY <2>2 DEF RecvNothing, Return, Waiting
  <2> QED
    BY <1>2, <2>1, <2>2 DEF Recv
<1>3. CASE Gateway
  <2>1. CASE Expired
    BY <2>1 DEF Expired, client
  <2>2. ASSUME NEW q \in requests, NEW a \in Datagram, Answered(q, a)
        PROVE  ErrnoExplains'
    BY <2>2 DEF Answered, IsAnswer, client
  <2> QED
    BY <1>3, <2>1, <2>2, GatewayCases
<1>4. CASE Stray
  BY <1>4 DEF Stray, client
<1>5. CASE UNCHANGED vars
  BY <1>5 DEF vars, client, network
<1> QED
  BY <1>1, <1>2, <1>3, <1>4, <1>5 DEF Next

LEMMA NextPatience ==
  ASSUME TypeOK, PatienceSpent, [Next]_vars
  PROVE  PatienceSpent'
<1> USE DEF PatienceSpent
<1>1. CASE Call
  <2>1. CASE Stillborn
    <3>1. errno' # ETIMEDOUT
      BY <2>1 DEF Stillborn, LocalErrors, EMFILE, ENETUNREACH, EINVALIDPROT,
         ETIMEDOUT
    <3> QED
      BY <2>1, <3>1 DEF Stillborn
  <2>2. CASE Sent
    BY <2>2 DEF Sent, Retries
  <2> QED
    BY <1>1, <2>1, <2>2, CallCases
<1>2. CASE Recv
  <2>0. ASSUME NEW d \in Queued, Take(d)
        PROVE  pc = "wait" /\ UNCHANGED fruitless
    BY <2>0 DEF Take
  <2>1. ASSUME NEW d \in Queued, RecvStray(d)
        PROVE  PatienceSpent'
    BY <2>0, <2>1 DEF RecvStray, CountDown, TypeOK, Retries
  <2>2. ASSUME NEW d \in Queued, RecvAddress(d) \/ RecvGrant(d)
        PROVE  PatienceSpent'
    BY <2>0, <2>2 DEF RecvAddress, RecvGrant, Return
  <2>3. ASSUME NEW d \in Queued, RecvRefusal(d)
        PROVE  PatienceSpent'
    <3>1. d.code \in Code
      BY DEF Queued, TypeOK, Datagram
    <3>2. d.code \in Nat /\ errno' = NPMP_OK + d.code
      BY <2>3, <3>1, CodeInNat DEF RecvRefusal, Return
    <3>3. errno' # ETIMEDOUT
      BY <3>2 DEF NPMP_OK, ETIMEDOUT
    <3> QED
      BY <2>0, <2>3, <3>3 DEF RecvRefusal, Return
  <2>4. CASE RecvNothing
    <3>1. /\ pc = "wait" /\ fruitless <= 1 /\ fruitless' = fruitless + 1
          /\ retry = 2 <=> fruitless + dropped = 0
          /\ retry \in 0 .. 2 /\ fruitless \in 0 .. 2 /\ dropped \in 0 .. 1
          /\ UNCHANGED dropped
      BY <2>4 DEF RecvNothing, TypeOK, Retries
    <3>2. CASE CountDown <= 0
      BY <2>4, <3>1, <3>2 DEF RecvNothing, Return, CountDown
    <3>3. CASE ~(CountDown <= 0)
      BY <2>4, <3>1, <3>3 DEF RecvNothing, CountDown
    <3> QED
      BY <3>2, <3>3
  <2> QED
    BY <1>2, <2>1, <2>2, <2>3, <2>4 DEF Recv
<1>3. CASE Gateway
  BY <1>3, GatewayCases DEF Expired, Answered, client, history
<1>4. CASE Stray
  BY <1>4 DEF Stray, client, history
<1>5. CASE UNCHANGED vars
  BY <1>5 DEF vars, client, history
<1> QED
  BY <1>1, <1>2, <1>3, <1>4, <1>5 DEF Next

-----------------------------------------------------------------------------
(* The theorems that need Inv only *)

LEMMA InitInv == Init => Inv
<1> SUFFICES ASSUME Init PROVE Inv
  OBVIOUS
<1> USE ConstantsOK DEF ConstantsOK, Init
<1>1. ZeroGrant \in Grant
  BY ZeroGrantType
<1>2. TypeOK
  BY <1>1 DEF TypeOK, NoField, FieldType, Retries
<1>3. Numbering /\ Waiting /\ Provenance
  BY DEF Numbering, Waiting, Provenance, ExipRequest
<1>4. GrantIsReal /\ ErrnoExplains
  BY DEF GrantIsReal, Succeeded, ErrnoExplains, Failed
<1>5. PatienceSpent /\ Leftover
  BY DEF PatienceSpent, Leftover
<1> QED
  BY <1>2, <1>3, <1>4, <1>5 DEF Inv

LEMMA NextInv == Inv /\ [Next]_vars => Inv'
BY NextType, NextNumbering, NextProvenance, NextLeftover, NextGrantIsReal,
   NextErrnoExplains, NextPatience DEF Inv

LEMMA InvAlways == Spec => []Inv
BY InitInv, NextInv, PTL DEF Spec

(* Every packet and every value given to the caller has the width and shape
   the code declares, for ports of any width a caller may pass. *)
THEOREM TypeCorrect == Spec => []TypeOK
BY InvAlways, PTL DEF Inv

(* A call that returns 0 was granted by the gateway in an answer to that call,
   whatever other hosts send and however late or often replies arrive; what it
   hands over is that grant if the answer was whole, and else zeros or what a
   datagram of another host, dropped in this call, has left. *)
THEOREM GrantsAreReal == Spec => []GrantIsReal
BY InvAlways, PTL DEF Inv

(* errno tells refusals, timeouts and calls that never left apart. *)
THEOREM ErrnoIsRight == Spec => []ErrnoExplains
BY InvAlways, PTL DEF Inv

(* A call gives up after two receives that brought nothing, or one and a
   datagram of another host. *)
THEOREM PatienceIsSpent == Spec => []PatienceSpent
BY InvAlways, PTL DEF Inv

-----------------------------------------------------------------------------
(* What the caller knows of the gateway's table *)

LEMMA NextSettled ==
  ASSUME Inv, Settled, [Next]_vars
  PROVE  Settled'
<1> USE DEF Inv, Settled
<1>1. CASE Call
  <2>1. CASE Stillborn
    BY <2>1 DEF Stillborn
  <2>2. CASE Sent
    <3>1. call \in Nat /\ ~(call + 1 < call + 1)
      BY DEF TypeOK
    <3> QED
      BY <2>2, <3>1 DEF Sent
  <2> QED
    BY <1>1, <2>1, <2>2, CallCases
<1>2. CASE Recv
  <2>0. \A q \in requests : q.call < call \/ q.call = call
    BY DEF Numbering, TypeOK, Packet
  <2>1. ASSUME NEW d \in Queued, RecvStray(d)
        PROVE  Settled'
    BY <2>1 DEF RecvStray, Take
  <2>2. ASSUME NEW d \in Queued,
               RecvAddress(d) \/ RecvGrant(d) \/ RecvRefusal(d)
        PROVE  Settled'
    <3>1. d \in answers /\ d.call = call
      BY <2>2, QueuedType DEF RecvAddress, RecvGrant, RecvRefusal, Take
    <3>2. UNCHANGED << call, requests, answers >> /\ blurred \subseteq blurred'
      BY <2>2 DEF RecvAddress, RecvGrant, RecvRefusal, Take
    <3>3. pc = "wait"
      BY <2>2 DEF RecvAddress, RecvGrant, RecvRefusal, Take
    <3> QED
      BY <2>0, <3>1, <3>2, <3>3
  <2>3. CASE RecvNothing
    <3>1. \A q \in requests : q.call = call => q = request
      BY <2>3 DEF RecvNothing, Waiting, Numbering
    <3> QED
      BY <2>0, <2>3, <3>1 DEF RecvNothing, Return
  <2> QED
    BY <1>2, <2>1, <2>2, <2>3 DEF Recv
<1>3. CASE Gateway
  <2>1. CASE Expired
    BY <2>1 DEF Expired, client, history
  <2>2. ASSUME NEW q \in requests, NEW a \in Datagram, Answered(q, a)
        PROVE  Settled'
    BY <2>2 DEF Answered, client
  <2> QED
    BY <1>3, <2>1, <2>2, GatewayCases
<1>4. CASE Stray
  BY <1>4 DEF Stray, client, history
<1>5. CASE UNCHANGED vars
  BY <1>5 DEF vars, client, network, history
<1> QED
  BY <1>1, <1>2, <1>3, <1>4, <1>5 DEF Next

LEMMA NextSingle ==
  ASSUME Inv, Single, [Next]_vars
  PROVE  Single'
<1> USE DEF Inv, Single
<1>1. CASE Call
  <2>1. CASE Stillborn
    BY <2>1 DEF Stillborn
  <2>2. CASE Sent
    <3>1. \A a \in answers : a.call # call + 1
      <4>1. \A q \in requests : q.call \in Nat /\ q.call <= call
        BY DEF Numbering, TypeOK, Packet
      <4> QED
        BY <4>1 DEF Provenance, IsAnswer, TypeOK
    <3> QED
      BY <2>2, <3>1 DEF Sent
  <2> QED
    BY <1>1, <2>1, <2>2, CallCases
<1>2. CASE Recv
  <2>1. ASSUME NEW d \in Queued,
               RecvStray(d) \/ RecvAddress(d) \/ RecvGrant(d) \/ RecvRefusal(d)
        PROVE  Single'
    BY <2>1 DEF RecvStray, RecvAddress, RecvGrant, RecvRefusal, Take
  <2>2. CASE RecvNothing
    BY <2>2 DEF RecvNothing
  <2> QED
    BY <1>2, <2>1, <2>2 DEF Recv
<1>3. CASE Gateway
  <2>1. CASE Expired
    BY <2>1 DEF Expired, history
  <2>2. ASSUME NEW q \in requests, NEW a \in Datagram, Answered(q, a)
        PROVE  Single'
    <3>1. \A r \in requests : r.call = a.call => r = q
      BY <2>2 DEF Answered, IsAnswer, Numbering
    <3>2. \A b \in answers : b.call = a.call => Key(q) \in blurred'
      BY <2>2 DEF Answered, IsAnswer
    <3>3. /\ blurred \subseteq blurred' /\ answers' = answers \cup {a}
          /\ requests' = requests
      BY <2>2 DEF Answered
    <3> QED
      BY <3>1, <3>2, <3>3
  <2> QED
    BY <1>3, <2>1, <2>2, GatewayCases
<1>4. CASE Stray
  BY <1>4 DEF Stray, history
<1>5. CASE UNCHANGED vars
  BY <1>5 DEF vars, network, history
<1> QED
  BY <1>1, <1>2, <1>3, <1>4, <1>5 DEF Next

(* A step of the gateway for another call than the one that waits blurs the
   mapping it changes. *)
LEMMA OtherCallBlurs ==
  ASSUME Inv, Settled, NEW q \in requests, NEW a \in Datagram, Answered(q, a),
         pc = "wait" => q # request
  PROVE  Key(q) \in blurred'
<1>1. q.call < call \/ pc = "idle"
  <2>1. q.call \in Nat /\ call \in Nat /\ q.call <= call /\ pc \in {"idle", "wait"}
    BY DEF Inv, Numbering, TypeOK, Packet
  <2>2. pc = "wait" => q.call # call
    BY DEF Inv, Numbering, Waiting
  <2> QED
    BY <2>1, <2>2
<1> QED
  BY <1>1 DEF Settled, Answered

LEMMA NextRemoved ==
  ASSUME Inv, Settled, Removed, [Next]_vars
  PROVE  Removed'
<1> USE DEF Inv, Removed
<1>1. CASE Call
  <2>1. CASE Stillborn
    BY <2>1 DEF Stillborn
  <2>2. CASE Sent
    <3>1. \A q \in requests : q.call \in Nat /\ q.call <= call
      BY DEF Numbering, TypeOK, Packet
    <3>2. \A a \in answers : a.call # call + 1
      BY <3>1 DEF Provenance, IsAnswer, TypeOK
    <3> QED
      BY <2>2, <3>2 DEF Sent
  <2> QED
    BY <1>1, <2>1, <2>2, CallCases
<1>2. CASE Recv
  <2>1. ASSUME NEW d \in Queued, RecvStray(d)
        PROVE  Removed'
    BY <2>1 DEF RecvStray, Take
  <2>2. ASSUME NEW d \in Queued,
               RecvAddress(d) \/ RecvGrant(d) \/ RecvRefusal(d)
        PROVE  Removed'
    BY <2>2 DEF RecvAddress, RecvGrant, RecvRefusal, Return
  <2>3. CASE RecvNothing
    BY <2>3 DEF RecvNothing, Return
  <2> QED
    BY <1>2, <2>1, <2>2, <2>3 DEF Recv
<1>3. CASE Gateway
  <2>1. CASE Expired
    BY <2>1 DEF Expired, client, history
  <2>2. ASSUME NEW q \in requests, NEW a \in Datagram, Answered(q, a)
        PROVE  Removed'
    <3>1. UNCHANGED << pc, call, request >> /\ blurred \subseteq blurred'
      BY <2>2 DEF Answered, client
    <3>2. CASE pc = "wait" /\ q = request
      <4>1. q.call = call
        BY <3>2 DEF Waiting
      <4>2. (\E b \in answers : b.call = call) => Key(request) \in blurred'
        BY <2>2, <3>2, <4>1 DEF Answered
      <4>3. request.op # 0 /\ a.code = 0 =>
              \A m \in table' : Key(m) = Key(request) =>
                                  a.value.life > 0 /\ a.value.ext = m.ext
        BY <2>2, <3>2 DEF Answered
      <4> QED
        BY <2>2, <3>1, <4>2, <4>3 DEF Answered
    <3>3. CASE pc = "wait" /\ q # request
      <4>1. a.call # call
        BY <2>2, <3>3 DEF Answered, IsAnswer, Waiting, Numbering
      <4>2. Key(q) \in blurred'
        BY <2>2, <3>3, OtherCallBlurs
      <4>3. Key(request) \notin blurred' =>
              \A m \in table' : Key(m) = Key(request) => m \in table
        BY <2>2, <4>2 DEF Answered
      <4> QED
        BY <2>2, <3>1, <4>1, <4>3 DEF Answered
    <3>4. CASE pc # "wait"
      BY <3>1, <3>4
    <3> QED
      BY <3>2, <3>3, <3>4
  <2> QED
    BY <1>3, <2>1, <2>2, GatewayCases
<1>4. CASE Stray
  BY <1>4 DEF Stray, client, history
<1>5. CASE UNCHANGED vars
  BY <1>5 DEF vars, client, network, history
<1> QED
  BY <1>1, <1>2, <1>3, <1>4, <1>5 DEF Next

LEMMA NextKnowledge ==
  ASSUME TableInv, [Next]_vars
  PROVE  Knowledge'
<1> USE DEF TableInv, Inv, Knowledge
<1>1. CASE Call
  BY <1>1, CallCases DEF Stillborn, Sent, Pending
<1>2. CASE Recv
  <2>1. ASSUME NEW d \in Queued, RecvStray(d)
        PROVE  Knowledge'
    BY <2>1 DEF RecvStray, Take, Pending
  <2>2. ASSUME NEW d \in Queued, RecvAddress(d)
        PROVE  Knowledge'
    <3>1. request.op = 0
      BY <2>2 DEF RecvAddress, Take, Waiting
    <3>2. \A m \in table : m.op # 0
      BY DEF TypeOK, Mapping
    <3>3. \A m \in table : Key(m) # Key(request)
      BY <3>1, <3>2 DEF Key
    <3> QED
      BY <2>2, <3>3 DEF RecvAddress, Take, Pending
  <2>3. ASSUME NEW d \in Queued, RecvGrant(d)
        PROVE  Knowledge'
    <3>1. pc = "wait" /\ fn # "exip" /\ request.op # 0
      BY <2>3 DEF RecvGrant, Take, Waiting, OpCode
    <3>2. /\ d \in answers /\ d.call = call /\ d.code = 0
          /\ IsAnswer(d, request)
          /\ d.full => Overlay(d).value = d.value
      BY <2>3, <3>1, QueuedType DEF RecvGrant, Accepted, Overlay
    <3>3. CASE d.full
      <4> DEFINE new == [op |-> request.op, int |-> request.int,
                         ext |-> d.value.ext]
      <4>1. /\ pfield'.int = request.int /\ pfield'.ext = d.value.ext
            /\ pfield'.life = d.value.life
        BY <2>3, <3>1, <3>2, <3>3 DEF RecvGrant, Granted, IsAnswer
      <4>2. Key([op |-> request.op, int |-> pfield'.int, ext |-> pfield'.ext,
                 life |-> pfield'.life]) = Key(request)
        BY <4>1 DEF Key
      <4>3. view' = {v \in view : Key(v) # Key(request)} \cup
                    (IF d.value.life = 0 THEN {} ELSE {new})
        BY <2>3, <4>1, <4>2 DEF RecvGrant, Learn
      <4>4. UNCHANGED << table, blurred >>
        BY <2>3, <3>3 DEF RecvGrant, Take
      <4>5. ASSUME NEW m \in table, Key(m) \notin blurred,
                   Key(m) = Key(request)
            PROVE  m \in view'
        <5>1. d.value.life > 0 /\ d.value.ext = m.ext
          BY <3>1, <3>2, <4>5 DEF Removed
        <5>2. m.op = request.op /\ m.int = request.int /\ m \in Mapping
          BY <4>5 DEF Key, TypeOK
        <5>3. m = new
          BY <5>1, <5>2 DEF Mapping
        <5>4. d.value.life # 0
          BY <5>1
        <5> QED
          BY <4>3, <5>3, <5>4
      <4>6. ASSUME NEW m \in table, Key(m) \notin blurred,
                   Key(m) # Key(request)
            PROVE  m \in view'
        BY <4>3, <4>6 DEF Pending
      <4> QED
        BY <4>4, <4>5, <4>6
    <3>4. CASE ~d.full
      <4> DEFINE told == [op |-> request.op, int |-> pfield'.int,
                          ext |-> pfield'.ext, life |-> pfield'.life]
      <4>1. /\ blurred' = blurred \cup {Key(request), Key(told)}
            /\ \A v \in view : Key(v) # Key(told) => v \in view'
            /\ UNCHANGED table
        BY <2>3, <3>4 DEF RecvGrant, Learn, Take
      <4> HIDE DEF told
      <4>2. ASSUME NEW m \in table, Key(m) \notin blurred'
            PROVE  m \in view'
        <5>1. Key(m) \notin blurred /\ Key(m) # Key(request)
              /\ Key(m) # Key(told)
          BY <4>1, <4>2
        <5>2. m \in view
          BY <5>1 DEF Pending
        <5> QED
          BY <4>1, <5>1, <5>2
      <4> QED
        BY <4>1, <4>2
    <3> QED
      BY <3>3, <3>4
  <2>4. ASSUME NEW d \in Queued, RecvRefusal(d)
        PROVE  Knowledge'
    <3>1. pc = "wait"
      BY <2>4 DEF RecvRefusal, Take
    <3>2. d \in answers /\ d.call = call /\ IsAnswer(d, request)
      BY <2>4, <3>1, QueuedType DEF RecvRefusal
    <3>3. request \in Packet
      BY <3>1 DEF Waiting, TypeOK
    <3>4. d.op - 128 = request.op
      BY <3>2, <3>3 DEF IsAnswer, Packet
    <3>5. d.code # 0
      BY <2>4, <3>4 DEF RecvRefusal, Accepted, Overlay
    <3>6. ASSUME NEW m \in table, Pending(m)
          PROVE  Key(m) \in blurred
      <4>1. PICK b \in answers : b.call = call /\ b.code = 0
        BY <3>6 DEF Pending
      <4>2. b # d /\ b.call = d.call /\ request.call = b.call
        BY <3>1, <3>2, <3>5, <4>1 DEF Waiting
      <4> QED
        BY <3>1, <3>2, <3>6, <4>2 DEF Single, Waiting, Pending
    <3> QED
      BY <2>4, <3>6 DEF RecvRefusal, Take
  <2>5. CASE RecvNothing
    <3>1. UNCHANGED << table, view, call, request, answers >>
      BY <2>5 DEF RecvNothing
    <3>2. CASE CountDown <= 0
      BY <2>5, <3>1, <3>2 DEF RecvNothing, Pending
    <3>3. CASE ~(CountDown <= 0)
      BY <2>5, <3>1, <3>3 DEF RecvNothing, Pending
    <3> QED
      BY <3>2, <3>3
  <2> QED
    BY <1>2, <2>1, <2>2, <2>3, <2>4, <2>5 DEF Recv
<1>3. CASE Gateway
  <2>1. CASE Expired
    BY <2>1 DEF Expired, client, history, Pending
  <2>2. ASSUME NEW q \in requests, NEW a \in Datagram, Answered(q, a)
        PROVE  Knowledge'
    <3>1. /\ UNCHANGED << pc, call, request, view >> /\ blurred \subseteq blurred'
          /\ answers' = answers \cup {a}
      BY <2>2 DEF Answered, client
    <3>2. \A m : Pending(m) => Pending(m)'
      BY <3>1 DEF Pending, Key
    <3>3. ASSUME NEW m \in table', m \in table
          PROVE  Key(m) \in blurred' \/ m \in view' \/ Pending(m)'
      BY <3>1, <3>2, <3>3
    <3>4. ASSUME NEW m \in table', m \notin table
          PROVE  Key(m) \in blurred' \/ m \in view' \/ Pending(m)'
      <4>1. Key(m) = Key(q) /\ a.code = 0
        BY <2>2, <3>4 DEF Answered
      <4>2. q.op # 0
        BY <2>2, <4>1 DEF Answered, Mapping, Key
      <4>3. a.value.life > 0 /\ a.value.ext = m.ext
        BY <2>2, <4>1, <4>2 DEF Answered
      <4>4. CASE pc = "wait" /\ q = request
        <5>1. a.call = call
          BY <2>2, <4>4 DEF Answered, IsAnswer, Waiting
        <5> QED
          BY <3>1, <4>1, <4>3, <4>4, <5>1 DEF Pending, Key
      <4>5. CASE pc = "wait" => q # request
        BY <2>2, <4>1, <4>5, OtherCallBlurs
      <4> QED
        BY <4>4, <4>5
    <3> QED
      BY <3>3, <3>4 DEF Key
  <2> QED
    BY <1>3, <2>1, <2>2, GatewayCases
<1>4. CASE Stray
  BY <1>4 DEF Stray, client, history, Pending
<1>5. CASE UNCHANGED vars
  BY <1>5 DEF vars, client, network, history, Pending
<1> QED
  BY <1>1, <1>2, <1>3, <1>4, <1>5 DEF Next

(* Between calls the caller knows every mapping the gateway holds for it,
   but for those a timeout or a second copy of a request has blurred: success
   and refusal never misreport the gateway's table. *)
THEOREM NothingIsUnknown == Spec => []NoUnknownMapping
<1>1. Init => TableInv
  BY InitInv DEF Init, TableInv, Settled, Single, Removed, Knowledge
<1>2. TableInv /\ [Next]_vars => TableInv'
  BY NextInv, NextSettled, NextSingle, NextRemoved, NextKnowledge DEF TableInv
<1>3. TableInv => NoUnknownMapping
  BY DEF TableInv, Knowledge, Pending, NoUnknownMapping
<1> QED
  BY <1>1, <1>2, <1>3, PTL DEF Spec

-----------------------------------------------------------------------------
(* NatPmp implements RemoteCall.  The caller's reading of a call (Status,
   Told) is compared with the answers the gateway gave to it (Decisions); Inv
   says that the two agree when the call comes back. *)

(* A refusal carries no grant. *)
Refusals == \A a \in answers : a.code # 0 => a.value = ZeroGrant

PromiseInv == Inv /\ Refusals

-----------------------------------------------------------------------------
(* Only the gateway adds answers, and its refusals are empty. *)
LEMMA GatewayRefusals ==
  ASSUME Refusals, Gateway
  PROVE  Refusals'
<1>1. ASSUME NEW q \in requests, NEW c, NEW f, NEW v,
             c # 0 => v = ZeroGrant,
             Answer(q, Reply(q, c, f, v))
      PROVE  Refusals'
  BY <1>1 DEF Refusals, Answer, Reply
<1>2. ASSUME NEW m \in table, Expire(m)
      PROVE  Refusals'
  BY <1>2 DEF Refusals, Expire
<1>3. ASSUME NEW q \in requests,
             \/ GatewayAddress(q) \/ GatewayMap(q)
             \/ GatewayUnmap(q)   \/ GatewayRefuse(q)
      PROVE  Refusals'
  BY <1>1, <1>3 DEF GatewayAddress, GatewayMap, GatewayUnmap, GatewayRefuse
<1> QED
  BY <1>2, <1>3 DEF Gateway

LEMMA NextRefusals ==
  ASSUME PromiseInv, [Next]_vars
  PROVE  Refusals'
<1>1. CASE Call
  BY <1>1, CallCases DEF PromiseInv, Inv, Stillborn, Sent, Refusals
<1>2. CASE Recv
  <2>1. UNCHANGED answers
    BY <1>2 DEF Recv, RecvStray, RecvAddress, RecvGrant, RecvRefusal,
                RecvNothing, Take
  <2> QED
    BY <2>1 DEF PromiseInv, Refusals
<1>3. CASE Gateway
  BY <1>3, GatewayRefusals DEF PromiseInv
<1>4. CASE Stray \/ UNCHANGED vars
  BY <1>4 DEF Stray, vars, network, PromiseInv, Refusals
<1> QED
  BY <1>1, <1>2, <1>3, <1>4 DEF Next

LEMMA PromiseInvAlways == Spec => []PromiseInv
<1>1. Init => PromiseInv
  BY InitInv DEF Init, PromiseInv, Refusals
<1>2. PromiseInv /\ [Next]_vars => PromiseInv'
  BY NextInv, NextRefusals DEF PromiseInv
<1> QED
  BY <1>1, <1>2, PTL DEF Spec

-----------------------------------------------------------------------------
(* A call begins: nothing on the network belongs to it yet. *)
LEMMA NothingDecided ==
  ASSUME PromiseInv, call' = call + 1, UNCHANGED answers
  PROVE  Decisions' = {}
<1>1. call \in Nat
  BY DEF PromiseInv, Inv, TypeOK
<1>2. \A q \in requests : q.call \in Nat /\ q.call # call + 1
  BY <1>1 DEF PromiseInv, Inv, Numbering, TypeOK, Packet
<1>3. \A a \in answers : a.call # call + 1
  BY <1>2 DEF PromiseInv, Inv, Provenance, IsAnswer
<1> QED
  BY <1>3 DEF Decisions

LEMMA NatPmpBegins ==
  ASSUME PromiseInv, Call
  PROVE  Promise!Begin \/ Promise!Stillborn
<1>1. call \in Nat /\ call + 1 # 0 /\ call + 1 > 0
  BY DEF PromiseInv, Inv, TypeOK
<1>2. CASE Stillborn
  <2>1. /\ pc = "idle" /\ pc' = "idle" /\ call' = call + 1
        /\ ret' # 0 /\ errno' \in LocalErrors /\ UNCHANGED answers
    BY <1>2 DEF Stillborn
  <2>2. Decisions' = {}
    BY <2>1, NothingDecided
  <2>3. ~(errno' >= NPMP_OK) /\ errno' # ETIMEDOUT
    BY <2>1 DEF LocalErrors, EMFILE, ENETUNREACH, EINVALIDPROT, NPMP_OK,
                ETIMEDOUT
  <2>4. Status' = "not sent" /\ Told' = {}
    BY <1>1, <2>1, <2>3 DEF Status, Told, Succeeded, Failed
  <2> QED
    BY <2>1, <2>2, <2>4 DEF Promise!Stillborn, Status, Told, Decisions
<1>3. CASE Sent
  <2>1. /\ pc = "idle" /\ pc' = "wait" /\ call' = call + 1
        /\ UNCHANGED answers
    BY <1>3 DEF Sent
  <2>2. Decisions' = {}
    BY <2>1, NothingDecided
  <2>3. Status' = "none" /\ Told' = {}
    BY <2>1 DEF Status, Told, Succeeded, Failed
  <2> QED
    BY <2>1, <2>2, <2>3 DEF Promise!Begin, Status, Told, Decisions
<1> QED
  BY <1>2, <1>3, CallCases DEF PromiseInv, Inv

-----------------------------------------------------------------------------
(* A call ends: what it tells is one of the gateway's decisions on it. *)

(* A success: GrantIsReal names the answer. *)
LEMMA SuccessIsDecided ==
  ASSUME PromiseInv, Succeeded
  PROVE  \E d \in Decisions : Told = {d} /\ Status = "decided"
<1>1. PICK a \in answers :
        a.call = call /\ a.code = 0 /\ Handed \in Brought(a)
  BY DEF PromiseInv, Inv, GrantIsReal
<1>2. Status = "decided"
  BY DEF Status, Succeeded, Failed
<1>3. Told = {[code |-> 0, value |-> Handed]}
  BY DEF Told, Succeeded, Failed
<1>4. [code |-> 0, value |-> Handed] \in DecisionsOf(a)
  <2>1. CASE a.full
    BY <1>1, <2>1 DEF Brought, DecisionsOf
  <2>2. CASE ~a.full
    <3>1. Handed \in {ZeroGrant} \cup Foreign
      BY <1>1, <2>2 DEF Brought
    <3> QED
      BY <1>1, <2>2, <3>1 DEF DecisionsOf
  <2> QED
    BY <2>1, <2>2
<1>5. DecisionsOf(a) \subseteq Decisions
  BY <1>1 DEF Decisions
<1> QED
  BY <1>2, <1>3, <1>4, <1>5

(* A refusal: ErrnoExplains names the answer. *)
LEMMA RefusalIsDecided ==
  ASSUME PromiseInv, Failed, errno >= NPMP_OK
  PROVE  \E d \in Decisions : Told = {d} /\ Status = "decided"
<1>1. errno \notin LocalErrors /\ errno # ETIMEDOUT
  BY DEF LocalErrors, EMFILE, ENETUNREACH, EINVALIDPROT, NPMP_OK, ETIMEDOUT
<1>2. PICK a \in answers : a.call = call /\ a.code = errno - NPMP_OK
  BY <1>1 DEF PromiseInv, Inv, ErrnoExplains
<1>3. errno > NPMP_OK /\ errno \in Nat
  BY <1>1 DEF PromiseInv, Inv, ErrnoExplains, TypeOK
<1>4. a.code # 0
  BY <1>2, <1>3 DEF NPMP_OK
<1>5. a.value = ZeroGrant
  BY <1>4 DEF PromiseInv, Refusals
<1>6. [code |-> a.code, value |-> a.value] \in Decisions
  BY <1>2, <1>4 DEF Decisions, DecisionsOf
<1>7. Status = "decided"
  BY <1>1 DEF Status, Succeeded, Failed
<1>8. Told = {[code |-> a.code, value |-> a.value]}
  BY <1>2, <1>5 DEF Told, Succeeded, Failed
<1> QED
  BY <1>6, <1>7, <1>8

(* What is left is a timeout, or an error before anything was sent. *)
LEMMA OtherwiseUndecided ==
  ASSUME PromiseInv, Failed, ~(errno >= NPMP_OK)
  PROVE  /\ Told = {}
         /\ \/ Status = "unknown"
            \/ Status = "not sent" /\ Decisions = {}
<1>1. Told = {}
  BY DEF Told, Succeeded, Failed
<1>2. CASE errno = ETIMEDOUT
  BY <1>1, <1>2 DEF Status, Succeeded, Failed
<1>3. CASE errno # ETIMEDOUT
  <2>1. \A a \in answers : a.call # call
    BY <1>3 DEF PromiseInv, Inv, ErrnoExplains, TypeOK, NPMP_OK
  <2>2. Decisions = {}
    BY <2>1 DEF Decisions
  <2>3. Status = "not sent"
    BY <1>3 DEF Status, Succeeded, Failed
  <2> QED
    BY <1>1, <2>2, <2>3
<1> QED
  BY <1>2, <1>3

(* How a call that is over has come back. *)
Outcome ==
  \/ \E d \in Decisions : Told = {d} /\ Status = "decided"
  \/ Told = {} /\ Status = "unknown"
  \/ Told = {} /\ Status = "not sent" /\ Decisions = {}

LEMMA EveryOutcome == PromiseInv /\ pc = "idle" /\ call > 0 => Outcome
BY SuccessIsDecided, RefusalIsDecided, OtherwiseUndecided
   DEF Outcome, Succeeded, Failed

(* The same of the state after a step. *)
LEMMA EveryOutcomeNext == (PromiseInv /\ pc = "idle" /\ call > 0 => Outcome)'
BY EveryOutcome, PTL

LEMMA NatPmpFinishes ==
  ASSUME PromiseInv, Outcome', pc = "wait", pc' = "idle",
         UNCHANGED << answers, call, fn >>
  PROVE  Promise!Finish
<1>1. Decisions' = Decisions
  BY DEF Decisions, DecisionsOf, Foreign
<1>2. /\ (pc = "wait") /\ (pc = "wait")' = FALSE
  OBVIOUS
<1>3. \/ \E d \in Decisions : Told' = {d} /\ Status' = "decided"
      \/ Told' = {} /\ Status' = "unknown"
      \/ Told' = {} /\ Status' = "not sent" /\ Decisions = {}
  BY <1>1 DEF Outcome
<1> QED
  BY <1>1, <1>2, <1>3 DEF Promise!Finish, Status, Told, Decisions

(* Nothing the caller or the gateway would notice. *)
LEMMA NatPmpStutters ==
  ASSUME UNCHANGED << answers, call, pc, fn >>,
         pc = "wait" \/ UNCHANGED << pfield, ret, errno, exip >>
  PROVE  UNCHANGED Promise!vars
<1>1. Decisions' = Decisions
  BY DEF Decisions, DecisionsOf, Foreign
<1>2. Status' = Status /\ Told' = Told
  <2>1. CASE pc = "wait"
    BY <2>1 DEF Status, Told, Succeeded, Failed
  <2>2. CASE UNCHANGED << pfield, ret, errno, exip >>
    BY <2>2 DEF Status, Told, Handed, Succeeded, Failed
  <2> QED
    BY <2>1, <2>2
<1>3. (pc = "wait")' = (pc = "wait")
  OBVIOUS
<1> QED
  BY <1>1, <1>2, <1>3 DEF Promise!vars, Status, Told, Decisions

LEMMA NatPmpReceives ==
  ASSUME PromiseInv, Outcome' \/ pc' # "idle", Recv
  PROVE  Promise!Finish \/ UNCHANGED Promise!vars
<1>1. pc = "wait" /\ UNCHANGED << answers, call, fn >>
  BY DEF Recv, RecvStray, RecvAddress, RecvGrant, RecvRefusal, RecvNothing,
         Take
<1>2. pc' = "idle" \/ UNCHANGED pc
  BY DEF Recv, RecvStray, RecvAddress, RecvGrant, RecvRefusal, RecvNothing,
         Return
<1>3. CASE pc' = "idle"
  BY <1>1, <1>3, NatPmpFinishes
<1>4. CASE UNCHANGED pc
  BY <1>1, <1>4, NatPmpStutters
<1> QED
  BY <1>2, <1>3, <1>4

(* The gateway answers the latest call, or an earlier one: then nobody who
   looks at the latest call sees it. *)
LEMMA NatPmpDecides ==
  ASSUME PromiseInv, NEW q \in requests, NEW a \in Datagram, Answered(q, a)
  PROVE  Promise!Decide \/ UNCHANGED Promise!vars
<1>1. /\ answers' = answers \cup {a} /\ a.call = q.call
      /\ UNCHANGED << call, pc, fn, pfield, ret, errno, exip >>
  BY DEF Answered, IsAnswer, client
<1>2. Status' = Status /\ Told' = Told /\ (pc = "wait")' = (pc = "wait")
  BY <1>1 DEF Status, Told, Handed, Succeeded, Failed
<1>3. CASE q.call = call
  <2>1. Status # "not sent"
    <3>1. CASE pc = "wait" \/ call = 0
      BY <3>1 DEF Status, Succeeded, Failed
    <3>2. CASE ~(pc = "wait" \/ call = 0)
      <4>1. pc = "idle" /\ call > 0
        BY <3>2 DEF PromiseInv, Inv, TypeOK
      <4>2. Failed => errno \notin LocalErrors /\ (errno >= NPMP_OK
                                                   \/ errno = ETIMEDOUT)
        BY <1>3 DEF PromiseInv, Inv, ErrnoExplains, TypeOK, LocalErrors,
                    EMFILE, ENETUNREACH, EINVALIDPROT, NPMP_OK, ETIMEDOUT
      <4>3. Succeeded \/ Failed
        BY <4>1 DEF Succeeded, Failed
      <4> QED
        BY <3>2, <4>2, <4>3 DEF Status
    <3> QED
      BY <3>1, <3>2
  <2>2. Decisions' = Decisions \cup DecisionsOf(a)
    <3>1. \A b : DecisionsOf(b)' = DecisionsOf(b)
      BY <1>1 DEF DecisionsOf, Foreign
    <3> QED
      BY <1>1, <1>3, <3>1 DEF Decisions
  <2>3. DecisionsOf(a) \subseteq [code : Code, value : Grant \cup Address]
    <3>1. ZeroGrant \in Grant /\ Foreign \subseteq Grant \cup Address /\ 0 \in Code
      BY ZeroGrantType, ConstantsOK DEF ConstantsOK, Foreign, Code
    <3>2. a.code \in Code /\ a.value \in Grant \cup Address
      BY DEF Datagram
    <3> QED
      BY <3>1, <3>2 DEF DecisionsOf
  <2> QED
    BY <1>2, <2>1, <2>2, <2>3 DEF Promise!Decide, Status, Told, Decisions
<1>4. CASE q.call # call
  <2>1. Decisions' = Decisions
    BY <1>1, <1>4 DEF Decisions, DecisionsOf, Foreign
  <2> QED
    BY <1>2, <2>1 DEF Promise!vars, Status, Told, Decisions
<1> QED
  BY <1>3, <1>4

LEMMA NatPmpStep ==
  ASSUME PromiseInv, PromiseInv', [Next]_vars
  PROVE  [Promise!Next]_(Promise!vars)
<1> USE DEF Promise!Next
<1>1. CASE Call
  BY <1>1, NatPmpBegins
<1>2. CASE Recv
  <2>1. pc = "wait" /\ UNCHANGED call /\ call > 0
    BY <1>2 DEF Recv, RecvStray, RecvAddress, RecvGrant, RecvRefusal,
                RecvNothing, Take, PromiseInv, Inv, Waiting, TypeOK, Packet
  <2>2. Outcome' \/ pc' # "idle"
    BY <2>1, EveryOutcomeNext
  <2> QED
    BY <1>2, <2>2, NatPmpReceives
<1>3. CASE Gateway
  <2>1. CASE Expired
    <3>1. UNCHANGED << answers, call, pc, fn, pfield, ret, errno, exip >>
      BY <2>1 DEF Expired, client
    <3> QED
      BY <3>1, NatPmpStutters
  <2>2. ASSUME NEW q \in requests, NEW a \in Datagram, Answered(q, a)
        PROVE  Promise!Decide \/ UNCHANGED Promise!vars
    BY <2>2, NatPmpDecides
  <2> QED
    BY <1>3, <2>1, <2>2, GatewayCases DEF PromiseInv, Inv
<1>4. CASE Stray \/ UNCHANGED vars
  <2>1. UNCHANGED << answers, call, pc, fn, pfield, ret, errno, exip >>
    BY <1>4 DEF Stray, vars, client, network
  <2> QED
    BY <2>1, NatPmpStutters
<1> QED
  BY <1>1, <1>2, <1>3, <1>4 DEF Next

(* The NAT-PMP client implements the abstract call of RemoteCall: whatever
   the network loses, delays or repeats, a call asks at most once and comes
   back with a decision the gateway took on this very call, or with none. *)
THEOREM NatPmpKeepsPromise == Spec => ImplementsPromise
<1>1. Init => Promise!Init
  <2>1. ASSUME Init PROVE Promise!Init
    <3>1. /\ Status = "none" /\ Told = {} /\ ~(pc = "wait")
          /\ Decisions = {}
      BY <2>1 DEF Init, Status, Told, Decisions, Succeeded, Failed
    <3> QED
      BY <3>1 DEF Promise!Init, Status, Told, Decisions
  <2> QED
    BY <2>1
<1>2. PromiseInv /\ PromiseInv' /\ [Next]_vars
        => [Promise!Next]_(Promise!vars)
  BY NatPmpStep
<1> QED
  BY <1>1, <1>2, PromiseInvAlways, PTL
     DEF Spec, ImplementsPromise, Promise!Spec
=============================================================================
