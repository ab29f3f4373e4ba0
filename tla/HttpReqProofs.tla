---------------------------- MODULE HttpReqProofs ----------------------------
(***************************************************************************)
(* Proofs about HttpReq: its invariants, and that it implements the        *)
(* abstract call of RemoteCall, for every buffer size, set of answers,     *)
(* descriptor limit and number of calls.                                   *)
(***************************************************************************)
EXTENDS HttpReq, TLAPS

Busy == IF pc = "idle" THEN 0 ELSE 1

(* A call in progress holds a socket and has no result yet; before the write
   nothing was received and afterwards the request is out. *)
Phase ==
  /\ pc # "idle" => open >= 1 /\ result = "none"
  /\ pc \in {"connecting", "connected", "killed"} => written = 0
  /\ pc = "receiving" => written = 1
  /\ pc = "idle" /\ result = "none" => calls = 0 /\ written = 0
  /\ pc = "idle" /\ result = "buffer" => written = 1
  /\ result = "null" => written = 0

(* Only a call that returned its buffer has a status; only a request that was
   written is answered, and by one answer. *)
Answered ==
  /\ result # "buffer" => http_status = 0
  /\ written = 0 => answer = {}
  /\ conn = "pending" => written = 0
  /\ answer = {} => sent = 0
  /\ \A a, b \in answer : a = b

CallsCounted == unasked + Busy <= calls

(* The loop read a status at the end of what it was sent. *)
Whole ==
  pc = "idle" /\ http_status # 0 =>
    received = sent \/ received = Size \/ conn = "reset"

HttpInv ==
  /\ TypeOK
  /\ Phase
  /\ Answered
  /\ CallsCounted
  /\ BufferIsPrefix
  /\ StatusIsReal
  /\ Whole
  /\ AskedCallsClose

-----------------------------------------------------------------------------
LEMMA HttpInit == Init => HttpInv
<1> SUFFICES ASSUME Init PROVE HttpInv
  OBVIOUS
<1> USE HttpConstantsOK DEF HttpConstantsOK
<1>1. TypeOK
  BY DEF Init, TypeOK, Conn
<1>2. Phase /\ Answered /\ CallsCounted
  BY DEF Init, Phase, Answered, CallsCounted, Busy
<1>3. BufferIsPrefix /\ StatusIsReal /\ Whole /\ AskedCallsClose
  BY DEF Init, BufferIsPrefix, StatusIsReal, Whole, AskedCallsClose, received
<1> QED
  BY <1>1, <1>2, <1>3 DEF HttpInv

(* The first step of a call: nothing is asked yet. *)
LEMMA HttpBegins ==
  ASSUME HttpInv, HttpReq
  PROVE  HttpInv'
<1> USE HttpConstantsOK DEF HttpConstantsOK, HttpInv
<1>1. /\ pc = "idle" /\ calls' = calls + 1 /\ http_status' = 0
      /\ totall_bytes_received' = 0 /\ remain_buffer_len' = Size
      /\ written' = 0 /\ answer' = {} /\ sent' = 0
      /\ calls' \in 0 .. MaxCalls
  BY DEF HttpReq, Begin, CallersZero, TypeOK
<1>2. \/ /\ pc' = "idle" /\ result' = "null" /\ unasked' = unasked + 1
         /\ conn' = "none"
         /\ open' = open \/ (open' = open + 1 /\ open < FdLimit)
      \/ /\ pc' \in {"connected", "connecting"} /\ result' = "none"
         /\ conn' \in {"established", "pending", "unconnected"}
         /\ open' = open + 1 /\ open < FdLimit
         /\ UNCHANGED unasked
  BY DEF HttpReq, NoSocket, HostNotFound, ConnectedAtOnce,
         ConnectionInProgress, HaveSocket
<1>3. open' \in 0 .. FdLimit
  BY <1>2 DEF TypeOK
<1>4. CallsCounted' /\ unasked' \in 0 .. MaxCalls
  BY <1>1, <1>2 DEF CallsCounted, Busy, TypeOK
<1>5. TypeOK'
  BY <1>1, <1>2, <1>3, <1>4 DEF TypeOK, Conn
<1>6. Phase'
  BY <1>1, <1>2, <1>3 DEF Phase, TypeOK
<1>7. Answered'
  BY <1>1, <1>2 DEF Answered
<1>8. BufferIsPrefix' /\ StatusIsReal' /\ Whole'
  BY <1>1 DEF BufferIsPrefix, StatusIsReal, Whole, received
<1>9. AskedCallsClose'
  BY <1>1, <1>2 DEF AskedCallsClose, TypeOK
<1> QED
  BY <1>4, <1>5, <1>6, <1>7, <1>8, <1>9 DEF HttpInv

(* The call comes back with NULL. *)
LEMMA HttpReturnsNull ==
  ASSUME HttpInv, ConnectTimeout \/ ConnectInterrupted \/ WriteFails
  PROVE  HttpInv'
<1> USE HttpConstantsOK DEF HttpConstantsOK, HttpInv
<1>1. /\ pc \in {"connecting", "connected"}
      /\ pc' = "idle" /\ result' = "null" /\ unasked' = unasked + 1
      /\ open' = open \/ open' = open - 1
      /\ UNCHANGED << totall_bytes_received, remain_buffer_len, http_status,
                      conn, written, answer, sent, calls >>
  BY DEF ConnectTimeout, ConnectInterrupted, WriteFails, ReturnNull, server
<1>2. CallsCounted' /\ unasked' \in 0 .. MaxCalls
  BY <1>1 DEF CallsCounted, Busy, TypeOK
<1>3. open' \in 0 .. FdLimit
  BY <1>1 DEF TypeOK, Phase
<1>4. TypeOK'
  BY <1>1, <1>2, <1>3 DEF TypeOK
<1>5. Phase' /\ Answered'
  BY <1>1 DEF Phase, Answered
<1>6. BufferIsPrefix'
  BY <1>1 DEF BufferIsPrefix, received
<1>7. StatusIsReal' /\ Whole'
  BY <1>1 DEF StatusIsReal, Whole, Answered, Phase
<1>8. AskedCallsClose'
  BY <1>1 DEF AskedCallsClose, TypeOK
<1> QED
  BY <1>2, <1>4, <1>5, <1>6, <1>7, <1>8 DEF HttpInv

(* The call comes back with its buffer. *)
LEMMA HttpReturnsBuffer ==
  ASSUME HttpInv, RecvEnd \/ SelectTimeout \/ SelectInterrupted
  PROVE  HttpInv'
<1> USE HttpConstantsOK DEF HttpConstantsOK, HttpInv
<1>1. /\ pc = "receiving" /\ pc' = "idle" /\ result' = "buffer"
      /\ open' = open - 1
      /\ UNCHANGED << totall_bytes_received, remain_buffer_len,
                      conn, written, answer, sent, calls, unasked >>
  BY DEF RecvEnd, SelectTimeout, SelectInterrupted, GiveUp, ReturnBuffer,
         CloseSocket, server
<1>2. \/ /\ http_status' = StatusIn(received)
         /\ conn # "established" \/ remain_buffer_len = 0
         /\ sent = received \/ conn = "reset" \/ remain_buffer_len = 0
      \/ http_status' = http_status
  <2>1. CASE RecvEnd
    BY <2>1 DEF RecvEnd
  <2>2. CASE SelectTimeout \/ SelectInterrupted
    BY <2>2 DEF SelectTimeout, SelectInterrupted, GiveUp
  <2> QED
    BY <2>1, <2>2
<1>3. StatusIn(received) # 0 =>
        \E a \in answer : a.code = StatusIn(received) /\ received >= a.line
  <2>1. SUFFICES ASSUME StatusIn(received) # 0
                 PROVE  \E a \in answer : /\ a.code = StatusIn(received)
                                          /\ received >= a.line
    OBVIOUS
  <2>2. PICK b \in answer : received >= b.line
    BY <2>1 DEF StatusIn
  <2>3. StatusIn(received) = (CHOOSE a \in answer : TRUE).code
    BY <2>2 DEF StatusIn
  <2>4. (CHOOSE a \in answer : TRUE) \in answer
    BY <2>2
  <2>5. (CHOOSE a \in answer : TRUE) = b
    BY <2>2, <2>4 DEF Answered
  <2> QED
    BY <2>2, <2>3, <2>5
<1>4. StatusIn(received) \in Nat
  <2>1. CASE answer = {}
    BY <2>1 DEF StatusIn
  <2>2. CASE answer # {}
    <3>1. (CHOOSE a \in answer : TRUE) \in Answer
      BY <2>2 DEF TypeOK
    <3>2. (CHOOSE a \in answer : TRUE).code \in Nat
      BY <3>1
    <3> QED
      BY <3>2 DEF StatusIn
  <2> QED
    BY <2>1, <2>2
<1>5. http_status' \in Nat
  BY <1>2, <1>4 DEF TypeOK
<1>6. open' \in 0 .. FdLimit
  BY <1>1 DEF TypeOK, Phase
<1>7. TypeOK'
  BY <1>1, <1>5, <1>6 DEF TypeOK
<1>8. Phase' /\ Answered'
  BY <1>1 DEF Phase, Answered
<1>9. CallsCounted'
  BY <1>1 DEF CallsCounted, Busy, TypeOK
<1>10. BufferIsPrefix'
  BY <1>1 DEF BufferIsPrefix, received
<1>11. StatusIsReal'
  <2>1. http_status = 0
    BY <1>1 DEF Phase, Answered
  <2>2. CASE http_status' = http_status
    BY <2>1, <2>2 DEF StatusIsReal
  <2>3. CASE /\ http_status' = StatusIn(received)
             /\ conn # "established" \/ remain_buffer_len = 0
    <3>1. conn # "established" \/ received = Size
      BY <2>3 DEF BufferIsPrefix, TypeOK, received
    <3>2. http_status' # 0 =>
            \E a \in answer : a.code = http_status' /\ received >= a.line
      BY <1>3, <2>3
    <3> QED
      BY <1>1, <3>1, <3>2 DEF StatusIsReal, received
  <2> QED
    BY <1>2, <2>2, <2>3
<1>12. AskedCallsClose'
  BY <1>1 DEF AskedCallsClose, TypeOK
<1>13. Whole'
  <2>1. http_status = 0
    BY <1>1 DEF Phase, Answered
  <2>2. remain_buffer_len = 0 => received = Size
    BY DEF BufferIsPrefix, TypeOK, received
  <2> QED
    BY <1>1, <1>2, <2>1, <2>2 DEF Whole, received
<1> QED
  BY <1>7, <1>8, <1>9, <1>10, <1>11, <1>12, <1>13 DEF HttpInv

(* The other steps of a call. *)
LEMMA HttpGoesOn ==
  ASSUME HttpInv, SelectWritable \/ WriteKills
  PROVE  HttpInv'
<1> USE DEF HttpInv
<1>1. /\ pc \in {"connecting", "connected"} /\ pc' \in {"connected", "killed"}
      /\ UNCHANGED << totall_bytes_received, remain_buffer_len, http_status,
                      result, open, conn, written, answer, sent, calls,
                      unasked >>
  BY DEF SelectWritable, WriteKills, server
<1>2. TypeOK'
  BY <1>1 DEF TypeOK
<1>3. Phase' /\ Answered' /\ CallsCounted'
  BY <1>1 DEF Phase, Answered, CallsCounted, Busy
<1>4. BufferIsPrefix' /\ StatusIsReal' /\ Whole' /\ AskedCallsClose'
  BY <1>1 DEF BufferIsPrefix, StatusIsReal, Whole, AskedCallsClose, received
<1> QED
  BY <1>2, <1>3, <1>4

LEMMA HttpWrites ==
  ASSUME HttpInv, WriteRequest
  PROVE  HttpInv'
<1> USE HttpConstantsOK DEF HttpConstantsOK, HttpInv
<1>1. /\ pc = "connected" /\ pc' = "receiving" /\ written' = 1
      /\ conn # "pending" /\ totall_bytes_received' = 0 /\ remain_buffer_len' = Size
      /\ http_status' = 0
      /\ UNCHANGED << result, open, conn, answer, sent, calls, unasked >>
  BY DEF WriteRequest
<1>2. TypeOK'
  BY <1>1 DEF TypeOK
<1>3. Phase' /\ Answered' /\ CallsCounted'
  BY <1>1 DEF Phase, Answered, CallsCounted, Busy
<1>4. BufferIsPrefix'
  BY <1>1 DEF BufferIsPrefix, received, TypeOK
<1>5. StatusIsReal' /\ Whole' /\ AskedCallsClose'
  BY <1>1 DEF StatusIsReal, Whole, AskedCallsClose
<1> QED
  BY <1>2, <1>3, <1>4, <1>5

LEMMA HttpReceives ==
  ASSUME HttpInv, RecvData
  PROVE  HttpInv'
<1> USE HttpConstantsOK DEF HttpConstantsOK, HttpInv
<1>1. /\ pc = "receiving"
      /\ UNCHANGED << pc, http_status, result, open, conn, written, answer,
                      sent, calls, unasked >>
  BY DEF RecvData, server
<1>2. PICK n \in Nat : /\ n <= sent - received /\ n <= remain_buffer_len
                       /\ totall_bytes_received' = received + n
                       /\ remain_buffer_len' = remain_buffer_len - n
  <2>1. Lesser(sent - received, remain_buffer_len) \in Nat
    BY DEF RecvData, Lesser, TypeOK, received
  <2>2. /\ Lesser(sent - received, remain_buffer_len) <= sent - received
        /\ Lesser(sent - received, remain_buffer_len) <= remain_buffer_len
    BY DEF RecvData, Lesser, TypeOK, received
  <2> QED
    BY <2>1, <2>2 DEF RecvData, Remaining
<1>3. BufferIsPrefix'
  BY <1>1, <1>2 DEF BufferIsPrefix, received, TypeOK
<1>4. totall_bytes_received' \in 0 .. Size /\ remain_buffer_len' \in 0 .. Size
  BY <1>2 DEF TypeOK, BufferIsPrefix, received
<1>5. TypeOK'
  BY <1>1, <1>4 DEF TypeOK
<1>6. Phase' /\ Answered' /\ CallsCounted'
  BY <1>1 DEF Phase, Answered, CallsCounted, Busy
<1>7. StatusIsReal' /\ Whole' /\ AskedCallsClose'
  BY <1>1 DEF StatusIsReal, Whole, AskedCallsClose
<1> QED
  BY <1>3, <1>5, <1>6, <1>7

(* A step of the server or the network leaves the client alone. *)
LEMMA HttpServer ==
  ASSUME HttpInv, Server
  PROVE  HttpInv'
<1> USE HttpConstantsOK DEF HttpConstantsOK, HttpInv
<1>1. UNCHANGED << pc, totall_bytes_received, remain_buffer_len, http_status,
                   result, open, written, calls, unasked >>
  BY DEF Server, Handshake, ServerDecides, ServerSends, ServerCloses,
         ConnectionBreaks, client
<1>2. /\ conn' \in Conn
      /\ conn # "established" /\ conn # "pending" => conn' # "established"
      /\ conn' # "pending" \/ UNCHANGED conn
      /\ written = 0 => UNCHANGED << answer, sent >>
  BY DEF Server, Handshake, ServerDecides, ServerSends, ServerCloses,
         ConnectionBreaks, Conn, TypeOK, Answered
<1>3. \/ UNCHANGED answer
      \/ /\ answer = {} /\ UNCHANGED << sent, conn >>
         /\ \E a \in Answer : answer' = {a}
  BY DEF Server, Handshake, ServerDecides, ServerSends, ServerCloses,
         ConnectionBreaks
<1>4. /\ sent' \in Nat /\ sent <= sent'
      /\ UNCHANGED sent
         \/ (UNCHANGED answer /\ \E a \in answer : sent' <= a.length)
  <2>1. CASE ServerSends
    <3>1. PICK a \in answer : sent' \in (sent + 1) .. a.length
      BY <2>1 DEF ServerSends
    <3>2. a.length \in Nat
      BY <3>1 DEF TypeOK
    <3> QED
      BY <2>1, <3>1, <3>2 DEF ServerSends, TypeOK
  <2>2. CASE Handshake \/ ServerDecides \/ ServerCloses \/ ConnectionBreaks
    BY <2>2 DEF Handshake, ServerDecides, ServerCloses, ConnectionBreaks,
                TypeOK
  <2> QED
    BY <2>1, <2>2 DEF Server
<1>5. TypeOK'
  BY <1>1, <1>2, <1>3, <1>4 DEF TypeOK
<1>6. Phase' /\ CallsCounted' /\ AskedCallsClose'
  BY <1>1 DEF Phase, CallsCounted, Busy, AskedCallsClose
<1>7. Answered'
  BY <1>1, <1>2, <1>3, <1>4 DEF Answered
<1>8. BufferIsPrefix'
  <2>1. received' = received /\ remain_buffer_len' = remain_buffer_len
    BY <1>1 DEF received
  <2>2. received <= sent'
    BY <1>4 DEF BufferIsPrefix, TypeOK, received
  <2>3. ASSUME NEW a \in answer' PROVE sent' <= a.length
    <3>1. CASE UNCHANGED answer
      BY <1>4, <3>1 DEF BufferIsPrefix, Answered
    <3>2. CASE answer = {} /\ UNCHANGED sent
      <4>1. sent' = 0
        BY <3>2 DEF Answered
      <4>2. a.length \in Nat
        BY <1>5 DEF TypeOK
      <4> QED
        BY <4>1, <4>2
    <3> QED
      BY <1>3, <3>1, <3>2
  <2> QED
    BY <2>1, <2>2, <2>3 DEF BufferIsPrefix
<1>9. StatusIsReal'
  <2>1. SUFFICES ASSUME pc # "receiving", http_status # 0
                 PROVE  StatusIsReal'
    BY <1>1 DEF StatusIsReal
  <2>2. UNCHANGED answer /\ answer # {}
    BY <1>3, <2>1 DEF StatusIsReal
  <2>3. conn' # "established" \/ received' = Size
    <3>1. CASE conn = "pending"
      BY <3>1, <2>2 DEF Answered
    <3>2. CASE conn # "pending"
      BY <3>2, <1>1, <1>2, <2>1 DEF StatusIsReal, received
    <3> QED
      BY <3>1, <3>2
  <2> QED
    BY <1>1, <2>1, <2>2, <2>3 DEF StatusIsReal, received
<1>10. Whole'
  <2>1. SUFFICES ASSUME pc = "idle", http_status # 0
                 PROVE  received = sent' \/ received = Size \/ conn' = "reset"
    BY <1>1 DEF Whole, received
  <2>2. conn # "established" \/ received = Size
    BY <2>1 DEF StatusIsReal
  <2>3. conn = "reset" => conn' = "reset"
    BY DEF Server, Handshake, ServerDecides, ServerSends, ServerCloses,
           ConnectionBreaks
  <2>4. conn # "established" => UNCHANGED sent
    BY DEF Server, Handshake, ServerDecides, ServerSends, ServerCloses,
           ConnectionBreaks
  <2> QED
    BY <2>1, <2>2, <2>3, <2>4 DEF Whole
<1> QED
  BY <1>5, <1>6, <1>7, <1>8, <1>9, <1>10

LEMMA HttpStep ==
  ASSUME HttpInv, [Next]_vars
  PROVE  HttpInv'
<1>1. CASE HttpReq
  BY <1>1, HttpBegins
<1>2. CASE Step
  BY <1>2, HttpReturnsNull, HttpReturnsBuffer, HttpGoesOn, HttpWrites,
     HttpReceives DEF Step
<1>5. CASE Signal
  BY <1>5, HttpReturnsNull, HttpReturnsBuffer DEF Signal
<1>3. CASE Server
  BY <1>3, HttpServer
<1>4. CASE UNCHANGED vars
  <2> USE <1>4 DEF vars, client, server
  <2>1. TypeOK' /\ BufferIsPrefix'
    BY DEF HttpInv, TypeOK, BufferIsPrefix, received
  <2>2. Phase' /\ Answered' /\ CallsCounted'
    BY DEF HttpInv, Phase, Answered, CallsCounted, Busy
  <2>3. StatusIsReal' /\ Whole' /\ AskedCallsClose'
    BY DEF HttpInv, StatusIsReal, Whole, AskedCallsClose, received
  <2> QED
    BY <2>1, <2>2, <2>3 DEF HttpInv
<1> QED
  BY <1>1, <1>2, <1>3, <1>4, <1>5 DEF Next

THEOREM HttpInvariant == Spec => []HttpInv
<1>1. Init => HttpInv
  BY HttpInit
<1>2. HttpInv /\ [Next]_vars => HttpInv'
  BY HttpStep
<1> QED
  BY <1>1, <1>2, PTL DEF Spec

(* Every reachable state of the HTTP client is well typed: the byte counts of
   http.c:192-193 never leave the buffer. *)
THEOREM HttpTypeCorrect == Spec => []TypeOK
<1>1. HttpInv => TypeOK
  BY DEF HttpInv
<1> QED
  BY <1>1, HttpInvariant, PTL

(* The received text is a prefix of the server's answer, and what it leaves
   free of the buffer is what remain_buffer_len says. *)
THEOREM BufferHoldsPrefix == Spec => []BufferIsPrefix
<1>1. HttpInv => BufferIsPrefix
  BY DEF HttpInv
<1> QED
  BY <1>1, HttpInvariant, PTL

(* A status other than 0 is the server's, for this request, and came after
   its whole status line. *)
THEOREM StatusIsTrue == Spec => []StatusIsReal
<1>1. HttpInv => StatusIsReal
  BY DEF HttpInv
<1> QED
  BY <1>1, HttpInvariant, PTL

(* A status is read at the end of what the server sent, and the end mark
   behind it stays inside the buffer unless the answer fills it. *)
THEOREM EndMarkStaysInside == Spec => []EndMarkHasRoom
<1>1. HttpInv => EndMarkHasRoom
  <2>1. SUFFICES ASSUME HttpInv, pc = "idle", http_status # 0
                 PROVE  /\ received = sent \/ received = Size \/ conn = "reset"
                        /\ received >= Size =>
                             \A a \in answer : a.length >= Size
    BY DEF EndMarkHasRoom
  <2>2. received = sent \/ received = Size \/ conn = "reset"
    BY <2>1 DEF HttpInv, Whole
  <2>3. ASSUME received >= Size, NEW a \in answer
        PROVE  a.length >= Size
    <3>1. received <= sent /\ sent <= a.length
      BY <2>1, <2>3 DEF HttpInv, BufferIsPrefix
    <3>2. /\ received \in Nat /\ sent \in Nat /\ a.length \in Nat
          /\ Size \in Nat
      BY <2>1, <2>3, HttpConstantsOK
      DEF HttpInv, TypeOK, received, HttpConstantsOK
    <3> QED
      BY <2>3, <3>1, <3>2
  <2> QED
    BY <2>2, <2>3
<1> QED
  BY <1>1, HttpInvariant, PTL

(* A request that was written leaves no descriptor open behind it. *)
THEOREM AskedCallsCostNothing == Spec => []AskedCallsClose
<1>1. HttpInv => AskedCallsClose
  BY DEF HttpInv
<1> QED
  BY <1>1, HttpInvariant, PTL

-----------------------------------------------------------------------------
(* The refinement of RemoteCall.  The caller's view of a state: *)

Code(S) == { a.code : a \in S }
Status  == IF pc # "idle" \/ calls = 0 THEN "none"
           ELSE IF http_status # 0 THEN "decided"
           ELSE IF result = "null" THEN "not sent" ELSE "unknown"
Told    == IF pc = "idle" /\ http_status # 0 THEN {http_status} ELSE {}

LEMMA PromiseBegins ==
  ASSUME HttpInv, HttpReq
  PROVE  Promise!Begin \/ Promise!Stillborn
<1>1. /\ pc = "idle" /\ calls' = calls + 1 /\ http_status' = 0
      /\ answer' = {} /\ calls \in Nat
  BY HttpConstantsOK DEF HttpReq, Begin, CallersZero, HttpInv, TypeOK
<1>2. \/ pc' = "idle" /\ result' = "null"
      \/ pc' # "idle"
  BY DEF HttpReq, NoSocket, HostNotFound, ConnectedAtOnce,
         ConnectionInProgress
<1>3. Code(answer)' = {}
  BY <1>1 DEF Code
<1>4. CASE pc' = "idle" /\ result' = "null"
  <2>1. Status' = "not sent" /\ Told' = {}
    BY <1>1, <1>4 DEF Status, Told
  <2>2. Promise!Stillborn
    BY <1>1, <1>3, <1>4, <2>1 DEF Promise!Stillborn, Status, Told, Code
  <2> QED
    BY <2>2
<1>5. CASE pc' # "idle"
  <2>1. Status' = "none" /\ Told' = {}
    BY <1>5 DEF Status, Told
  <2>2. Promise!Begin
    BY <1>1, <1>3, <1>5, <2>1 DEF Promise!Begin, Status, Told, Code
  <2> QED
    BY <2>2
<1> QED
  BY <1>2, <1>4, <1>5

LEMMA PromiseFinishes ==
  ASSUME HttpInv, HttpInv', pc # "idle", pc' = "idle",
         UNCHANGED << answer, calls, written >>,
         \/ result' = "null" /\ UNCHANGED http_status
         \/ result' = "buffer"
  PROVE  Promise!Finish
<1>1. calls # 0
  BY HttpConstantsOK DEF HttpConstantsOK, HttpInv, CallsCounted, Busy, TypeOK
<1>2. Code(answer)' = Code(answer)
  BY DEF Code
<1>3. CASE http_status' # 0
  <2>1. \E a \in answer : a.code = http_status'
    BY <1>3 DEF HttpInv, StatusIsReal
  <2>2. http_status' \in Code(answer)
    BY <2>1 DEF Code
  <2>3. Status' = "decided" /\ Told' = {http_status'}
    BY <1>1, <1>3 DEF Status, Told
  <2> QED
    BY <1>2, <2>2, <2>3 DEF Promise!Finish, Status, Told, Code
<1>4. CASE http_status' = 0 /\ result' = "null"
  <2>1. answer = {}
    BY <1>4 DEF HttpInv, Phase, Answered
  <2>2. Code(answer) = {}
    BY <2>1 DEF Code
  <2>3. Status' = "not sent" /\ Told' = {}
    BY <1>1, <1>4 DEF Status, Told
  <2> QED
    BY <1>2, <2>2, <2>3 DEF Promise!Finish, Status, Told, Code
<1>5. CASE http_status' = 0 /\ result' = "buffer"
  <2>1. Status' = "unknown" /\ Told' = {}
    BY <1>1, <1>5 DEF Status, Told
  <2> QED
    BY <1>2, <2>1 DEF Promise!Finish, Status, Told, Code
<1> QED
  BY <1>3, <1>4, <1>5

(* The steps between begin and return, and those of the server that decide
   nothing, are invisible to the caller. *)
LEMMA PromiseStutters ==
  ASSUME UNCHANGED << answer, calls >>,
         \/ pc # "idle" /\ pc' # "idle"
         \/ UNCHANGED << pc, http_status, result >>
  PROVE  UNCHANGED Promise!vars
<1>1. (pc # "idle")' = (pc # "idle")
  OBVIOUS
<1>2. Code(answer)' = Code(answer)
  BY DEF Code
<1>3. Status' = Status /\ Told' = Told
  BY DEF Status, Told
<1> QED
  BY <1>1, <1>2, <1>3 DEF Promise!vars, Status, Told, Code

LEMMA PromiseDecides ==
  ASSUME HttpInv, ServerDecides
  PROVE  Promise!Decide
<1>1. /\ written = 1 /\ answer = {}
      /\ UNCHANGED << pc, http_status, result, calls >>
  BY DEF ServerDecides, client
<1>2. PICK a \in Answer : answer' = {a}
  BY DEF ServerDecides
<1>3. Status # "not sent"
  BY <1>1 DEF Status, HttpInv, Phase
<1>4. Status' = Status /\ Told' = Told /\ (pc # "idle")' = (pc # "idle")
  BY <1>1 DEF Status, Told
<1>5. Code(answer) = {} /\ Code(answer)' \subseteq Code(Answer)
  BY <1>1, <1>2 DEF Code
<1> QED
  BY <1>3, <1>4, <1>5 DEF Promise!Decide, Status, Told, Code

LEMMA PromiseStep ==
  ASSUME HttpInv, [Next]_vars
  PROVE  [Promise!Next]_(Promise!vars)
<1> USE DEF Promise!Next
<1>0. HttpInv'
  BY HttpStep
<1>1. CASE HttpReq
  BY <1>1, PromiseBegins
<1>2. CASE ConnectTimeout \/ ConnectInterrupted \/ WriteFails
  <2>1. /\ pc # "idle" /\ pc' = "idle" /\ result' = "null"
        /\ UNCHANGED << answer, calls, written, http_status >>
    BY <1>2 DEF ConnectTimeout, ConnectInterrupted, WriteFails, ReturnNull,
                server
  <2> QED
    BY <1>0, <2>1, PromiseFinishes
<1>3. CASE RecvEnd \/ SelectTimeout \/ SelectInterrupted
  <2>1. /\ pc # "idle" /\ pc' = "idle" /\ result' = "buffer"
        /\ UNCHANGED << answer, calls, written >>
    BY <1>3 DEF RecvEnd, SelectTimeout, SelectInterrupted, GiveUp,
                ReturnBuffer, server
  <2> QED
    BY <1>0, <2>1, PromiseFinishes
<1>4. CASE SelectWritable \/ WriteKills \/ WriteRequest \/ RecvData
  <2>1. /\ pc # "idle" /\ pc' # "idle"
        /\ UNCHANGED << answer, calls >>
    BY <1>4 DEF SelectWritable, WriteKills, WriteRequest, RecvData, server
  <2> QED
    BY <2>1, PromiseStutters
<1>5. CASE Server
  <2>1. CASE ServerDecides
    BY <2>1, PromiseDecides
  <2>2. CASE Handshake \/ ServerSends \/ ServerCloses \/ ConnectionBreaks
    <3>1. UNCHANGED << answer, calls, pc, http_status, result >>
      BY <2>2 DEF Handshake, ServerSends, ServerCloses, ConnectionBreaks,
                  client
    <3> QED
      BY <3>1, PromiseStutters
  <2> QED
    BY <1>5, <2>1, <2>2 DEF Server
<1>6. CASE UNCHANGED vars
  <2>1. UNCHANGED << answer, calls, pc, http_status, result >>
    BY <1>6 DEF vars, client, server
  <2> QED
    BY <2>1, PromiseStutters
<1> QED
  BY <1>1, <1>2, <1>3, <1>4, <1>5, <1>6 DEF Next, Step, Signal

(* The HTTP client implements the abstract call of RemoteCall. *)
THEOREM HttpKeepsPromise == Spec => ImplementsPromise
<1>1. Init => Promise!Init
  <2>1. ASSUME Init PROVE Promise!Init
    <3>1. /\ Status = "none" /\ Told = {} /\ ~(pc # "idle")
          /\ Code(answer) = {}
      BY <2>1 DEF Init, Status, Told, Code
    <3> QED
      BY <3>1 DEF Promise!Init, Status, Told, Code
  <2> QED
    BY <2>1
<1>2. HttpInv /\ [Next]_vars => [Promise!Next]_(Promise!vars)
  BY PromiseStep
<1> QED
  BY <1>1, <1>2, HttpInvariant, PTL DEF Spec, ImplementsPromise, Promise!Spec
=============================================================================
