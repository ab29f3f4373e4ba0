------------------------------- MODULE HttpReq -------------------------------
(***************************************************************************)
(* The HTTP client of libpmap (src/http.c): pmap_http_req, with the        *)
(* pmap_http_connect it begins with, called one after another by           *)
(* pmap_http_get and pmap_http_post, against a server that may refuse,     *)
(* stall, answer in pieces, break off or keep the connection open.         *)
(*                                                                         *)
(* Abstractions.  TCP delivers bytes in order, so a received text is a     *)
(* prefix of the server's answer and is its length.  An answer is the      *)
(* status code it carries (0 when it has none that atoi reads), the length *)
(* "line" up to the second space, and its full length.  A write of one     *)
(* request to a fresh socket is accepted whole or fails, as 4096 bytes fit *)
(* every send buffer.  "open" counts the descriptors of the process.       *)
(***************************************************************************)
EXTENDS Integers, FiniteSets

CONSTANTS
  Size,        \* PBUFFER_DEFLEN: bytes of the receive buffer
  Answer,      \* the answers servers may give (code, line, length)
  FdLimit,     \* descriptors the process may have open
  MaxCalls     \* bound: calls in one behaviour

ASSUME HttpConstantsOK ==
  /\ Size \in Nat \ {0}
  /\ Answer \subseteq [code : Nat, line : Nat \ {0}, length : Nat \ {0}]
  /\ FdLimit \in Nat
  /\ MaxCalls \in Nat

RoomAsked(m, n) == n               \* mutant: counts the room, not the bytes
Lesser(m, n) == IF m <= n THEN m ELSE n

-----------------------------------------------------------------------------
VARIABLES
  (* the client *)
  pc,           \* "idle", "connecting", "connected", "receiving", or
                \* "killed" by a signal
  totall_bytes_received,
  remain_buffer_len,
  http_status,  \* the caller's variable
  result,       \* "none" before the call returns, then "null" or "buffer"
  open,
  (* the network and the server *)
  conn,         \* the connection of the latest call, as its two ends see it
  written,      \* whether the request was handed to the network
  answer,       \* what the server decided to answer: at most one
  sent,         \* bytes of it that have reached the client's host
  (* history *)
  calls,        \* calls made
  unasked       \* calls that returned NULL

client == << pc, totall_bytes_received, remain_buffer_len, http_status,
             result, open >>
server == << conn, written, answer, sent >>
vars   == << client, server, calls, unasked >>

Conn == { "none",         \* no attempt yet
          "pending",      \* the handshake is under way
          "unconnected",  \* connect() failed at once: there is no handshake
          "refused",      \* the handshake failed
          "established",
          "closed",       \* the server sends no more
          "reset" }       \* broken off, what was not yet read may be lost

received == totall_bytes_received

Init ==
  /\ pc = "idle" /\ totall_bytes_received = 0 /\ remain_buffer_len = Size
  /\ http_status = 0 /\ result = "none" /\ open = 0
  /\ conn = "none" /\ written = 0 /\ answer = {} /\ sent = 0
  /\ calls = 0 /\ unasked = 0

-----------------------------------------------------------------------------
(* pmap_http_connect, called first thing by pmap_http_req. *)

ReturnNull ==
  /\ pc' = "idle"
  /\ result' = "null"
  /\ unasked' = unasked + 1
  /\ UNCHANGED << totall_bytes_received, remain_buffer_len, http_status >>

HaveSocketOffByOne == open <= FdLimit      \* mutant: a failed socket() used
HaveSocket == open < FdLimit

CallersVariable == http_status  \* mutant: a caller that does not clear it
CallersZero == 0                \* every caller clears the variable it passes

(* A new call; the server's answer to an earlier one no longer matters. *)
Begin ==
  /\ pc = "idle"
  /\ calls < MaxCalls
  /\ calls' = calls + 1
  /\ http_status' = CallersZero
  /\ totall_bytes_received' = 0
  /\ remain_buffer_len' = Size
  /\ written' = 0 /\ answer' = {} /\ sent' = 0

NoSocket ==
  /\ ~HaveSocket
  /\ pc' = "idle" /\ result' = "null" /\ unasked' = unasked + 1
  /\ conn' = "none"
  /\ UNCHANGED open

(* gethostbyname() knows no such host; the socket stays open. *)
HostNotFound ==
  /\ HaveSocket
  /\ open' = open + 1
  /\ pc' = "idle" /\ result' = "null" /\ unasked' = unasked + 1
  /\ conn' = "none"

(* connect() returned 0. *)
ConnectedAtOnce ==
  /\ HaveSocket
  /\ open' = open + 1
  /\ pc' = "connected" /\ result' = "none"
  /\ conn' = "established"
  /\ UNCHANGED unasked

(* connect() returned -1: EINPROGRESS, or any other error, all of which the
   code takes for a connection in progress. *)
ConnectionInProgress ==
  /\ HaveSocket
  /\ open' = open + 1
  /\ pc' = "connecting" /\ result' = "none"
  /\ conn' \in {"pending", "unconnected"}
  /\ UNCHANGED unasked

HttpReq ==
  /\ Begin
  /\ \/ NoSocket
     \/ HostNotFound
     \/ ConnectedAtOnce
     \/ ConnectionInProgress

(* select() says the socket is writable once the handshake is over, however
   it ended, and for a socket that is not connected at all. *)
Writable == conn # "pending"

SelectWritable ==
  /\ pc = "connecting"
  /\ Writable
  /\ pc' = "connected"
  /\ UNCHANGED << totall_bytes_received, remain_buffer_len, http_status,
                  result, open, server, calls, unasked >>

ConnectTimeout ==
  /\ pc = "connecting"
  /\ ~Writable
  /\ ReturnNull
  /\ open' = open - 1
  /\ UNCHANGED << server, calls >>

(* A signal interrupts select(); the socket stays open. *)
ConnectInterrupted ==
  /\ pc = "connecting"
  /\ ReturnNull
  /\ UNCHANGED << open, server, calls >>

-----------------------------------------------------------------------------
(* The rest of pmap_http_req. *)

WriteRequest ==
  /\ pc = "connected"
  /\ conn \in {"established", "closed"}
  /\ written' = 1
  /\ pc' = "receiving"
  /\ totall_bytes_received' = 0
  /\ remain_buffer_len' = Size
  /\ http_status' = 0
  /\ UNCHANGED << result, open, conn, answer, sent, calls, unasked >>

(* write() reports the error that ended the connection; the socket stays
   open. *)
WriteFails ==
  /\ pc = "connected"
  /\ conn \in {"refused", "reset"}
  /\ ReturnNull
  /\ UNCHANGED << open, server, calls >>

(* write() to a socket that was never connected raises SIGPIPE, which the
   program does not handle. *)
WriteKills ==
  /\ pc = "connected"
  /\ conn = "unconnected"
  /\ pc' = "killed"
  /\ UNCHANGED << totall_bytes_received, remain_buffer_len, http_status,
                  result, open, server, calls, unasked >>

Readable == sent > received \/ conn # "established"

CloseForgotten == UNCHANGED open  \* mutant: the socket is not closed
CloseSocket == open' = open - 1

(* The loop is left: the socket is closed and the buffer returned. *)
ReturnBuffer ==
  /\ pc' = "idle"
  /\ result' = "buffer"
  /\ CloseSocket
  /\ UNCHANGED << totall_bytes_received, remain_buffer_len, server, calls,
                  unasked >>

KeepRemaining(n) == remain_buffer_len  \* mutant: the room does not shrink
Remaining(n) == remain_buffer_len - n

RecvData ==
  /\ pc = "receiving"
  /\ sent > received
  /\ remain_buffer_len > 0
  /\ LET n == Lesser(sent - received, remain_buffer_len)
     IN  /\ totall_bytes_received' = received + n
         /\ remain_buffer_len' = Remaining(n)
  /\ UNCHANGED << pc, http_status, result, open, server, calls, unasked >>

StatusAnywhere(n) ==        \* mutant: reads on behind what was received
  IF \E a \in answer : TRUE THEN (CHOOSE a \in answer : TRUE).code ELSE 0
(* What pmap_ut_substr(" ", " ") and atoi make of the first n bytes. *)
StatusIn(n) ==
  IF \E a \in answer : n >= a.line THEN (CHOOSE a \in answer : TRUE).code
                                   ELSE 0

(* recv() returns 0 or -1: the server closed, the connection broke, or the
   buffer has no room left. *)
RecvEnd ==
  /\ pc = "receiving"
  /\ \/ conn = "reset"
     \/ conn = "closed" /\ sent = received
     \/ Readable /\ remain_buffer_len = 0
  /\ http_status' = StatusIn(received)
  /\ ReturnBuffer

WaitOn ==                   \* mutant: "continue" instead of "break"
  UNCHANGED vars
GiveUp ==
  /\ ReturnBuffer
  /\ UNCHANGED http_status

(* 2.1 s without a byte. *)
SelectTimeout ==
  /\ pc = "receiving"
  /\ ~Readable
  /\ GiveUp

SelectInterrupted ==
  /\ pc = "receiving"
  /\ ReturnBuffer
  /\ UNCHANGED http_status

Step ==
  \/ SelectWritable \/ ConnectTimeout
  \/ WriteRequest \/ WriteFails \/ WriteKills
  \/ RecvData \/ RecvEnd \/ SelectTimeout

Signal == ConnectInterrupted \/ SelectInterrupted

-----------------------------------------------------------------------------
(* The server and the network (external). *)

Handshake ==
  /\ conn = "pending"
  /\ conn' \in {"established", "refused"}
  /\ UNCHANGED << client, written, answer, sent, calls, unasked >>

(* The request arrives and is acted upon, perhaps after the client left. *)
ServerDecides ==
  /\ written = 1
  /\ conn = "established"
  /\ answer = {}
  /\ \E a \in Answer : answer' = {a}
  /\ UNCHANGED << client, conn, written, sent, calls, unasked >>

ServerSends ==
  /\ conn = "established"
  /\ \E a \in answer : sent' \in (sent + 1) .. a.length
  /\ UNCHANGED << client, conn, written, answer, calls, unasked >>

ServerCloses ==
  /\ conn = "established"
  /\ conn' = "closed"
  /\ UNCHANGED << client, written, answer, sent, calls, unasked >>

ConnectionBreaks ==
  /\ conn \in {"established", "closed"}
  /\ conn' = "reset"
  /\ UNCHANGED << client, written, answer, sent, calls, unasked >>

Server == Handshake \/ ServerDecides \/ ServerSends \/ ServerCloses
          \/ ConnectionBreaks

Next == HttpReq \/ Step \/ Signal \/ Server

Spec == Init /\ [][Next]_vars

(* select() returns within its timeout, so a call that can go on goes on; a
   signal need never come. *)
FairSpec == Spec /\ WF_vars(Step)

-----------------------------------------------------------------------------
(* Properties. *)

(* Every variable has its type; the byte counts stay within the buffer and
   the open descriptors within the limit. *)
TypeOK ==
  /\ pc \in {"idle", "connecting", "connected", "receiving", "killed"}
  /\ totall_bytes_received \in 0 .. Size
  /\ remain_buffer_len \in 0 .. Size
  /\ http_status \in Nat
  /\ result \in {"none", "null", "buffer"}
  /\ open \in 0 .. FdLimit
  /\ conn \in Conn
  /\ written \in 0 .. 1
  /\ answer \in SUBSET Answer
  /\ sent \in Nat
  /\ calls \in 0 .. MaxCalls
  /\ unasked \in 0 .. MaxCalls

(* However the answer is cut into pieces (http.c:226-273), the room left is
   what the text received does not fill, and no byte of the text is one the
   server did not send. *)
BufferIsPrefix ==
  /\ received + remain_buffer_len = Size
  /\ received <= sent
  /\ \A a \in answer : sent <= a.length

(* A status that callers act upon (they compare it with 200, pmap_upnp.c:314,
   358, 401, 456) is the one the server gave to this very request, its status
   line arrived whole, and recv had reported an end (http.c:249-258). *)
StatusIsReal ==
  pc # "receiving" /\ http_status # 0 =>
    /\ result = "buffer"
    /\ \E a \in answer : a.code = http_status /\ received >= a.line
    /\ conn # "established" \/ received = Size

(* When a status was read the buffer holds everything the server has sent, or
   it is full, or the connection broke; and the end mark written behind it
   (http.c:252) has its place except after an answer as long as the buffer. *)
EndMarkHasRoom ==
  pc = "idle" /\ http_status # 0 =>
    /\ received = sent \/ received = Size \/ conn = "reset"
    /\ received >= Size => \A a \in answer : a.length >= Size

(* A server that got the request costs the process no descriptor, whatever
   it does next; each call that returned NULL cost at most one (http.c:117,
   157, 211 leave the socket open, http.c:150, 155, 279 close it). *)
AskedCallsClose ==
  open <= unasked + (IF pc = "idle" THEN 0 ELSE 1)

(* The exchange as its caller sees it: the callers look at the status only. *)
Promise == INSTANCE RemoteCall WITH
  Decision <- { a.code : a \in Answer },
  busy     <- pc # "idle",
  decided  <- { a.code : a \in answer },
  status   <- IF pc # "idle" \/ calls = 0 THEN "none"
              ELSE IF http_status # 0 THEN "decided"
              ELSE IF result = "null" THEN "not sent" ELSE "unknown",
  told     <- IF pc = "idle" /\ http_status # 0 THEN {http_status} ELSE {}

(* The client implements the abstract call: it asks once, a call that returns
   NULL was not and will not be heard by the server, and a status is what the
   server decided for this call. *)
ImplementsPromise == Promise!Spec

(* Every call comes back, whatever the server does or fails to do, except
   when the program is killed; each select has a timeout (http.c:137,
   228-230) and each piece received shrinks the room. *)
CallEnds == pc # "idle" ~> pc \in {"idle", "killed"}

-----------------------------------------------------------------------------
(* What the documentation says and the code does not do. *)

(* http.c:94-95 of pmap_http_connect: "The socket file descriptor if the
   connection is established, or -1 on error or timeout". *)
ConnectedIsEstablished ==
  pc = "connected" => conn \in {"established", "closed", "reset"}

(* http.c:176-177 of pmap_http_req: "the HTTP status code (if available) is
   returned through the http_status pointer". *)
AvailableStatusIsReturned ==
  pc = "idle" /\ result = "buffer" =>
    \A a \in answer : received = a.length /\ received >= a.line
                        => http_status = a.code
=============================================================================
