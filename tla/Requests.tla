------------------------------ MODULE Requests ------------------------------
(***************************************************************************)
(* How libpmap composes its HTTP requests in buffers of a fixed size:      *)
(* src/buffer.c, pmap_http_create, pmap_http_get and pmap_http_post of     *)
(* src/http.c, and the SOAP bodies of src/upnp_msg.h as pmap_upnp_action   *)
(* fills them.  A GET follows the URL of a LOCATION, taken apart as in     *)
(* Strings; the control URL of a POST is any text its buffer holds.        *)
(*                                                                         *)
(* What one pbfr_add writes is a piece: its length, and as "says" the      *)
(* values it is filled with that a property is about.  HttpReq and Upnp    *)
(* say when requests are sent.  calloc succeeds.                           *)
(***************************************************************************)
EXTENDS Strings, FiniteSets

CONSTANTS
  Location,     \* URLs of device descriptions
  ControlUrl,   \* control URLs, and the empty text
  IntLength,    \* lengths of a caller's int printed with %d
  ProtoLength,  \* lengths of the text in pfield->protocol
  Address       \* IPv4 addresses, their bytes in the order they are printed

LocationSize == 128      \* buffers of the LOCATION and of the control URL
ProtocolSize == 4        \* of pmap_field_t.protocol

NullText == << "(", "n", "u", "l", "l", ")" >>

(* An int has at most a sign and ten digits. *)
ASSUME RequestConstantsOK ==
  /\ \A text \in Location \cup ControlUrl :
       text \in Text /\ Len(text) < LocationSize
  /\ IntLength \subseteq 1 .. 11
  /\ ProtoLength \subseteq 0 .. ProtocolSize - 1
  /\ NullText \in Text
  /\ Address \subseteq [1 .. 4 -> 0 .. 255]

-----------------------------------------------------------------------------
(* pbuffer_t.  Its text is the pieces written, each at its place; "lost"
   counts those that did not fit. *)

PBUFFER_DEFLEN == 4096
HalfBody       == 512       \* mutant: a buffer too small for the body
BodySize       == 1024

Piece(is, len, says) == [is |-> is, len |-> len, says |-> says]

At(place, p) ==
  [is |-> p.is, len |-> p.len, says |-> p.says, at |-> place]

pbfr_create(size) ==
  [size |-> size, offset |-> 0, text |-> << >>, lost |-> 0]

(* vsnprintf needs a byte more for the end mark, and returns the length the
   text has whether or not it fits. *)
pbfr_add(pbfr, piece) ==
  [size   |-> pbfr.size,
   offset |-> pbfr.offset + piece.len,
   text   |-> Append(pbfr.text, At(pbfr.offset, piece)),
   lost   |-> pbfr.lost +
              IF pbfr.offset + piece.len < pbfr.size THEN 0 ELSE 1]

Copied(pbfr, src) ==
  [k \in DOMAIN src.text |-> At(pbfr.offset + src.text[k].at, src.text[k])]

AppendInPlace(pbfr, src) ==        \* mutant: the offset is not moved
  [size |-> pbfr.size, offset |-> pbfr.offset,
   text |-> pbfr.text \o Copied(pbfr, src), lost |-> pbfr.lost]

pbfr_append(pbfr, src) ==
  [size   |-> pbfr.size,
   offset |-> pbfr.offset + src.offset,
   text   |-> pbfr.text \o Copied(pbfr, src),
   lost   |-> pbfr.lost + src.lost +
              IF pbfr.offset + src.offset <= pbfr.size THEN 0 ELSE 1]

-----------------------------------------------------------------------------
(* src/http.c *)

(* What %d and %s print; glibc prints a NULL text too. *)
DecimalLength(n) == 1 + Cardinality({ k \in 1 .. 9 : 10 ^ k <= n })
Printed(text) == IF text = NULL THEN NullText ELSE text

AlwaysSlash(path) == << "/" >> \o Printed(path)      \* mutant: a second slash
Target(path) ==
  IF path # NULL /\ IsPrefix(<< "/" >>, path) THEN path
  ELSE << "/" >> \o Printed(path)

(* "%s %s HTTP/1.1\r\n" or "%s /%s HTTP/1.1\r\n" *)
RequestLine(method, path) ==
  Piece("request line", 12 + method + Len(Target(path)), Target(path))

DefaultHostLine(host, port) ==     \* mutant: the default port
  Piece("host", 9 + Len(host) + DecimalLength(port), << host, 80 >>)

(* "Host: %s:%d\r\n" *)
HostLine(host, port) ==
  Piece("host", 9 + Len(host) + DecimalLength(port), << host, port >>)

pmap_http_create(method, host, port, path) ==
  pbfr_add(pbfr_add(pbfr_create(PBUFFER_DEFLEN), RequestLine(method, path)),
           HostLine(host, port))

BlankLine == Piece("blank line", 2, << >>)

pmap_http_get(host, port, path) ==
  pbfr_add(pmap_http_create(3, host, port, path), BlankLine)

pmap_http_post(host, port, path, header, body) ==
  LET created == pmap_http_create(4, host, port, path)
      headed  == pbfr_add(created, Piece("header", header, << >>))
      typed   == pbfr_add(headed, Piece("content type", 41, << >>))
      length  == Piece("content length", 18 + DecimalLength(body.offset),
                       body.offset)
      headEnd == pbfr_add(pbfr_add(typed, length), BlankLine)
  IN  pbfr_append(headEnd, body)

-----------------------------------------------------------------------------
(* src/upnp_msg.h: the fixed text of each body, and of its SOAPAction header *)

Action == {"add", "del", "exip"}

HeaderLength(action) ==
  CASE action = "add" -> 77 [] action = "del" -> 80 [] action = "exip" -> 83

BodyText(action) ==
  CASE action = "add" -> 674 [] action = "del" -> 441 [] action = "exip" -> 330

(* "%u.%u.%u.%u" *)
NtoaLength(bytes) ==
  3 + DecimalLength(bytes[1]) + DecimalLength(bytes[2])
    + DecimalLength(bytes[3]) + DecimalLength(bytes[4])

(* The lengths of what a body's format is filled with: the external port and
   the protocol, the internal port, its address and the lifetime. *)
BodyFields(action) ==
  CASE action = "add"  -> { e + p + i + NtoaLength(a) + l :
                              e \in IntLength, p \in ProtoLength,
                              i \in IntLength, a \in Address,
                              l \in IntLength }
    [] action = "del"  -> { e + p : e \in IntLength, p \in ProtoLength }
    [] action = "exip" -> {0}

-----------------------------------------------------------------------------
(* pmap_req_ctrlurl asks for the description of an endpoint; without a host
   it asks gethostbyname for NULL, which C does not define. *)
Get ==
  /\ call = NoCall
  /\ \E libc \in Libc, url \in Location :
       LET parsed == pmap_ut_parse_url(libc, url)
       IN  /\ parsed.host # NULL
           /\ call' = [fn |-> "get", arg |-> url, endpoint |-> parsed,
                       path |-> parsed.path,
                       request |-> pmap_http_get(parsed.host, parsed.port,
                                                 parsed.path)]

(* The rest of pmap_upnp_action, at the control URL the description names. *)
Post(action) ==
  /\ call.fn = "get"
  /\ \E ctrl_url \in ControlUrl, fields \in BodyFields(action) :
       LET body == pbfr_add(pbfr_create(BodySize),
                            Piece(action, BodyText(action) + fields, << >>))
       IN  call' = [fn |-> "post", body |-> body, path |-> ctrl_url,
                    request |-> pmap_http_post(
                                  call.endpoint.host, call.endpoint.port,
                                  ctrl_url, HeaderLength(action), body)]

Next ==
  \/ Substr \/ ParseUrl
  \/ Get \/ \E action \in Action : Post(action)
  \/ Return

Spec == Init /\ [][Next]_call

-----------------------------------------------------------------------------
(* Properties *)

Requested == call.fn \in {"get", "post"}

End(pbfr, k) == IF k = 0 THEN 0 ELSE pbfr.text[k].at + pbfr.text[k].len

Stacked(pbfr) ==
  /\ \A k \in 1 .. Len(pbfr.text) : pbfr.text[k].at = End(pbfr, k - 1)
  /\ pbfr.offset = End(pbfr, Len(pbfr.text))

(* Type invariant: what is written to a caller's buffer fits with its end
   mark; a URL's port is a number; a buffer keeps its size, and the pieces in
   it stand one behind the other up to its offset. *)
TypeOK ==
  /\ Substrings =>
       /\ call.result.ret \in -1 .. 2
       /\ call.result.ret = 0 <=> call.result.buffer # NULL
       /\ call.result.ret = 0 => Len(call.result.buffer) < call.len
  /\ Parsed => call.result.port \in Nat \/ call.result = UndefinedUrl
  /\ Requested =>
       call.request.size = PBUFFER_DEFLEN /\ Stacked(call.request)

(* Every request and every body fits the buffer it is composed in, for the
   longest names, numbers and control URLs the library's own buffers hold:
   nothing is cut, and the end mark has its place. *)
NothingIsCut ==
  /\ Requested =>
       call.request.lost = 0 /\ call.request.offset < PBUFFER_DEFLEN
  /\ call.fn = "post" => call.body.lost = 0 /\ call.body.offset < BodySize

(* A length is announced only by a POST, just before the blank line, and the
   body after it has that length and ends what is written to the socket. *)
BodyIsAnnounced ==
  Requested =>
    LET text == call.request.text
    IN  \A k \in DOMAIN text : text[k].is = "content length" =>
          /\ call.fn = "post" /\ k + 2 = Len(text)
          /\ text[k + 1].is = "blank line"
          /\ text[k + 1].at = text[k].at + text[k].len
          /\ text[k + 2].is \in Action
          /\ text[k + 2].at = text[k + 1].at + text[k + 1].len
          /\ text[k + 2].len = text[k].says
          /\ call.request.offset = text[k + 2].at + text[k + 2].len

(* The target of every request begins with a slash, and with one only unless
   the path asked for has two: the parser of URLs takes the first slash away,
   a control URL has it or not. *)
TargetHasOneSlash ==
  Requested =>
    LET target == call.request.text[1].says
    IN  /\ IsPrefix(<< "/" >>, target)
        /\ IsPrefix(<< "/", "/" >>, target) =>
             IsPrefix(<< "/", "/" >>, call.path)

(* A GET that follows scheme://host:port/path asks for /path, and its Host
   line names the host and the port (http.h; util.c:151), whatever the parser
   and the composer each do with the slash and whatever colons the path has. *)
GetNamesUrl ==
  call.fn = "get" =>
    \A scheme \in Scheme, host \in Host, port \in PortText, path \in Path :
      call.arg = Url(scheme, host, port, path) /\ ~IsPrefix(<< "/" >>, path)
        => /\ call.request.text[1].says = << "/" >> \o path
           /\ call.request.text[2].says = << host, atoi(port) >>
=============================================================================
