------------------------------ MODULE Strings -------------------------------
(***************************************************************************)
(* The functions that take texts apart: pmap_ut_substr of src/util.c, which *)
(* cuts what stands between two marks, and pmap_ut_parse_url.  One call at *)
(* a time, for every input given; Requests adds the texts composed of them *)
(* and the specification.                                                  *)
(*                                                                         *)
(* A text is a sequence of characters, a char * into it a position, and a  *)
(* NULL text the model value NULL.  strstr, strtok_r and atoi are the C    *)
(* library's; libraries differ in what strtok_r leaves behind its last     *)
(* token.  strdup and calloc succeed.                                      *)
(***************************************************************************)
EXTENDS Null, Integers, SequencesExt

CONSTANTS
  Char,       \* the characters texts are made of
  Libc,       \* C libraries: after the last token strtok_r of "glibc" leaves
              \* the empty text at its end, of "bsd" (macOS, musl) NULL
  UrlText,    \* the texts parsed as URLs
  Scheme, Host, PortText, Path,    \* what well-formed URLs are composed of
  Snippet,    \* the texts searched, with their marks: [text, start, end]
  Room        \* sizes of the callers' buffers

Text == Seq(Char)
Mark == Text \ {<< >>}
Has(text, char) == \E i \in DOMAIN text : text[i] = char

(* No part of a URL but its path has a colon or a slash.  The marks are not
   empty; those of XML elements begin with "<" and have no other. *)
ASSUME StringConstantsOK ==
  /\ {":", "/"} \subseteq Char /\ NULL \notin Text
  /\ Libc \subseteq {"glibc", "bsd"}
  /\ Room \subseteq Nat
  /\ UrlText \subseteq Text
  /\ \A part \in Scheme \cup Host \cup PortText :
       part \in Mark /\ ~Has(part, ":") /\ ~Has(part, "/")
  /\ Path \subseteq Text
  /\ Snippet \subseteq [text : Text, start : Mark, end : Mark]
  /\ \A s \in Snippet :
       s.end[1] = "<" => \A k \in 2 .. Len(s.start) : s.start[k] # "<"

-----------------------------------------------------------------------------
(* The C library *)

Space == {" ", "CR", "LF"}

FirstOr(places, none) == IF places = {} THEN none ELSE Min(places)

(* The positions from "from" on where the mark stands. *)
Found(text, mark, from) ==
  { i \in from .. Len(text) :
      /\ i + Len(mark) - 1 <= Len(text)
      /\ SubSeq(text, i, i + Len(mark) - 1) = mark }

LastOf(text, mark, from) ==        \* mutant: strrstr
  LET places == Found(text, mark, from)
  IN  IF places = {} THEN 0 ELSE Max(places)

(* The first of them, 0 if there is none. *)
strstr(text, mark, from) == FirstOr(Found(text, mark, from), 0)

(* The next token of a text and what is left to search after it. *)
strtok_r(libc, text, delim) ==
  LET first == FirstOr({ i \in 1 .. Len(text) : text[i] # delim }, Len(text) + 1)
      last  == FirstOr({ i \in first .. Len(text) : text[i] = delim },
                       Len(text) + 1)
      used  == IF libc = "bsd" THEN NULL ELSE << >>
  IN  [token |-> IF first > Len(text) THEN NULL
                 ELSE SubSeq(text, first, last - 1),
       rest  |-> IF last > Len(text) THEN used
                 ELSE SubSeq(text, last + 1, Len(text))]

Digit == [c \in {"0", "7"} |-> IF c = "0" THEN 0 ELSE 7]

(* The number the digits at the beginning stand for. *)
atoi(text) ==
  LET end == FirstOr({ i \in 1 .. Len(text) : text[i] \notin DOMAIN Digit },
                     Len(text) + 1)
      value[n \in 0 .. end - 1] ==
        IF n = 0 THEN 0 ELSE 10 * value[n - 1] + Digit[text[n]]
  IN  value[end - 1]

-----------------------------------------------------------------------------
(* pmap_ut_substr *)

Undefined == [ret |-> -1, buffer |-> NULL]   \* what C does not define
Failed(ret) == [ret |-> ret, buffer |-> NULL]

LtrimOneMore(text, from) ==        \* mutant: a do loop
  FirstOr({ i \in from + 1 .. Len(text) : text[i] \notin Space }, Len(text) + 1)

pmap_ut_ltrim(text, from) ==
  FirstOr({ i \in from .. Len(text) : text[i] \notin Space }, Len(text) + 1)

FitsExactly(clen, len) == clen <= len      \* mutant: no byte for the end mark
Fits(clen, len) == clen < len

FromTheTop(snippet, start) ==      \* mutant: any end mark ends the text
  strstr(snippet.text, snippet.end, 1)
EndMark(snippet, start) == strstr(snippet.text, snippet.end, start + 1)

(* The length is measured before blanks are trimmed, and trimming does not
   stop at the end mark: a negative length copies an unknown amount. *)
pmap_ut_substr(snippet, len) ==
  LET start   == strstr(snippet.text, snippet.start, 1)
      end     == EndMark(snippet, start)
      text    == start + Len(snippet.start)
      trimmed == pmap_ut_ltrim(snippet.text, text)
  IN  IF start = 0 \/ end <= start THEN Failed(1)
      ELSE IF ~ Fits(end - text, len) THEN Failed(2)
      ELSE IF trimmed > end THEN Undefined
      ELSE [ret    |-> 0,
            buffer |-> SubSeq(snippet.text, trimmed, end - 1)]

-----------------------------------------------------------------------------
(* pmap_ut_parse_url *)

DefaultPort == 80

Components(scheme, host, port, path) ==
  [scheme |-> scheme, host |-> host, port |-> port, path |-> path]

Invalid == Components(NULL, NULL, 0, NULL)

HostWithSlash(token) == SubSeq(token, 2, Len(token))     \* mutant: token + 1
HostOf(token) == SubSeq(token, 3, Len(token))

(* "//host" and "port/path" *)
WithPort(libc, scheme, hostToken, rest) ==
  LET port == strtok_r(libc, rest, "/")
  IN  Components(scheme, HostOf(hostToken),
                 IF port.token = NULL THEN DefaultPort ELSE atoi(port.token),
                 port.rest)

HostToTheEnd(libc, scheme, token) ==   \* mutant: the path is not split off
  Components(scheme, HostOf(token), DefaultPort, NULL)

(* "//host/path" *)
WithoutPort(libc, scheme, token) ==
  LET host == strtok_r(libc, token, "/")
  IN  Components(scheme, IF host.rest = NULL THEN NULL ELSE host.token,
                 DefaultPort, host.rest)

(* A text without a colon leaves no rest on BSD, and strstr reads it. *)
UndefinedUrl == Components(NULL, NULL, -1, NULL)

pmap_ut_parse_url(libc, url) ==
  LET scheme == strtok_r(libc, url, ":")
      host   == strtok_r(libc, scheme.rest, ":")
  IN  IF scheme.token = NULL THEN Invalid
      ELSE IF scheme.rest = NULL THEN UndefinedUrl
      ELSE IF ~ IsPrefix(<< "/", "/" >>, scheme.rest)
      THEN Components(scheme.token, NULL, DefaultPort, scheme.rest)
      ELSE IF host.rest # NULL
      THEN WithPort(libc, scheme.token, host.token, host.rest)
      ELSE WithoutPort(libc, scheme.token, host.token)

-----------------------------------------------------------------------------
(* One call after another, each on texts of its own. *)

VARIABLE call     \* the latest call: the function, what it got and returned

NoCall == [fn |-> "none"]

Init == call = NoCall

Substr ==
  /\ call = NoCall
  /\ \E snippet \in Snippet, len \in Room :
       call' = [fn |-> "substr", arg |-> snippet, len |-> len,
                result |-> pmap_ut_substr(snippet, len)]

ParseUrl ==
  /\ call = NoCall
  /\ \E libc \in Libc, url \in UrlText :
       call' = [fn |-> "parse_url", arg |-> url, libc |-> libc,
                result |-> pmap_ut_parse_url(libc, url)]

Return ==
  /\ call # NoCall
  /\ call' = NoCall

-----------------------------------------------------------------------------
(* Properties *)

Substrings == call.fn = "substr"
Parsed     == call.fn = "parse_url"

(* The text between the first start mark and the first end mark after it,
   without the blanks it begins with, is what pmap_ut_substr returns; it
   returns 1 only if one of the marks is missing.  Texts it leaves undefined
   are the next property's. *)
SubstrIsBetween ==
  Substrings /\ call.result.ret \in 0 .. 1 =>
    LET text == call.arg.text
        Stands(mark, i) ==
          \A k \in DOMAIN mark : i + k - 1 <= Len(text) /\ text[i + k - 1] = mark[k]
        First(i) ==
          /\ Stands(call.arg.start, i)
          /\ \A k \in 1 .. i - 1 : ~Stands(call.arg.start, k)
        Ended(i, j) ==
          /\ i < j /\ Stands(call.arg.end, j)
          /\ \A k \in i + 1 .. j - 1 : ~Stands(call.arg.end, k)
        Leads(s) == Len(s) > 0 /\ s[1] \in Space
    IN  IF call.result.ret = 1
        THEN ~ \E i, j \in 1 .. Len(text) : First(i) /\ Ended(i, j)
        ELSE \E i, j, n \in 1 .. Len(text) :
               /\ First(i) /\ Ended(i, j)
               /\ n >= i + Len(call.arg.start)
               /\ \A k \in i + Len(call.arg.start) .. n - 1 : text[k] \in Space
               /\ call.result.buffer = SubSeq(text, n, j - 1)
               /\ ~ Leads(call.result.buffer)

(* Elements of XML are cut out with a defined result whatever stands in them,
   blanks only or nothing: "</" does not begin with a blank, which stops the
   trimming, and cannot begin inside a start mark. *)
ElementsAreDefined ==
  Substrings /\ call.arg.end[1] = "<" => call.result # Undefined

(* What is found in the part of a text that has arrived is what is found in
   the whole of it: a status or a LOCATION cut by a timeout is missing, never
   another. *)
PartTellsTheSame ==
  Substrings =>
    \A part \in Prefixes(call.arg.text) :
      LET cut == pmap_ut_substr([call.arg EXCEPT !.text = part], call.len)
      IN  cut.ret = 1 \/ cut = call.result

Url(scheme, host, port, path) ==
  scheme \o << ":" >> \o << "/", "/" >> \o host
         \o << ":" >> \o port \o << "/" >> \o path

Portless(scheme, host, path) ==
  scheme \o << ":" >> \o << "/", "/" >> \o host \o << "/" >> \o path

(* scheme://host:port/path comes apart into these four, whatever colons and
   slashes stand in the path. *)
UrlComesApart ==
  Parsed =>
    \A scheme \in Scheme, host \in Host, port \in PortText, path \in Path :
      call.arg = Url(scheme, host, port, path) =>
        call.result = Components(scheme, host, atoi(port), path)

(* "Set default port" (util.c:168): without a port, scheme://host/path comes
   apart too and its port is 80, as long as no colon stands in the path. *)
PortlessUrlComesApart ==
  Parsed =>
    \A scheme \in Scheme, host \in Host, path \in Path :
      call.arg = Portless(scheme, host, path) /\ ~Has(path, ":") =>
        call.result = Components(scheme, host, 80, path)

(* It does on the C libraries whose strtok_r leaves NULL (util.c:192-197). *)
BsdPortlessUrlComesApart ==
  Parsed /\ call.libc = "bsd" => PortlessUrlComesApart
=============================================================================
