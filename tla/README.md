# A specification of libpmap

libpmap asks a home router to forward a port to this host: with NAT-PMP (one
UDP request to the gateway) or with UPnP-IGD (a multicast search, an HTTP
request for a device description, a SOAP request). This directory holds TLA+
modules that model the library, TLC configurations that check them, and proofs
that TLAPS checks.

Every definition that stands for code carries the name of the function or
variable it stands for, or a comment that says which; `PROJECT.json` lists the
lines.

## 1. The system

libpmap is a library for one thread; nothing runs concurrently inside it. What
makes it hard is everything outside: datagrams that are lost, late, repeated or
come from others, HTTP peers that stall, break off or never close, gateways
that act on a request whose answer never comes, and a process that loses a
descriptor here and there and one day has none left.

| Component | State | Operations | Talks to |
|---|---|---|---|
| NAT-PMP client, `src/pmap_npmp.c` | per call: socket, request, receive buffer, retry counter; the caller's `pmap_field_t`, error text and `errno` | `pmap_npmp_getexip`, `pmap_npmp_addport`, `pmap_npmp_delport` | the gateway, by UDP |
| HTTP client, `src/http.c` | per call: socket, receive buffer and its two counters, the caller's status | `pmap_http_get`, `pmap_http_post` → `pmap_http_req` → `pmap_http_connect` | an HTTP peer, by TCP |
| UPnP discovery, `src/pmap_upnp.c` | a linked list of `pmap_url_comp_t` in the heap, the pointers into it, a transfer buffer | `pmap_list_upnp`, `pmap_list_igd`, `pmap_list_free`, `pmap_req_ctrlurl` | devices, by multicast; the HTTP client |
| UPnP actions, `src/pmap_upnp.c`, `src/upnp_msg.h` | the list of its own search, the control URL, the status | `pmap_upnp_addport`, `_delport`, `_getexip` → `pmap_upnp_action` | discovery and the HTTP client |
| Strings and URLs, `src/util.c` | none | `pmap_ut_substr`, `pmap_ut_parse_url`, `pmap_ut_free_url`, `pmap_ut_inet_ntoa` | called by the UPnP parts and the HTTP client |
| Growing buffers, `src/buffer.c` | memory, size, offset | `pbfr_create`, `pbfr_add`, `pbfr_append`, `pbfr_destroy` | called by the HTTP client and the UPnP parts |
| Command line, `main.c` | its arguments, operation and action; `optind` | options, dispatch, one library call per process, what is printed | the user, getopt, the library |
| getopt for Windows, `src/xgetopt.c` | `optind`, `optarg`, the place in a group of options | `getopt` | called by the command line |

Which behaviours are hard, and what makes each component correct:

* **NAT-PMP.** There is no retransmission and replies carry no identifier; the
  code relies on a fresh socket per call (never closed) and on the sender's
  address. Correct means: what a successful call returns was granted to *this*
  call by the gateway; `errno` tells the ways of failing apart; and the caller
  always knows which mappings it may have. A call must also end in spite of
  stray datagrams, and not before it has received in vain as often as it means to.
* **HTTP.** A non-blocking connect, two `select` loops, and answers in pieces of
  any size. Correct means: the text is a prefix of what the peer sent and stays
  in the buffer; a status was really given to this request; descriptors are
  given back; every call ends.
* **Discovery.** Devices announce themselves several times, in any order and
  interleaved with slow HTTP requests of the search itself. Correct means: the
  list is a well-formed chain without duplicates, of exactly the devices that
  qualify; every node is in the list or freed, and freed once.
* **Actions.** Two HTTP requests and a search per call, with several endpoints
  at the gateway's address. Correct means: at most one SOAP request, to the
  gateway only; 0 is returned only when the endpoint agreed to this call.
* **Texts.** Requests are composed in buffers of fixed sizes and answers are taken
  apart by marks. Correct means: nothing is cut, a body is announced with its
  length, the request that follows a URL names that URL's host, port and path,
  and a text cut short never tells something else than the whole.
* **Command line.** Options in any grouping and order, operands by position, and
  one call per process, which may be killed. Correct means: the call is the one
  the command line names, missing operands are noticed, every command line is
  read to its end, and who reads what the processes print knows the gateway's
  mappings.

The list of what is hard to test, each point with its line and the property
that covers it, is `hazards` in `PROJECT.json`.

## 2. The modules

```
RemoteCall      what a call promises           DeviceList   what a search promises
  ^     ^    ^                                       ^
  |     |    +---------------------+                 |
NatPmp  HttpReq                    Upnp --EXTENDS--> Discovery
  |        |                        |                  |
NatPmpProofs  HttpReqProofs     UpnpProofs --EXTENDS--> DiscoveryProofs

RemoteCall <--uses-- CommandLine --EXTENDS--> Getopt <--EXTENDS-- Options
                          |                     |                    |
                  CommandLineProofs          EXTENDS           OptionsProofs
                                                v
Requests --EXTENDS--> Strings --EXTENDS-----> Null
   |                     |
RequestsProofs --EXTENDS--> StringsProofs
```

An arrow up is a refinement: the lower module instantiates the upper one with a
mapping of its variables and states `ImplementsPromise` or
`ImplementsDeviceList`. CommandLine takes RemoteCall for its library call, the
abstract call that NatPmp and Upnp are shown to implement. **Null** has the null
pointer of the modules about texts. Modules `MC...` give the constants for TLC.

**RemoteCall** is the abstract call: begin, the gateway decides (more than once
if the request was duplicated, also after the call gave up), finish with
"decided" and that decision, with "unknown", or with "not sent" when nothing
was or will be decided. A lost or late answer is allowed; a wrong one is not.

**NatPmp** models `pmap_npmp.c`. `GetExip`, `AddPort`, `DelPort` are the three
functions up to their first `recvfrom`, with every early return (`NoSocket`,
`SocketFails`, `BadProtocol`); `RecvStray`, `RecvAddress`, `RecvGrant`,
`RecvRefusal`, `RecvNothing` are the turns of the receive loop. `RecvNothing` is
its else branch, which the code takes after 250 ms of silence and also, at once,
when an empty datagram arrives, a signal comes or `recvfrom` fails. A short
datagram, also a short success of the gateway, leaves the tail of the receive
buffer as it was (`Overlay`); ports are cut to 16 bits (`Htons`, `PortModulus`);
`ErrorText` has the table lookup as the code guards it. The gateway
(`GatewayMap`, `GatewayUnmap`, `GatewayRefuse`, `GatewayAddress`, `Expire`) and
the network are external: what was sent stays available, so it may arrive late,
repeatedly, cut or never. History variables record what a caller could know
(`view`, `blurred`) and what the latest call received in vain (`fruitless`,
`dropped`).

**HttpReq** models `pmap_http_req` and `pmap_http_connect`: `HttpReq` is the
call up to its first wait, `SelectWritable`, `ConnectTimeout`,
`ConnectInterrupted`, `WriteRequest`, `WriteFails`, `WriteKills` (SIGPIPE),
`RecvData`, `RecvEnd`, `SelectTimeout`, `SelectInterrupted` are its steps. The
peer (`Handshake`, `ServerDecides`, `ServerSends`, `ServerCloses`,
`ConnectionBreaks`) is external. A text is its length, an answer is its status
code, the length up to the second space, and its full length; that is all that
the loop and the extraction of the status tell apart. Each call is an exchange
of one request, so the module describes what `pmap_http_get` and
`pmap_http_post` share.

**Discovery** models the search at the granularity of the C code: `heap` and
`live` are the memory, `urls`, `head`, `url_comp`, `ucmp` the pointers. A turn
of the comparison loop and a turn of `pmap_list_free` are single steps, so that
a pointer used after it was freed is seen. `ReqCtrlurl(u)` is the set of
outcomes of `pmap_req_ctrlurl`: the HTTP request fails (perhaps costing a
descriptor), or returns a text with or without status 200, whole or cut; or
SIGPIPE ends the process (`ProbeKills`). `Tmp` is what the buffer of the LOCATION,
used again for the control URL, then holds. A datagram without LOCATION goes
round the loop (`RecvOther`), and like an announcement starts the wait anew.

**DeviceList** is the abstract list: grows by devices not yet in it while the
search goes on, stays as it is afterwards, is freed as a whole.

**Upnp** extends Discovery and models `pmap_upnp_action` with its three callers.
A call runs the search (`CallHears`, `CallSearches`), walks the list
(`SkipDevice`, `DescribeDevice`), posts (`PostFails`, `PostIsSent`,
`PostReturns`; `CallKilled` is SIGPIPE in either request), frees the list
(`CallFrees`) and returns. Between calls the program may list devices for itself
(`Listing`). The endpoint may decide on a post at any later time
(`EndpointDecides`). The HTTP requests in it have the outcomes HttpReq is shown to
have.

**Requests** composes requests as `pmap_http_create`, `pmap_http_get`,
`pmap_http_post` and `pmap_upnp_action` do, with the functions of `buffer.c`. A
buffer is its size, its offset, the pieces written with their places, and the
number of pieces that did not fit; a piece is what one `pbfr_add` writes. The
lengths of the fixed texts are those of `upnp_msg.h` and the formats; hosts,
paths, numbers and addresses have any length the library's buffers can hold.
`Get` follows the URL of a LOCATION as Strings takes it apart; `Post` is the
rest of a UPnP call, at any control URL the buffer for it holds. `Next` and
`Spec`, of Strings and Requests together, are in this module.

**Strings** has `pmap_ut_substr` and `pmap_ut_parse_url` on sequences of
characters. `strstr`, `strtok_r` and `atoi` are external; each call is
made with one of the two kinds of C libraries (`Libc`), which leave different
things behind a last token. Where the
code computes a negative length the result is `Undefined`, where it searches
through a null pointer (a text without a colon, on BSD) `UndefinedUrl`. The
other modules use what is checked here: that a text cut short tells nothing
else than the whole (`PartTellsTheSame`), and that a LOCATION comes apart.

**Getopt** is `getopt` of `xgetopt.c`, which the Windows build links, as a function
from its globals and statics to the next ones and what it returns.

**Options** is a program that reads its options with it: `Type` writes one option
more on the command line, in a group of its own or in the group of the last,
with its argument at its heels, apart or missing; `TypeOperands` closes it, with
or without `--`; `Read` is one turn of the loop of `main`. Any options of a program
are covered, also options with arguments, which libpmap's own has none of.

**CommandLine** models `main.c`, process after process, for a user with one
gateway. `Run` is a new process with the command line its user types, permuted or
not; `NextOption`, `BadOption`, `OptionsEnd` are turns of the loop over getopt;
`Usage`, `NoAction`, `MissingArguments`, `NoProtocol` the ends without a library
call; `List` and `ListReturns` the listing; `CallLibrary`, `CallFails`,
`CallReturns` the call and what is printed after it; `Killed` a signal during it.
`pfield` is the call as the functions of `main.c` fill it in. The gateway
(`GatewayDecides`, `GatewayDecidesLate`, `GatewayForgets`) is external and speaks
both protocols; it may act on a request whose process has gone, and the network
may bring it a datagram of NAT-PMP again, also when it has long decided on it
(`GatewayDecidesAgain`). `known` is what the processes have told their user,
`unsure` the mappings the gateway may have that they did not tell of: those whose
adding was left open, or was delivered once more. The gateway's answers are whole
here; NatPmp has those that are not.

Every command line is read by one of three systems (`Systems`): glibc's getopt
moves the operands behind the options (`Arranged`), that of the BSDs and macOS
stops at the first operand (`posix_getopt`, both external), and the one of
`xgetopt.c` on Windows stops there too, and at every argument that begins with two
dashes (`EndsOptions`).

## 3. The runs

| Run | Instance | Question |
|---|---|---|
| `natpmp` | 3 calls, 2 descriptors, 3 values of `pmap_field_t` (a port cut to 1, a port cut to 0, an unknown protocol), 2 answers per call, whole or short | five invariants of the NAT-PMP client, the refinement of RemoteCall, and that calls return |
| `http` | 3 calls, 2 descriptors, buffer of 4, 5 answers | five invariants, the refinement of RemoteCall, that calls end |
| `upnp` | 3 URLs (the gateway's IGD, another service of the gateway, another host), 4 nodes, 3 descriptors, statuses 200 and 500 | five invariants, the refinements of DeviceList and RemoteCall, that calls end once no datagram comes any more |
| `texts` | every text up to 6 or 7 characters over the 3 to 5 that matter to each kind of marks; every URL text up to 6 over `:` `/` `h` `7`, and composed URLs up to the longest; both kinds of C libraries; command lines of up to three options with and without arguments, in groups or apart, and four lists of operands; shortest and longest of every length in a request | twelve invariants of the functions on texts, of the requests composed and of the options read |
| `command_line` | three processes, the first with any of 2,184 command lines (options before, behind and among up to six operands, `--`, `--d`, groups, unknown letters, on each of three systems), the others with eight usual ones; two external ports | four invariants: types, the call made is the one named, missing operands are noticed, the user knows the mappings; and that every command line is read to its end |
| `natpmp_zero_lifetime`, `natpmp_delete_external`, `http_refused`, `http_keep_alive`, `upnp_control_url`, `upnp_no_address`, `strings_default_port` | small | each shows one disagreement of the code with its own documents, see section 6 |

Why the bounds are enough to see the interesting cases:

* Three calls on two descriptors: a first call, a second that may meet late
  answers to the first, a third that finds no descriptor left. All three
  modules compare at most "this call" with "an earlier call".
* `PortModulus` 4 has the port 0, which one of the fields asks for (deleting it
  deletes everything of the protocol), one taken port, and a caller's port that
  wraps onto another, for which the gateway must choose another external port;
  two answers per request show a duplicate, and nothing distinguishes a third
  from a second.
* A buffer of 4 with answers shorter, as long and longer, status line within,
  at and beyond the end; TLC sees every division into pieces.
* Three URLs: list positions first, middle and last; two at the gateway's
  address, one an IGD. A fourth node is the one being looked at while all three
  are in the list. Each announcement may be repeated without bound.
* The lengths of a request are sums, so the longest of each part is the longest
  request, and the shortest shows that places do not coincide.
* A text of 6 or 7 has both marks, each possibly twice and in either order, and
  blanks between them or none; the buffers have room for one character less, as
  many, and more than the text between the marks.
* The run `texts` is one program that either calls functions on texts, one after
  the other, or reads its options (`ProgramSpec` in MCTexts). Neither looks at the
  other's state; the theorems are about each half (`Spec`, `OptionsSpec`).
* Three options: one before, in and behind a group, and one whose argument looks
  like an option.
* Three processes: one whose request may be late, one that the late request
  overtakes, and one that reads or deletes what the two have left. Two external
  ports tell the port granted from the port asked for.
* Bounds that exist only for TLC are named in the modules: `MaxCalls`,
  `MaxAnswers`, `MaxItems`, and the sizes of the constant sets. `FdLimit` is real,
  only small.

Most configurations switch deadlock checking off: the program may stop calling
the library, and with the bounds of calls or descriptors used up nothing is
left to do.

**Fairness** is assumed for the library's own steps only. `WF(Recv)` in NatPmp:
`SO_RCVTIMEO` makes `recvfrom` return (the call takes a datagram, or gets
nothing). `WF(Step)` in HttpReq: both `select` calls have timeouts; signals are not
in `Step`, so none need come. `WF(CallHears \/ CallStep)` in Upnp: its HTTP requests
end by their timeouts, and its `recvfrom` returns; but datagrams may bring it back
for ever, each after the other, so nothing forces the search to hear silence.
`WF(Main)` in CommandLine: what `main` does by itself, which the return of the
library (`Library`) is not. Nothing is assumed of gateway, devices or network.

The code can be kept waiting by others: a stray datagram restarts NAT-PMP's
wait, and any datagram that is not empty, with a LOCATION or not, the search's.
So `CallReturns` and `CallEnds` (Upnp) have the premise that these stop from some
time on (`~Stray`, `~KeepsWaiting`), and say that the call comes back then, or, in
Upnp, SIGPIPE has ended the process. `CallEnds` (HttpReq) needs no such premise,
as each piece received shrinks the room left. For the same reason
`EveryLineIsRead` stops at the library call or the listing: that a process ends
holds only under the premises of the library's own properties.

## 4. The proofs

The theorems hold for every value of the constants that satisfies the named
assumptions in the modules (`ConstantsOK`, `HttpConstantsOK`,
`DiscoveryConstantsOK`, `UpnpConstantsOK`, `CommandLineConstantsOK`,
`StringConstantsOK`, `RequestConstantsOK`, `OptionConstantsOK`). Most say little more
than that bounds are natural numbers and records have the right fields. Those about
texts say what a caller passes: marks are not empty, a mark of XML has one "<", no
part of a URL but its path has a colon or a slash, a LOCATION and a control URL fit
their buffers, an int prints in eleven characters at most, an option is a
character other than ":" and "-".

**NatPmpProofs**: `TypeCorrect`, `GrantsAreReal`, `ErrnoIsRight`,
`PatienceIsSpent`, `NothingIsUnknown`. The first four follow from `Inv`, the
properties together with

* `Numbering`: every packet belongs to a call already made, and a call sends
  once, so nothing under way can belong to the call about to begin;
* `Waiting`: the request of a waiting call is its own, is among those sent, and
  asks for what the function and the caller's field say;
* `Provenance`: each answer of the gateway answers a request, with its call,
  operation and internal port; strays come from another host;
* `Leftover`: behind the result code the receive buffer of a waiting call has
  zeros, or what a datagram of another host, dropped in this call, has left.

None of these is implied by the properties, and without them a first datagram
could belong to anybody, and a short success hand over anything. `GrantIsReal`
says of a success which fields the caller gets: the grant's, if the answer was
whole, otherwise those of `Leftover` (see section 6). `NoUnknownMapping` relates
the caller's knowledge to the gateway's table across calls and needs `TableInv`,
which adds

* `Settled`: the request of a call that has come back was answered or its
  mapping is blurred (a success without its fields blurs it, and the mapping its
  leftovers name), so a later delivery is a second one;
* `Single`: if a call was answered twice, its mapping is blurred;
* `Removed`: as long as nothing is blurred, a mapping in the table agrees with
  every answer the waiting call may still read;
* `Knowledge`: each mapping in the table is blurred, known to the caller, or told
  by an answer the waiting call is about to read. This is `NoUnknownMapping`
  extended to the middle of a call.

Its last part is `NatPmpKeepsPromise`, that NatPmp implements RemoteCall, from
`Inv` and the fact that refusals carry no grant. A call that is over has one of
three outcomes (`EveryOutcome`): success and refusal are answers to it, by
`GrantIsReal` and `ErrnoExplains`, and what is left was a timeout or never sent.

**HttpReqProofs**: `HttpInvariant` and its consequences `HttpTypeCorrect`,
`BufferHoldsPrefix`, `StatusIsTrue`, `EndMarkStaysInside`,
`AskedCallsCostNothing`, and the refinement `HttpKeepsPromise`. The
strengthening consists of `Phase` (what is true at each place of the call: no
status before the loop is left, a written request only after a connection),
`Answered` (answers exist only to written requests, and one answer to each),
`CallsCounted`, and `Whole` (why the loop ended when a status was read: all was
received, the buffer is full, or the connection broke), from which it follows
that the end mark leaves the buffer only after an answer of the buffer's length
or more. The refinement sorts the steps into those that begin, finish, decide or
stutter.

**DiscoveryProofs** has the lemmas about each step of the search, and
**UpnpProofs** the theorems about the whole: `UpnpInvariant`, `UpnpTypeCorrect`,
`ListStaysLinked`, `MemoryIsOwned`, `ListHoldsQualified`, `PostsOnceToGateway`,
and the refinements `SearchBuildsList` (of DeviceList) and `UpnpKeepsPromise`
(of RemoteCall). The invariant of the search, `SearchInv`, consists of

* `Chain`: the two pointer properties, with `Apart` (no node stands twice in the
  list, and the node in hand is not in it, so inserting it cannot close a cycle)
  and `AtFirst` (`pmap_list_free` stands at the first node that is left);
* `Once`: the URLs in the list are pairwise different;
* `Cursor`: in the comparison loop, `found` is 1 exactly if a node before the
  cursor has the URL in hand. Without it a step at the end of the loop could add
  a duplicate, so it is what both `Once` and the refinement rest on;
* `Qualify`: `QualifiedAreListed` with the node in hand counted in.

`UpnpInv` adds what a call may rely on: `Place` (where the search stands at each
place of the call; a description or a post goes to a node of the list that is at
the gateway's address), `Asking` (nobody decides before the post) and `Granting`
(one decision per call; 0 is returned for status 200 only).

**CommandLineProofs**: `CommandLineTypeCorrect`, `MissingOperandsNoticed`,
`UserIsTold` and `NamedCallIsMade`, for every set of command lines, on every system,
and any number of processes. That `optind` stays inside the arguments needs
`GetoptStaysInside` (a lemma about getopt for any arguments and options) and
`ArrangedLength` (permuting keeps the number of arguments). `UserIsTold` is not
inductive: a mapping may appear long after the process that asked for it has gone.
It needs

* `Phase` and `Requests`: what a process has at each place, and what requests and
  mappings look like;
* `Doubts`: the key of every adding that may still happen, by a late request or by
  the request of the process that just ended, or that was decided twice, is among
  the unsure ones;
* `Made`: once the gateway has granted the request of the waiting process, the
  table has no other mapping of its key, unless the key is unsure: a late request
  came in between, or one delivered once more. Without it a success could leave
  a mapping of the same key untold.

What a datagram delivered once more has made is an exception the theorem states:
the gateway then has a mapping nobody was told of, and no process could know.

`NamedCallIsMade` (the property `CallIsAsNamed`) compares two readings of a command
line: the one a user has, who looks for the last of the options that exclude each
other and counts the operands on the line as typed, and the one of `main`, which
sees what getopt returns, letter by letter, on the line as getopt left it. Its
invariant is `CallNamed`; the parts are

* `Arrangement`: getopt leaves options, `--` if there is one, and operands, in
  that order and each kind in the order typed. For glibc, which sorts the
  arguments, it follows from counting: an argument's new place is the number of
  those that go before it (`OrderedPlaces`, `Numbered`, `GlibcArranges`);
* `Reading`: getopt stands at letter `k` of argument `o`, all arguments up to
  there are options, and `operation` and `action` are those of the last letters
  seen (`LastSeen`); one turn of the loop moves it on by one letter (`ReadOnce`);
* `Understood` and `Asked`: when the loop is over, the letters seen are those on the
  line and the operands are in place, and the call asked for is made of them.

**StringsProofs** has the lemmas about the functions of Strings, for texts of any
length: that `strstr` finds the first place of a mark (`StrstrIsFirst`), what stands
between two marks and how much of it the caller gets (`SubstrFindsBetween`,
`SubstrFits`), that the beginning of a text holds the same marks at the same
places, or none (`SubstrOfPart`), what `strtok_r` leaves (`FirstToken`,
`TokenBeforeRest`, `TokenAtEnd`), and the parts of a URL (`ParsedUrl`,
`ParsedPortless`, `ParsedIsNoLonger`). Minima, and the recursive function of `atoi`,
need induction, for which the library's theorem takes an operator;
`LeastNumber` and `SetInduction` derive it for sets from the well-foundedness
of the numbers.

**RequestsProofs** has the theorems about Strings and Requests together: from
the lemma `CallInvariant` (every call got one of the inputs and returned what
its function makes of it; a POST follows a GET, so that its host and port are those of a URL
taken apart) follow `SubstrIsAlwaysBetween`, `ElementsAreAlwaysDefined`,
`PartAlwaysTellsTheSame`, `UrlsComeApart`, `BsdPortlessUrlsComeApart`,
`RequestsTypeOK`, `NothingIsEverCut`, `BodyIsAlwaysAnnounced`,
`TargetAlwaysHasOneSlash` and `GetAlwaysNamesUrl`. `NothingIsEverCut` adds up: each
piece has a longest length (`FixedPiecesFit`, `TargetFits`, `PrintedFits`,
`FieldsAreShort`), `PieceAdded` keeps a bound on the offset, `StackedAdded` the
pieces one behind the other, and with the longest
of everything a request takes 1,204 bytes of 4,096 and a body 760 of 1,024.

**OptionsProofs**: `OptionsTypeCorrect` and `OptionsAreAlwaysRead`, for any options
of a program, any number of them on the command line, and any arguments and
operands. The invariant `OptionsInv` says that there are places `g`, `c` (an argument,
and a letter in it) for the options written, so that

* `Written`: each option stands at its place, with its argument behind it or
  apart, in the group of the one before or in the argument after it, and no
  other option's argument lies between; `OneMoreWritten` is the step of `Type`;
* `Closed`: behind the last option are `--` and the operands, or operands of which
  the first is no group of options;
* `ReadUpTo`: after as many options as it has returned, getopt is at the end of
  that option and has the rest of its group left (`ReadOption`, `EndIsOperands`).

Proofs follow one pattern: a lemma per group of actions says which facts the
group establishes, a lemma per conjunct uses those facts, and the last step is
temporal. `PROJECT.json` lists the theorems and the checked property each states.

Only model-checked: liveness (`CallReturns`, `CallEnds`, `EveryLineIsRead`), which is
beyond the prover.

## 5. What is not modelled

* `pmap_ut_inet_ntoa` beyond the length of its text (it takes the address apart
  from its lowest byte, so a big-endian host would print it reversed);
  `pmap_ut_rtrim` and `pmap_ut_trim`, which are called nowhere; `pbfr_destroy`. In
  Discovery a LOCATION has a host, or is missing, or does not parse.
* The transfer buffers as memory: when a LOCATION does not parse, `pmap_list_upnp`
  returns without freeing its own (pmap_upnp.c:199); `NothingLeaks` is about the
  nodes of the list.
* The memory around a buffer. The end marks of the search's datagram
  (pmap_upnp.c:138) and of the control URL (pmap_upnp.c:306) can fall one past
  their buffers, and no module has what lies there; for http.c:252 `EndMarkHasRoom`
  says when.
* A protocol of four characters, which `pmap_field_t` holds without an end mark.
* Debug output, with the number of `-v`; the wording of what is printed. In
  CommandLine an error prints the call's error text, also where the call has
  written none (main.c:286), and an address is printed as one the call has
  stored; `upnp_no_address` shows that it may have stored none.
* `malloc` returning NULL. The code checks for it in some places and gives up there.
* Threads: the library has none, and its static buffer for addresses
  (`pmap_ut_inet_ntoa`) and its use of `gethostbyname` exclude callers with
  several.
* The build files and the test server, which are no code of the library.

## 6. Where the code and its documents disagree

1. Lifetime 0 "indicates no expiration" (README.md:92); over NAT-PMP it is the
   request to delete (`natpmp_zero_lifetime`).
2. "The external port number that you want to delete the mapping for"
   (README.md:117); over NAT-PMP a mapping is named by its internal port
   (`natpmp_delete_external`).
3. A descriptor "if the connection is established"; a refused connection is
   returned too (`http_refused`, http.c:143).
4. "The HTTP status code (if available) is returned"; not when the peer keeps
   the connection open (`http_keep_alive`, http.c:240).
5. The SOAP request goes to "the device's control URL"; a description without
   one is enough (`upnp_control_url`, pmap_upnp.c:514).
6. "Returns 0, and the `external_ip` parameter contains the address"; it may be
   untouched (`upnp_no_address`, pmap_upnp.c:447).
7. "Set default port" for a URL without one; with glibc its host and path stay
   in one piece (`strings_default_port`, util.c:186).

Met while modelling, and in the modules as the code has it, without a run of
their own:

* a success of the gateway that is shorter than a reply is taken for a whole one,
  and hands over zeros or what a datagram of another host has left in the buffer
  (pmap_npmp.c:206-218, `Overlay`, `Brought`);
* an empty datagram of any host counts as a timeout, so two of them make a call
  give up with ETIMEDOUT at once (pmap_npmp.c:206, 233-237, `RecvNothing`);
* `usage()` lists a lifetime for `-a` (main.c:183-184), but the code does without it
  and takes 0 (main.c:255, 264, `Lifetime`, `CallIsAsNamed`);
* deleting with exactly two operands passes the check and reads the NULL behind
  `argv` as the protocol (main.c:411, `NoProtocol`);
* a sixth operand of `-a` makes the lifetime 0 (main.c:371, `Lifetime`);
* the exit status is 0 after every error but a bad option (`Exit`, `CallFails`);
* on Windows an argument like `--d` ends the options without a word (xgetopt.c:165,
  `EndsOptions`), while xgetopt.c:76 gives that meaning to `--` alone and
  xgetopt.c:82 promises "?" for an unknown letter;
* a path of a URL that begins with a slash loses it (`GetNamesUrl` leaves such
  URLs out), and a URL without a path, where `strtok_r` leaves NULL, is asked for
  as `/(null)` with a C library that prints NULL so (`Printed`).

The text of a result code without an entry in the table is no property of a
run; `ErrorText` has the lookup as pmap_npmp.c:222 guards it, with the size of
the table in bytes where its comment speaks of every code beyond the table.

## 7. Plan

Done: RemoteCall, NatPmp, HttpReq, DeviceList, Discovery, Upnp, CommandLine,
Getopt, Options, Strings and Requests, each with the proofs of its invariants and
refinements.

Next, in this order:

1. *URLs in Discovery*: hosts and paths as Strings parses them, also missing
   ones, in the comparison of devices and with the gateway's address.
2. *The memory of the buffers*: the end marks of the datagram and of the control
   URL, with the byte after the buffer.
