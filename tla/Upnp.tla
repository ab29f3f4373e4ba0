--------------------------------- MODULE Upnp ---------------------------------
(***************************************************************************)
(* The UPnP calls (src/pmap_upnp.c): pmap_upnp_addport, pmap_upnp_delport  *)
(* and pmap_upnp_getexip, all through pmap_upnp_action, which searches for *)
(* devices, asks those at the gateway's address for a control URL, posts   *)
(* the SOAP request to the first that answers and frees the list.          *)
(*                                                                         *)
(* The module extends Discovery, whose search it runs as its first phase;  *)
(* the same program may also call pmap_list_upnp and pmap_list_free for    *)
(* itself (src/main.c: print_list_igds).  An HTTP exchange has the         *)
(* outcomes that RemoteCall promises and HttpReq is shown to keep.         *)
(*                                                                         *)
(* Abstractions.  The SOAP body is not spelled out: an endpoint decides on *)
(* the request it was sent and answers with a status.  A control URL is    *)
(* named by the URL of the endpoint it belongs to.                         *)
(***************************************************************************)
EXTENDS Discovery

CONSTANTS
  Gateway,    \* the caller's gateway_ip, as text
  Code        \* the statuses an endpoint may answer with

ASSUME UpnpConstantsOK ==
  /\ Gateway \in STRING
  /\ Code \subseteq Nat \ {0}

VARIABLES
  action,       \* "add", "del" or "exip": the latest call
  step,         \* "none" between calls, then "searching", "walking" the list,
                \* "posting", "asked" and "cleanup", or "killed" by a signal
  ctrl_url,     \* whose control URL is in pbfr_tmp
  http_status,
  result,       \* what the latest call returned: 0 or 1, before that 2
  external_ip,  \* the caller's buffer: "unset" or "address"
  (* the network *)
  asked,        \* 1 when the request of this call was written
  decided,      \* statuses the endpoint decided on for this call
  (* history *)
  posted        \* endpoints the requests of this call were posted to

call == << action, step, ctrl_url, http_status, result, external_ip, asked,
           decided, posted >>
vars == << search, call >>

Init ==
  /\ SearchInit
  /\ action = "exip" /\ step = "none" /\ ctrl_url = NoUrl /\ http_status = 0
  /\ result = 2 /\ external_ip = "unset"
  /\ asked = 0 /\ decided = {} /\ posted = << >>

-----------------------------------------------------------------------------
(* The program lists devices for itself, and frees what it was given. *)

ListAll  == ListUpnp(PMAP_UPNP_LIST_ALL)
ListIgd  == ListUpnp(PMAP_UPNP_LIST_IGD)

Listing ==
  /\ step = "none"
  /\ ListAll \/ ListIgd \/ Announced \/ SearchOn \/ ListFree \/ FreeStep
  /\ UNCHANGED call

-----------------------------------------------------------------------------
(* A call, and its search. *)

UpnpCall(a) ==
  /\ step = "none"
  /\ ListUpnp(PMAP_UPNP_LIST_ALL)
  /\ action' = a
  /\ step' = "searching"
  /\ ctrl_url' = NoUrl
  /\ http_status' = 0
  /\ result' = 2
  /\ external_ip' = "unset"
  /\ asked' = 0 /\ decided' = {} /\ posted' = << >>

CallHears ==
  /\ step = "searching"
  /\ Announced
  /\ UNCHANGED call

CallSearches ==
  /\ step = "searching"
  /\ SearchOn
  /\ UNCHANGED call

CleanUp == step' = "cleanup"

SearchReturns ==
  /\ step = "searching"
  /\ pc = "returned"
  /\ \/ ret # 0 /\ CleanUp /\ UNCHANGED ucmp
     \/ ret = 0 /\ step' = "walking" /\ ucmp' = urls
  /\ UNCHANGED << pc, only_igds, urls, head, url_comp, found, heard, ret, heap,
                  live, open, order, qualified, action, ctrl_url, http_status,
                  result, external_ip, asked, decided, posted >>

-----------------------------------------------------------------------------
(* The loop over the devices found. *)

AtGateway(u) == u.host = Gateway

SameDevice == UNCHANGED ucmp        \* mutant: "continue" does not move on
NextDevice == ucmp' = heap[ucmp].next
KeepList == UNCHANGED << only_igds, urls, head, url_comp, found, heard, ret,
                         heap, live, order, qualified >>
KeepSearch == KeepList /\ UNCHANGED pc

SkipDevice ==
  /\ step = "walking"
  /\ ucmp # 0
  /\ ~AtGateway(heap[ucmp].url)
  /\ NextDevice
  /\ KeepSearch
  /\ UNCHANGED << open, call >>

(* pmap_req_ctrlurl is asked; what it puts into pbfr_tmp stays there. *)
DescribeDevice ==
  /\ step = "walking"
  /\ ucmp # 0
  /\ AtGateway(heap[ucmp].url)
  /\ \E reply \in ReqCtrlurl(heap[ucmp].url) :
       /\ open' = reply.fds
       /\ http_status' = reply.ret
       /\ ctrl_url' = IF reply.ctrl # "none" THEN heap[ucmp].url ELSE ctrl_url
       /\ \/ reply.ret = 0 /\ step' = "posting" /\ UNCHANGED ucmp
          \/ reply.ret # 0 /\ NextDevice /\ UNCHANGED step
  /\ KeepSearch
  /\ UNCHANGED << action, result, external_ip, asked, decided, posted >>

NoDevice ==
  /\ step = "walking"
  /\ ucmp = 0
  /\ CleanUp
  /\ UNCHANGED << search, action, ctrl_url, http_status, result, external_ip,
                  asked, decided, posted >>

(* pmap_http_post returns NULL and leaves the status as it is. *)
PostFails ==
  /\ step = "posting"
  /\ open' \in {open, open + 1} \cap 0 .. FdLimit
  /\ CleanUp
  /\ KeepSearch
  /\ UNCHANGED << ucmp, action, ctrl_url, http_status, result, external_ip,
                  asked, decided, posted >>

(* The request for a description, or the post, ends the process. *)
CallKilled ==
  /\ \/ step = "walking" /\ ucmp # 0 /\ AtGateway(heap[ucmp].url)
     \/ step = "posting"
  /\ Killed
  /\ step' = "killed"
  /\ KeepList
  /\ UNCHANGED << ucmp, open, action, ctrl_url, http_status, result,
                  external_ip, asked, decided, posted >>

PostIsSent ==
  /\ step = "posting"
  /\ HaveSocket
  /\ step' = "asked"
  /\ asked' = 1
  /\ posted' = Append(posted, heap[ucmp].url)
  /\ UNCHANGED << search, action, ctrl_url, http_status, result, external_ip,
                  decided >>

GoOn ==                                   \* mutant: no break after the post
  /\ step' = "walking"
  /\ NextDevice
LeaveLoop == CleanUp /\ UNCHANGED ucmp

(* pmap_http_post returns a text, with the endpoint's status or without. *)
PostReturns ==
  /\ step = "asked"
  /\ http_status' \in {0} \cup decided
  /\ LeaveLoop
  /\ KeepSearch
  /\ UNCHANGED << open, action, ctrl_url, result, external_ip, asked, decided,
                  posted >>

-----------------------------------------------------------------------------
(* The end of pmap_upnp_action and of its callers. *)

CallFrees ==
  /\ step = "cleanup"
  /\ ListFree \/ FreeStep
  /\ UNCHANGED call

AnyStatus == http_status # 0              \* mutant: every answer is a success
Succeeded == http_status = 200

(* pmap_upnp_getexip extracts the address, if the text has it whole. *)
Return ==
  /\ step = "cleanup"
  /\ pc = "idle"
  /\ step' = "none"
  /\ result' = IF Succeeded THEN 0 ELSE 1
  /\ \/ UNCHANGED external_ip
     \/ action = "exip" /\ Succeeded /\ external_ip' = "address"
  /\ UNCHANGED << search, action, ctrl_url, http_status, asked, decided,
                  posted >>

CallStep ==
  \/ CallSearches \/ SearchReturns
  \/ SkipDevice \/ DescribeDevice \/ NoDevice
  \/ PostFails \/ CallKilled \/ PostIsSent \/ PostReturns
  \/ CallFrees \/ Return

(* The endpoint takes up the request and decides, in time or not (external). *)
EndpointDecides ==
  /\ asked = 1
  /\ decided = {}
  /\ \E c \in Code : decided' = {c}
  /\ UNCHANGED << search, action, step, ctrl_url, http_status, result,
                  external_ip, asked, posted >>

Next ==
  \/ Listing
  \/ \E a \in {"add", "del", "exip"} : UpnpCall(a)
  \/ CallHears
  \/ CallStep
  \/ EndpointDecides

Spec == Init /\ [][Next]_vars

(* A call in progress goes on: its HTTP requests end by their own timeouts,
   its recvfrom brings a datagram or times out.  Datagrams may come for ever. *)
FairSpec == Spec /\ WF_vars(CallHears \/ CallStep)

-----------------------------------------------------------------------------
(* Properties. *)

(* Every variable has its type, and no more descriptors are in use than the
   process may have. *)
TypeOK ==
  /\ pc \in {"idle", "receiving", "probing", "comparing", "returned",
             "freeing", "killed"}
  /\ only_igds \in 0 .. 1 /\ found \in 0 .. 1 /\ heard \in 0 .. 1
  /\ ret \in 0 .. 1
  /\ {urls, head, url_comp, ucmp} \subseteq Node \cup {0}
  /\ heap \in [Node -> [url : Url \cup {NoUrl},
                        crtl_url : {"none", "location", "control"},
                        next : Node \cup {0}]]
  /\ live \in SUBSET Node
  /\ open \in 0 .. FdLimit
  /\ order \in Seq(Node)
  /\ qualified \in SUBSET Url
  /\ action \in {"add", "del", "exip"}
  /\ step \in {"none", "searching", "walking", "posting", "asked", "cleanup",
               "killed"}
  /\ ctrl_url \in Url \cup {NoUrl}
  /\ http_status \in {0, 1} \cup Code
  /\ result \in 0 .. 2
  /\ external_ip \in {"unset", "address"}
  /\ asked \in 0 .. 1
  /\ decided \in SUBSET Code
  /\ posted \in Seq(Url)

(* A call sends one SOAP request at most, and only to an endpoint at the
   gateway's address, whatever else answered the search (pmap_upnp.c:506-552);
   a second request could undo or repeat what the first did. *)
OnePostToGateway ==
  /\ Len(posted) <= 1
  /\ \A i \in DOMAIN posted : posted[i].host = Gateway

(* The call as its caller sees it: 0 or 1. *)
Promise == INSTANCE RemoteCall WITH
  Decision <- Code,
  busy     <- step # "none",
  decided  <- decided,
  status   <- IF step # "none" \/ result = 2 THEN "none"
              ELSE IF result = 0 THEN "decided"
              ELSE IF asked = 0 THEN "not sent" ELSE "unknown",
  told     <- IF step = "none" /\ result = 0 THEN {200} ELSE {}

(* A call that returns 0 was answered with status 200 by the endpoint it was
   posted to, for this very call; one that never got to post is not acted
   upon later. *)
ImplementsPromise == Promise!Spec

(* Once no datagram comes any more, a call comes back or the process is
   killed; hosts that keep sending, be it without any LOCATION, keep it in its
   receive loop (pmap_upnp.c:132-207). *)
CallEnds ==
  <>[][~KeepsWaiting]_vars => (step # "none" ~> step \in {"none", "killed"})

-----------------------------------------------------------------------------
(* What the documentation says and the code does not do. *)

(* pmap_upnp.c:463-464 of pmap_upnp_action: "It first searches for the
   device's control URL, sends the SOAP request". *)
PostHasControlUrl == step = "posting" => ctrl_url = heap[ucmp].url

(* pmap_upnp.c:423-424 of pmap_upnp_getexip: "If the external IP address is
   successfully retrieved, it returns 0, and the `external_ip` parameter
   contains the address". *)
SuccessBringsAddress ==
  step = "none" /\ action = "exip" /\ result = 0 => external_ip = "address"
=============================================================================
