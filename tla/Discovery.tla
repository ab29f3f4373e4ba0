------------------------------ MODULE Discovery ------------------------------
(***************************************************************************)
(* The search for UPnP devices (src/pmap_upnp.c: pmap_list_upnp,           *)
(* pmap_list_igd, pmap_req_ctrlurl, pmap_list_free) and the linked list it *)
(* builds, node by node, in the memory of the process.                     *)
(*                                                                         *)
(* A device answers the one M-SEARCH at any time, more than once or not at *)
(* all; any datagram that is not empty starts the wait anew.  The HTTP     *)
(* request for a description is one step with the outcome module HttpReq   *)
(* allows: NULL, at the price of a descriptor perhaps, a text, cut or      *)
(* whole, with or without its status, or the end of the process.           *)
(*                                                                         *)
(* Abstractions.  A URL is its parsed record; a LOCATION has a host, is    *)
(* missing or does not parse.  A control URL is "control", the text of a   *)
(* LOCATION "location", an empty text "none".  malloc does not fail and    *)
(* hands out the lowest free node.  The buffers for the transfers are left *)
(* out, but for the 128 bytes that hold a LOCATION, then a control URL.    *)
(***************************************************************************)
EXTENDS Integers, Sequences, FiniteSets

CONSTANTS
  Url,          \* the URLs devices announce (host, port, path)
  Igd,          \* those whose description has a WANIPConnection control URL
  Node,         \* addresses malloc may return, positive; 0 is NULL; one more
                \* than URLs, as malloc does not fail
  FdLimit       \* descriptors the process may have open

ASSUME DiscoveryConstantsOK ==
  /\ Url \subseteq [host : STRING, port : Nat, path : STRING]
  /\ Igd \subseteq Url
  /\ Node \subseteq Nat \ {0}
  /\ FdLimit \in Nat

PMAP_UPNP_LIST_ALL == 0
PMAP_UPNP_LIST_IGD == 1

-----------------------------------------------------------------------------
VARIABLES
  pc,         \* "idle", "receiving", "probing" a device's description,
              \* "comparing" with the list, "returned" to the caller,
              \* "freeing", or "killed" by a signal
  only_igds,
  urls,       \* first node of the list
  head,       \* its last node, in spite of the name
  url_comp,   \* the node made for the latest LOCATION
  ucmp,       \* the cursor of the loop in progress
  found,      \* 1 when the comparison has met an equal node
  heard,      \* parity of the datagrams without LOCATION that came in a row
  ret,        \* the search's return value
  heap,       \* what each node holds
  live,       \* the nodes allocated
  open,       \* descriptors open in the process
  (* history *)
  order,      \* the nodes of the list, first to last
  qualified   \* URLs announced in this search and, for IGDs, confirmed

search == << pc, only_igds, urls, head, url_comp, ucmp, found, heard, ret, heap,
             live, open, order, qualified >>

NoUrl == [host |-> "none", port |-> 0, path |-> "none"]
Blank == [url |-> NoUrl, crtl_url |-> "none", next |-> 0]

SearchInit ==
  /\ pc = "idle" /\ only_igds = 0 /\ urls = 0 /\ head = 0 /\ url_comp = 0
  /\ ucmp = 0 /\ found = 0 /\ heard = 0 /\ ret = 0
  /\ heap = [n \in Node |-> Blank] /\ live = {} /\ open = 0
  /\ order = << >> /\ qualified = {}

HaveSocketOffByOne == open <= FdLimit     \* mutant: a failed socket() used
HaveSocket == open < FdLimit
FreeNodes == Node \ live
Lowest(S) == CHOOSE n \in S : \A m \in S : n <= m

-----------------------------------------------------------------------------
(* pmap_list_upnp, up to the first recvfrom. *)

(* socket() fails, or setsockopt() or sendto() on the socket it made. *)
SearchFails ==
  /\ open' \in {open, open + 1} \cap 0 .. FdLimit
  /\ pc' = "returned"
  /\ ret' = 1

SearchStarts ==
  /\ HaveSocket
  /\ open' = open + 1
  /\ pc' = "receiving"
  /\ UNCHANGED ret

ListUpnp(only) ==
  /\ pc = "idle"
  /\ only_igds' = only
  /\ urls' = 0 /\ head' = 0 /\ url_comp' = 0
  /\ qualified' = {}
  /\ SearchFails \/ SearchStarts
  /\ UNCHANGED << ucmp, found, heard, heap, live, order >>

-----------------------------------------------------------------------------
(* The receive loop. *)

(* An announced URL gets a node, which is probed or compared at once. *)
RecvLocation(u) ==
  /\ pc = "receiving"
  /\ FreeNodes # {}
  /\ LET n == Lowest(FreeNodes)
     IN  /\ url_comp' = n
         /\ live' = live \cup {n}
         /\ heap' = [heap EXCEPT ![n] = [url |-> u, crtl_url |-> "none",
                                       next |-> 0]]
  /\ \/ /\ only_igds = PMAP_UPNP_LIST_IGD
        /\ pc' = "probing"
        /\ UNCHANGED << ucmp, found, qualified >>
     \/ /\ only_igds # PMAP_UPNP_LIST_IGD
        /\ pc' = "comparing" /\ ucmp' = urls /\ found' = 0
        /\ qualified' = qualified \cup {u}
  /\ heard' = 0
  /\ UNCHANGED << only_igds, urls, head, ret, open, order >>

(* A datagram without LOCATION, or with one that has no line end: the loop
   goes round, and its recvfrom waits for the whole timeout again. *)
RecvOther ==
  /\ pc = "receiving"
  /\ heard' = 1 - heard
  /\ UNCHANGED << pc, only_igds, urls, head, url_comp, ucmp, found, ret, heap,
                  live, open, order, qualified >>

(* A LOCATION that is no URL ends the search; what was found stays with the
   caller. *)
RecvUnparsable ==
  /\ pc = "receiving"
  /\ pc' = "returned"
  /\ ret' = 1
  /\ heard' = 0
  /\ UNCHANGED << only_igds, urls, head, url_comp, ucmp, found, heap, live,
                  open, order, qualified >>

(* recvfrom returns nothing: silence for the whole timeout, an error, or an
   empty datagram. *)
RecvNothing ==
  /\ pc = "receiving"
  /\ pc' = "returned"
  /\ ret' = 0
  /\ heard' = 0
  /\ UNCHANGED << only_igds, urls, head, url_comp, ucmp, found, heap, live,
                  open, order, qualified >>

(* pmap_ut_free_url: the memory is gone, and what it held with it. *)
FreeUrl(n) ==
  /\ live' = live \ {n}
  /\ heap' = [heap EXCEPT ![n] = Blank]

(* What pmap_req_ctrlurl may return for a URL, and the control URL it then
   leaves in the buffer: 0 for a text with status 200, cut or whole, else 1.
   Without a descriptor left, its HTTP request fails. *)
ReqCtrlurl(u) ==
  {[ret |-> 1, ctrl |-> "none", fds |-> n] : n \in {open, open + 1} \cap 0 .. FdLimit}
  \cup
  (IF HaveSocket
   THEN {[ret |-> r, ctrl |-> "none", fds |-> open] : r \in 0 .. 1} \cup
        {[ret |-> r, ctrl |-> "control", fds |-> open] :
            r \in { s \in 0 .. 1 : u \in Igd }}
   ELSE {})

(* The buffer "tmp": the LOCATION, cleared, then the control URL if there is
   one. *)
LocationLeft == "location"                \* mutant: no memset
Cleared == "none"
Tmp(reply) == IF reply.ctrl # "none" THEN reply.ctrl ELSE Cleared

IsIgd(reply) == reply.ret = 0 /\ Tmp(reply) # "none"

(* The device is asked for its description; one that is no IGD is dropped. *)
Probe ==
  /\ pc = "probing"
  /\ \E reply \in ReqCtrlurl(heap[url_comp].url) :
       /\ open' = reply.fds
       /\ \/ /\ ~IsIgd(reply)
             /\ FreeUrl(url_comp)
             /\ url_comp' = 0
             /\ pc' = "receiving"
             /\ UNCHANGED << ucmp, found, qualified >>
          \/ /\ IsIgd(reply)
             /\ heap' = [heap EXCEPT ![url_comp].crtl_url = Tmp(reply)]
             /\ qualified' = qualified \cup {heap[url_comp].url}
             /\ pc' = "comparing" /\ ucmp' = urls /\ found' = 0
             /\ UNCHANGED << live, url_comp >>
  /\ UNCHANGED << only_igds, urls, head, heard, ret, order >>

(* The HTTP request writes to a socket whose connect() failed at once, which
   raises SIGPIPE. *)
Killed == HaveSocket /\ pc' = "killed"

ProbeKills ==
  /\ pc = "probing"
  /\ Killed
  /\ UNCHANGED << only_igds, urls, head, url_comp, ucmp, found, heard, ret,
                  heap, live, open, order, qualified >>

(* PMAP_COMPARE_URLCOMP *)
SameUrl(a, b) == a.host = b.host /\ a.path = b.path /\ a.port = b.port

FoundHere(u, v) ==                        \* mutant: "found" is not kept
  IF SameUrl(u, v) THEN 1 ELSE 0
FoundSoFar(u, v) == IF SameUrl(u, v) THEN 1 ELSE found

(* One turn of the comparison; it does not stop at the first equal node. *)
Compare ==
  /\ pc = "comparing"
  /\ ucmp # 0
  /\ found' = FoundSoFar(heap[ucmp].url, heap[url_comp].url)
  /\ ucmp' = heap[ucmp].next
  /\ UNCHANGED << pc, only_igds, urls, head, url_comp, heard, ret, heap, live,
                  open, order, qualified >>

KeepLast == IF head = 0 THEN url_comp ELSE head   \* mutant: "head" not moved
NewLast == url_comp

(* The new node becomes the last one of the list. *)
Insert ==
  /\ pc = "comparing"
  /\ ucmp = 0 /\ found = 0
  /\ heap' = IF head # 0 THEN [heap EXCEPT ![head].next = url_comp] ELSE heap
  /\ head' = NewLast
  /\ urls' = IF urls = 0 THEN url_comp ELSE urls
  /\ order' = Append(order, url_comp)
  /\ url_comp' = 0
  /\ pc' = "receiving"
  /\ UNCHANGED << only_igds, ucmp, found, heard, ret, live, open, qualified >>

(* An equal node is there already: the new one is freed. *)
Discard ==
  /\ pc = "comparing"
  /\ ucmp = 0 /\ found = 1
  /\ FreeUrl(url_comp)
  /\ url_comp' = 0
  /\ pc' = "receiving"
  /\ UNCHANGED << only_igds, urls, head, ucmp, found, heard, ret, open, order,
                  qualified >>

(* The datagrams that make the wait start anew. *)
KeepsWaiting == (\E u \in Url : RecvLocation(u)) \/ RecvOther
Announced == KeepsWaiting \/ RecvUnparsable
(* The steps that wait for no device. *)
SearchOn == RecvNothing \/ Probe \/ ProbeKills \/ Compare \/ Insert \/ Discard

-----------------------------------------------------------------------------
(* pmap_list_free *)

ListFree ==
  /\ pc = "returned"
  /\ pc' = "freeing"
  /\ ucmp' = urls
  /\ UNCHANGED << only_igds, urls, head, url_comp, found, heard, ret, heap,
                  live, open, order, qualified >>

NextAfterFree(n) == Blank.next            \* mutant: reads the node once freed
NextOf(n) == heap[n].next

FreeNext ==
  /\ pc = "freeing"
  /\ ucmp # 0
  /\ FreeUrl(ucmp)
  /\ ucmp' = NextOf(ucmp)
  /\ order' = Tail(order)
  /\ UNCHANGED << pc, only_igds, urls, head, url_comp, found, heard, ret, open,
                  qualified >>

(* The callers' variable ends with the free. *)
FreeDone ==
  /\ pc = "freeing"
  /\ ucmp = 0
  /\ pc' = "idle"
  /\ urls' = 0 /\ head' = 0 /\ qualified' = {}
  /\ UNCHANGED << only_igds, url_comp, ucmp, found, heard, ret, heap, live,
                  open, order >>

FreeStep == FreeNext \/ FreeDone

-----------------------------------------------------------------------------
(* Properties. *)

ListNodes == { order[i] : i \in DOMAIN order }
Searching == pc \in {"receiving", "probing", "comparing"}

(* The pointers of pmap_list_upnp (pmap_upnp.c:185-192) form one chain from
   *urls to "head", through the nodes inserted, in order, and it ends in
   NULL. *)
ListIsLinked ==
  /\ pc # "freeing" =>
       /\ urls = IF order = << >> THEN 0 ELSE order[1]
       /\ head = IF order = << >> THEN 0 ELSE order[Len(order)]
  /\ \A i \in DOMAIN order :
       heap[order[i]].next = IF i = Len(order) THEN 0 ELSE order[i + 1]

(* Every node allocated is in the list, or is the one being looked at; no
   node in use was freed, and none is left when the list is freed
   (pmap_upnp.c:162, 172, 195, 240-249). *)
NothingLeaks ==
  /\ pc # "killed" =>
       live = ListNodes \cup (IF pc \in {"probing", "comparing"} THEN {url_comp}
                                                                 ELSE {})
  /\ pc \in {"comparing", "freeing"} => ucmp \in ListNodes \cup {0}
  /\ pc = "idle" => live = {}

(* The list holds what was announced in this search and, for a search for
   IGDs, confirmed by a description with a control URL, which its node has: no
   more and no less, whatever the buffer held before (pmap_upnp.c:145-196). *)
QualifiedAreListed ==
  /\ pc \in {"receiving", "returned"} =>
       { heap[n].url : n \in ListNodes } = qualified
  /\ only_igds = PMAP_UPNP_LIST_IGD =>
       \A n \in ListNodes :
         heap[n].crtl_url = "control" /\ heap[n].url \in Igd

(* The linked list as the abstract list of module DeviceList. *)
Devices == INSTANCE DeviceList WITH
  searching <- Searching,
  list      <- IF pc \in {"idle", "freeing"} THEN << >>
               ELSE [i \in DOMAIN order |-> heap[order[i]].url]

(* The search builds a list without duplicates, in the order of discovery,
   and leaves it alone afterwards. *)
ImplementsDeviceList == Devices!Spec
=============================================================================
