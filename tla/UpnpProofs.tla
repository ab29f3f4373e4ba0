------------------------------ MODULE UpnpProofs ------------------------------
(***************************************************************************)
(* Theorems about Upnp for every value of its constants, checked by TLAPS. *)
(* The invariant is that of the search, SearchInv of DiscoveryProofs,      *)
(* together with what a call in progress may rely on.                      *)
(***************************************************************************)
EXTENDS Upnp, DiscoveryProofs

USE DiscoveryConstantsOK, UpnpConstantsOK
    DEF DiscoveryConstantsOK, UpnpConstantsOK, PMAP_UPNP_LIST_ALL,
        PMAP_UPNP_LIST_IGD

CallType ==
  /\ action \in {"add", "del", "exip"}
  /\ step \in {"none", "searching", "walking", "posting", "asked", "cleanup",
               "killed"}
  /\ ctrl_url \in Url \cup {NoUrl}
  /\ http_status \in {0, 1} \cup Code
  /\ result \in 0 .. 2
  /\ external_ip \in {"unset", "address"}
  /\ asked \in 0 .. 1
  /\ decided \in SUBSET Code
  /\ posted \in Seq(Url)

(* Where the search stands at each place of a call, and where the loop over
   its list is. *)
Place ==
  /\ step = "searching" =>
       pc \in {"receiving", "probing", "comparing", "returned", "killed"}
  /\ step \in {"walking", "posting", "asked"} => pc = "returned"
  /\ step = "walking" => ucmp \in ListNodes \cup {0}
  /\ step \in {"posting", "asked"} =>
       ucmp \in ListNodes /\ AtGateway(heap[ucmp].url)

(* A call has asked when its request was posted, nobody decides before, and
   the status is a decision or says that there is none. *)
Asking ==
  /\ step \in {"searching", "walking", "posting"} => asked = 0
  /\ asked = 0 => decided = {} /\ posted = << >>
  /\ http_status \in {0, 1} \cup decided
  /\ step # "none" => result = 2

(* A success was decided, and was decided once. *)
Granting ==
  /\ \A c, d \in decided : c = d
  /\ step = "none" /\ result = 0 => http_status = 200

UpnpInv ==
  SearchInv /\ CallType /\ Place /\ Asking /\ Granting /\ OnePostToGateway

-----------------------------------------------------------------------------
(* Steps that leave the call alone but for its place. *)

LEMMA UpnpInit ==
  ASSUME Init
  PROVE  UpnpInv
<1>1. SearchInv
  BY SearchInitInv DEF Init
<1>2. CallType
  <2>1. << >> \in Seq(Url)
    BY EmptySeq
  <2> QED BY <2>1 DEF Init, CallType
<1>3. Place /\ Asking /\ Granting
  BY DEF Init, Place, Asking, Granting
<1>4. OnePostToGateway
  <2>1. Len(<< >>) = 0 /\ DOMAIN << >> = {}
    BY EmptySeq
  <2> QED BY <2>1 DEF Init, OnePostToGateway
<1> QED BY <1>1, <1>2, <1>3, <1>4 DEF UpnpInv

(* The search moves while no call waits for its list. *)
LEMMA ListingKeeps ==
  ASSUME UpnpInv, Listing
  PROVE  UpnpInv' /\ (Devices!Next \/ UNCHANGED Devices!vars)
<1>1. step = "none" /\ SearchStep
  BY DEF Listing, ListAll, ListIgd, SearchStep
<1>2. UNCHANGED << action, step, ctrl_url, http_status, result, external_ip,
                   asked, decided, posted >>
  BY DEF Listing, call
<1>3. SearchInv' /\ (Devices!Next \/ UNCHANGED Devices!vars)
  BY <1>1, SearchStepKeeps DEF UpnpInv
<1>4. CallType' /\ Asking' /\ Granting' /\ OnePostToGateway'
  BY <1>2 DEF UpnpInv, CallType, Asking, Granting, OnePostToGateway
<1>5. Place'
  BY <1>1, <1>2 DEF Place
<1> QED BY <1>3, <1>4, <1>5 DEF UpnpInv

(* The search of a call in progress goes on. *)
LEMMA CallSearchKeeps ==
  ASSUME UpnpInv, CallHears \/ CallSearches
  PROVE  UpnpInv' /\ (Devices!Next \/ UNCHANGED Devices!vars)
<1>1. step = "searching" /\ SearchStep
  BY DEF CallHears, CallSearches, SearchStep
<1>2. UNCHANGED << action, step, ctrl_url, http_status, result, external_ip,
                   asked, decided, posted >>
  BY DEF CallHears, CallSearches, call
<1>3. SearchInv' /\ (Devices!Next \/ UNCHANGED Devices!vars)
  BY <1>1, SearchStepKeeps DEF UpnpInv
<1>4. CallType' /\ Asking' /\ Granting' /\ OnePostToGateway'
  BY <1>2 DEF UpnpInv, CallType, Asking, Granting, OnePostToGateway
<1>5. pc' \in {"receiving", "probing", "comparing", "returned", "killed"}
  BY DEF CallHears, CallSearches, Announced, KeepsWaiting, SearchOn,
         RecvLocation, RecvOther, RecvUnparsable, RecvNothing, Probe,
         ProbeKills, Killed, Compare, Insert, Discard, UpnpInv, Place
<1>6. Place'
  BY <1>1, <1>2, <1>5 DEF Place
<1> QED BY <1>3, <1>4, <1>6 DEF UpnpInv

(* The list is freed at the end of a call. *)
LEMMA CallFreesKeeps ==
  ASSUME UpnpInv, CallFrees
  PROVE  UpnpInv' /\ (Devices!Next \/ UNCHANGED Devices!vars)
<1>1. step = "cleanup" /\ SearchStep
  BY DEF CallFrees, SearchStep
<1>2. UNCHANGED << action, step, ctrl_url, http_status, result, external_ip,
                   asked, decided, posted >>
  BY DEF CallFrees, call
<1>3. SearchInv' /\ (Devices!Next \/ UNCHANGED Devices!vars)
  BY <1>1, SearchStepKeeps DEF UpnpInv
<1>4. CallType' /\ Asking' /\ Granting' /\ OnePostToGateway'
  BY <1>2 DEF UpnpInv, CallType, Asking, Granting, OnePostToGateway
<1>5. Place'
  BY <1>1, <1>2 DEF Place
<1> QED BY <1>3, <1>4, <1>5 DEF UpnpInv

LEMMA UpnpCallKeeps ==
  ASSUME UpnpInv, NEW a \in {"add", "del", "exip"}, UpnpCall(a)
  PROVE  UpnpInv' /\ (Devices!Next \/ UNCHANGED Devices!vars)
<1>1. /\ ListUpnp(0) /\ action' = a /\ step' = "searching" /\ ctrl_url' = NoUrl
      /\ http_status' = 0 /\ result' = 2 /\ external_ip' = "unset"
      /\ asked' = 0 /\ decided' = {} /\ posted' = << >>
  BY DEF UpnpCall
<1>2. SearchInv' /\ (Devices!Next \/ UNCHANGED Devices!vars)
  BY <1>1, SearchStepKeeps DEF UpnpInv, SearchStep
<1>3. << >> \in Seq(Url) /\ Len(<< >>) = 0 /\ DOMAIN << >> = {}
  BY EmptySeq
<1>4. CallType'
  BY <1>1, <1>3 DEF CallType
<1>5. pc' \in {"receiving", "returned"}
  BY <1>1 DEF ListUpnp, SearchFails, SearchStarts
<1>6. Place' /\ Asking' /\ Granting'
  BY <1>1, <1>5 DEF Place, Asking, Granting
<1>7. OnePostToGateway'
  BY <1>1, <1>3 DEF OnePostToGateway
<1> QED BY <1>2, <1>4, <1>6, <1>7 DEF UpnpInv

-----------------------------------------------------------------------------
(* The loop over the devices. *)

(* Every node of the list has a successor in it, or none. *)
LEMMA NextInList ==
  ASSUME SearchInv, NEW n \in ListNodes
  PROVE  heap[n].next \in ListNodes \cup {0}
<1>1. SearchType
  BY DEF SearchInv
<1>2. PICK i \in 1 .. Len(order) : n = order[i]
  BY <1>1, OrderType
<1>3. heap[n].next = IF i = Len(order) THEN 0 ELSE order[i + 1]
  BY <1>1, <1>2, OrderType DEF SearchInv, Chain, ListIsLinked
<1>4. Len(order) \in Nat
  BY <1>1, OrderType
<1>5. CASE i = Len(order)
  BY <1>3, <1>5
<1>6. CASE i # Len(order)
  <2>1. i + 1 \in 1 .. Len(order)
    BY <1>2, <1>4, <1>6
  <2> QED BY <1>1, <1>3, <1>6, <2>1, OrderType
<1> QED BY <1>5, <1>6

(* A step of the loop: the rest of the search is as it was. *)
LEMMA WalkKeeps ==
  ASSUME UpnpInv, pc = "returned", KeepList, pc' \in {"returned", "killed"},
         ucmp' \in ListNodes \cup {0}, open' \in 0 .. FdLimit
  PROVE  /\ SearchInv' /\ UNCHANGED Devices!vars
         /\ ListNodes' = ListNodes /\ UNCHANGED heap
<1>1. UNCHANGED << only_igds, urls, head, url_comp, found, heard, ret, heap,
                   live, order, qualified >>
  BY DEF KeepList
<1>2. ucmp' \in Node \cup {0}
  BY OrderType DEF UpnpInv, SearchInv
<1>3. SearchInv' /\ UNCHANGED Devices!vars
  BY <1>1, <1>2, UserKeeps DEF UpnpInv
<1>4. ListNodes' = ListNodes
  BY <1>1 DEF ListNodes
<1> QED BY <1>1, <1>3, <1>4

LEMMA SearchReturnsKeeps ==
  ASSUME UpnpInv, SearchReturns
  PROVE  UpnpInv' /\ UNCHANGED Devices!vars
<1>1. /\ step = "searching" /\ pc = "returned"
      /\ \/ step' = "cleanup" /\ UNCHANGED ucmp
         \/ step' = "walking" /\ ucmp' = urls
      /\ UNCHANGED << pc, only_igds, urls, head, url_comp, found, heard, ret,
                      heap, live, open, order, qualified, action, ctrl_url,
                      http_status, result, external_ip, asked, decided, posted >>
  BY DEF SearchReturns, CleanUp
<1>2. SearchType
  BY DEF UpnpInv, SearchInv
<1>3. urls \in ListNodes \cup {0}
  BY <1>1, <1>2, OrderType DEF UpnpInv, SearchInv, Chain, ListIsLinked
<1>4. SearchInv' /\ UNCHANGED Devices!vars
  BY <1>1, <1>2, UserKeeps DEF UpnpInv, SearchType
<1>5. ListNodes' = ListNodes
  BY <1>1 DEF ListNodes
<1>6. CallType' /\ Asking' /\ Granting' /\ OnePostToGateway'
  BY <1>1 DEF UpnpInv, CallType, Asking, Granting, OnePostToGateway
<1>7. Place'
  BY <1>1, <1>3, <1>5 DEF Place
<1> QED BY <1>4, <1>6, <1>7 DEF UpnpInv

LEMMA SkipDeviceKeeps ==
  ASSUME UpnpInv, SkipDevice
  PROVE  UpnpInv' /\ UNCHANGED Devices!vars
<1>1. /\ step = "walking" /\ ucmp # 0 /\ ucmp' = heap[ucmp].next
      /\ KeepList /\ UNCHANGED << pc, open >>
      /\ UNCHANGED << action, step, ctrl_url, http_status, result, external_ip,
                      asked, decided, posted >>
  BY DEF SkipDevice, NextDevice, KeepSearch, call
<1>2. pc = "returned" /\ ucmp \in ListNodes /\ UNCHANGED pc
  BY <1>1 DEF UpnpInv, Place
<1>3. ucmp' \in ListNodes \cup {0} /\ open' \in 0 .. FdLimit
  BY <1>1, <1>2, NextInList DEF UpnpInv, SearchInv, SearchType
<1>4. SearchInv' /\ UNCHANGED Devices!vars /\ ListNodes' = ListNodes
  BY <1>1, <1>2, <1>3, WalkKeeps
<1>5. CallType' /\ Asking' /\ Granting' /\ OnePostToGateway'
  BY <1>1 DEF UpnpInv, CallType, Asking, Granting, OnePostToGateway
<1>6. Place'
  BY <1>1, <1>2, <1>3, <1>4 DEF Place
<1> QED BY <1>4, <1>5, <1>6 DEF UpnpInv

LEMMA DescribeDeviceKeeps ==
  ASSUME UpnpInv, DescribeDevice
  PROVE  UpnpInv' /\ UNCHANGED Devices!vars
<1>1. /\ step = "walking" /\ ucmp # 0 /\ AtGateway(heap[ucmp].url)
      /\ KeepList /\ UNCHANGED pc
      /\ UNCHANGED << action, result, external_ip, asked, decided, posted >>
  BY DEF DescribeDevice, KeepSearch
<1>2. PICK reply \in ReqCtrlurl(heap[ucmp].url) :
        /\ open' = reply.fds
        /\ http_status' = reply.ret
        /\ ctrl_url' = IF reply.ctrl # "none" THEN heap[ucmp].url ELSE ctrl_url
        /\ \/ step' = "posting" /\ UNCHANGED ucmp
           \/ ucmp' = heap[ucmp].next /\ UNCHANGED step
  BY DEF DescribeDevice, NextDevice
<1>3. pc = "returned" /\ ucmp \in ListNodes /\ SearchType /\ UNCHANGED pc
  BY <1>1 DEF UpnpInv, Place, SearchInv, KeepSearch
<1>4. open' \in 0 .. FdLimit /\ http_status' \in 0 .. 1
  BY <1>2, <1>3, ReplyType
<1>5. ucmp' \in ListNodes \cup {0}
  BY <1>2, <1>3, NextInList DEF UpnpInv
<1>6. SearchInv' /\ UNCHANGED Devices!vars /\ ListNodes' = ListNodes
      /\ UNCHANGED heap
  BY <1>1, <1>3, <1>4, <1>5, WalkKeeps
<1>7. heap[ucmp].url \in Url \cup {NoUrl}
  BY <1>3, OrderType DEF SearchType, HeapNode
<1>8. http_status' \in {0, 1}
  BY <1>4
<1>9. CallType'
  BY <1>1, <1>2, <1>7, <1>8 DEF UpnpInv, CallType
<1>10. Place'
  BY <1>1, <1>2, <1>3, <1>5, <1>6 DEF Place
<1>11. Asking' /\ Granting' /\ OnePostToGateway'
  BY <1>1, <1>2, <1>8 DEF UpnpInv, Asking, Granting, OnePostToGateway
<1> QED BY <1>6, <1>9, <1>10, <1>11 DEF UpnpInv

(* The loop is left without a request, or with one that was not sent. *)
LEMMA NothingPostedKeeps ==
  ASSUME UpnpInv, NoDevice \/ PostFails
  PROVE  UpnpInv' /\ UNCHANGED Devices!vars
<1>1. /\ step \in {"walking", "posting"} /\ step' = "cleanup"
      /\ KeepList /\ UNCHANGED << pc, ucmp >>
      /\ open' = open \/ open' \in {open, open + 1} \cap 0 .. FdLimit
      /\ UNCHANGED << action, ctrl_url, http_status, result, external_ip, asked,
                      decided, posted >>
  BY DEF NoDevice, PostFails, CleanUp, KeepSearch, KeepList, search
<1>2. pc = "returned" /\ ucmp' \in ListNodes \cup {0} /\ UNCHANGED pc
  BY <1>1 DEF UpnpInv, Place
<1>3. open' \in 0 .. FdLimit
  BY <1>1 DEF UpnpInv, SearchInv, SearchType
<1>4. SearchInv' /\ UNCHANGED Devices!vars
  BY <1>1, <1>2, <1>3, WalkKeeps
<1>5. CallType' /\ Place'
  BY <1>1 DEF UpnpInv, CallType, Place
<1>6. Asking' /\ Granting' /\ OnePostToGateway'
  BY <1>1 DEF UpnpInv, Asking, Granting, OnePostToGateway
<1> QED BY <1>4, <1>5, <1>6 DEF UpnpInv

(* A request ends the process: the state is left as it is. *)
LEMMA CallKilledKeeps ==
  ASSUME UpnpInv, CallKilled
  PROVE  UpnpInv' /\ UNCHANGED Devices!vars
<1>1. /\ step \in {"walking", "posting"} /\ step' = "killed" /\ pc' = "killed"
      /\ KeepList
      /\ UNCHANGED << ucmp, open, action, ctrl_url, http_status, result,
                      external_ip, asked, decided, posted >>
  BY DEF CallKilled, Killed
<1>2. /\ pc = "returned" /\ ucmp' \in ListNodes \cup {0}
      /\ open' \in 0 .. FdLimit
  BY <1>1 DEF UpnpInv, Place, SearchInv, SearchType
<1>3. SearchInv' /\ UNCHANGED Devices!vars
  BY <1>1, <1>2, WalkKeeps
<1>4. CallType' /\ Place'
  BY <1>1 DEF UpnpInv, CallType, Place
<1>5. Asking' /\ Granting' /\ OnePostToGateway'
  BY <1>1 DEF UpnpInv, Asking, Granting, OnePostToGateway
<1> QED BY <1>3, <1>4, <1>5 DEF UpnpInv

LEMMA PostIsSentKeeps ==
  ASSUME UpnpInv, PostIsSent
  PROVE  UpnpInv' /\ UNCHANGED Devices!vars
<1>1. /\ step = "posting" /\ step' = "asked" /\ asked' = 1
      /\ posted' = Append(posted, heap[ucmp].url)
      /\ UNCHANGED << search, action, ctrl_url, http_status, result, external_ip,
                      decided >>
  BY DEF PostIsSent
<1>2. SearchInv' /\ UNCHANGED Devices!vars
  BY <1>1, SearchRests DEF UpnpInv
<1>3. /\ posted = << >> /\ asked = 0
      /\ ucmp \in ListNodes /\ AtGateway(heap[ucmp].url)
  BY <1>1 DEF UpnpInv, Asking, Place
<1>4. heap[ucmp].url \in Url
  BY <1>3 DEF UpnpInv, SearchInv, Once, ListNodes
<1>5. /\ posted' \in Seq(Url) /\ Len(posted') = 1
      /\ DOMAIN posted' = {1} /\ posted'[1] = heap[ucmp].url
  BY <1>1, <1>3, <1>4, AppendProperties, EmptySeq, LenProperties
<1>6. UNCHANGED << pc, ucmp, heap, order >> /\ ListNodes' = ListNodes
  BY <1>1 DEF search, ListNodes
<1>7. CallType'
  BY <1>1, <1>5 DEF UpnpInv, CallType
<1>8. Place'
  BY <1>1, <1>3, <1>6 DEF UpnpInv, Place
<1>9. Asking' /\ Granting'
  BY <1>1, <1>3 DEF UpnpInv, Asking, Granting
<1>10. OnePostToGateway'
  BY <1>3, <1>5 DEF OnePostToGateway, AtGateway
<1> QED BY <1>2, <1>7, <1>8, <1>9, <1>10 DEF UpnpInv

LEMMA PostReturnsKeeps ==
  ASSUME UpnpInv, PostReturns
  PROVE  UpnpInv' /\ UNCHANGED Devices!vars
<1>1. /\ step = "asked" /\ step' = "cleanup" /\ http_status' \in {0} \cup decided
      /\ KeepList /\ UNCHANGED pc
      /\ UNCHANGED << open, ucmp, action, ctrl_url, result, external_ip, asked,
                      decided, posted >>
  BY DEF PostReturns, LeaveLoop, CleanUp, KeepSearch
<1>2. /\ pc = "returned" /\ ucmp' \in ListNodes \cup {0} /\ UNCHANGED pc
      /\ open' \in 0 .. FdLimit
  BY <1>1 DEF UpnpInv, Place, SearchInv, SearchType
<1>3. SearchInv' /\ UNCHANGED Devices!vars
  BY <1>1, <1>2, WalkKeeps
<1>4. CallType' /\ Place'
  BY <1>1 DEF UpnpInv, CallType, Place
<1>5. Asking' /\ Granting' /\ OnePostToGateway'
  BY <1>1 DEF UpnpInv, Asking, Granting, OnePostToGateway
<1> QED BY <1>3, <1>4, <1>5 DEF UpnpInv

LEMMA ReturnKeeps ==
  ASSUME UpnpInv, Return
  PROVE  UpnpInv' /\ UNCHANGED Devices!vars
<1>1. /\ step = "cleanup" /\ step' = "none"
      /\ result' = IF http_status = 200 THEN 0 ELSE 1
      /\ external_ip' \in {external_ip, "address"}
      /\ UNCHANGED << search, action, ctrl_url, http_status, asked, decided,
                      posted >>
  BY DEF Return, Succeeded
<1>2. SearchInv' /\ UNCHANGED Devices!vars
  BY <1>1, SearchRests DEF UpnpInv
<1>3. result' \in 0 .. 2 /\ (result' = 0 => http_status = 200)
  BY <1>1
<1>4. CallType' /\ Place'
  BY <1>1, <1>3 DEF UpnpInv, CallType, Place
<1>5. Asking' /\ Granting' /\ OnePostToGateway'
  BY <1>1, <1>3 DEF UpnpInv, Asking, Granting, OnePostToGateway
<1> QED BY <1>2, <1>4, <1>5 DEF UpnpInv

LEMMA EndpointKeeps ==
  ASSUME UpnpInv, EndpointDecides
  PROVE  UpnpInv' /\ UNCHANGED Devices!vars
<1>1. /\ asked = 1 /\ decided = {}
      /\ UNCHANGED << search, action, step, ctrl_url, http_status, result,
                      external_ip, asked, posted >>
  BY DEF EndpointDecides
<1>2. PICK c \in Code : decided' = {c}
  BY DEF EndpointDecides
<1>3. SearchInv' /\ UNCHANGED Devices!vars
  BY <1>1, SearchRests DEF UpnpInv
<1>4. CallType' /\ OnePostToGateway'
  BY <1>1, <1>2 DEF UpnpInv, CallType, OnePostToGateway
<1>5. UNCHANGED << pc, ucmp, heap >> /\ ListNodes' = ListNodes
  BY <1>1 DEF search, ListNodes
<1>6. Place'
  BY <1>1, <1>5 DEF UpnpInv, Place
<1>7. Asking' /\ Granting'
  BY <1>1, <1>2 DEF UpnpInv, Asking, Granting
<1> QED BY <1>3, <1>4, <1>6, <1>7 DEF UpnpInv

LEMMA UpnpRests ==
  ASSUME UpnpInv, UNCHANGED vars
  PROVE  UpnpInv' /\ UNCHANGED Devices!vars
<1>1. UNCHANGED search /\
      UNCHANGED << action, step, ctrl_url, http_status, result, external_ip,
                   asked, decided, posted >>
  BY DEF vars, call
<1>2. SearchInv' /\ UNCHANGED Devices!vars
  BY <1>1, SearchRests DEF UpnpInv
<1>3. UNCHANGED << pc, ucmp, heap >> /\ ListNodes' = ListNodes
  BY <1>1 DEF search, ListNodes
<1>4. CallType' /\ Asking' /\ Granting' /\ OnePostToGateway'
  BY <1>1 DEF UpnpInv, CallType, Asking, Granting, OnePostToGateway
<1>5. Place'
  BY <1>1, <1>3 DEF UpnpInv, Place
<1> QED BY <1>2, <1>4, <1>5 DEF UpnpInv

(* Every step keeps the invariant, and is a step of DeviceList or invisible
   there. *)
LEMMA UpnpStep ==
  ASSUME UpnpInv, [Next]_vars
  PROVE  UpnpInv' /\ (Devices!Next \/ UNCHANGED Devices!vars)
<1>1. CASE Listing
  BY <1>1, ListingKeeps
<1>2. ASSUME NEW a \in {"add", "del", "exip"}, UpnpCall(a)
      PROVE  UpnpInv' /\ (Devices!Next \/ UNCHANGED Devices!vars)
  BY <1>2, UpnpCallKeeps
<1>3. CASE CallHears \/ CallSearches
  BY <1>3, CallSearchKeeps
<1>4. CASE \/ SearchReturns \/ SkipDevice \/ DescribeDevice \/ NoDevice
           \/ PostFails \/ CallKilled
  BY <1>4, SearchReturnsKeeps, SkipDeviceKeeps, DescribeDeviceKeeps,
     NothingPostedKeeps, CallKilledKeeps
<1>5. CASE PostIsSent \/ PostReturns \/ Return
  BY <1>5, PostIsSentKeeps, PostReturnsKeeps, ReturnKeeps
<1>6. CASE CallFrees
  BY <1>6, CallFreesKeeps
<1>7. CASE EndpointDecides
  BY <1>7, EndpointKeeps
<1>8. CASE UNCHANGED vars
  BY <1>8, UpnpRests
<1> QED BY <1>1, <1>2, <1>3, <1>4, <1>5, <1>6, <1>7, <1>8 DEF Next, CallStep

-----------------------------------------------------------------------------
(* The theorems. *)

(* The inductive invariant holds always. *)
THEOREM UpnpInvariant == Spec => []UpnpInv
<1>1. Init => UpnpInv
  BY UpnpInit
<1>2. UpnpInv /\ [Next]_vars => UpnpInv'
  BY UpnpStep
<1> QED BY <1>1, <1>2, PTL DEF Spec

(* Every pointer is a node or NULL, every node holds a URL, descriptors stay
   within the limit: the state of search and call is well typed. *)
THEOREM UpnpTypeCorrect == Spec => []TypeOK
<1>1. UpnpInv => TypeOK
  BY DEF UpnpInv, SearchInv, SearchType, HeapNode, CallType, TypeOK
<1> QED BY <1>1, UpnpInvariant, PTL

(* However devices repeat and interleave their announcements, the pointers
   of pmap_list_upnp form one chain that ends in NULL. *)
THEOREM ListStaysLinked == Spec => []ListIsLinked
<1>1. UpnpInv => ListIsLinked
  BY DEF UpnpInv, SearchInv, Chain
<1> QED BY <1>1, UpnpInvariant, PTL

(* Every node is owned by the list or in hand, none is freed twice or used
   after, and all are freed in the end. *)
THEOREM MemoryIsOwned == Spec => []NothingLeaks
<1>1. UpnpInv => NothingLeaks
  BY DEF UpnpInv, SearchInv, Chain
<1> QED BY <1>1, UpnpInvariant, PTL

(* The list holds exactly what qualified in this search. *)
THEOREM ListHoldsQualified == Spec => []QualifiedAreListed
<1>1. UpnpInv => QualifiedAreListed
  BY DEF UpnpInv, SearchInv, Qualify, QualifiedAreListed
<1> QED BY <1>1, UpnpInvariant, PTL

(* One SOAP request per call at most, and to the gateway's address only. *)
THEOREM PostsOnceToGateway == Spec => []OnePostToGateway
<1>1. UpnpInv => OnePostToGateway
  BY DEF UpnpInv
<1> QED BY <1>1, UpnpInvariant, PTL

(* The search implements the abstract list of DeviceList. *)
THEOREM SearchBuildsList == Spec => ImplementsDeviceList
<1>1. Init => Devices!Init
  BY SearchInitInv DEF Init
<1>2. UpnpInv /\ [Next]_vars => [Devices!Next]_(Devices!vars)
  BY UpnpStep
<1> QED BY <1>1, <1>2, UpnpInvariant, PTL
        DEF Spec, ImplementsDeviceList, Devices!Spec

-----------------------------------------------------------------------------
(* The refinement of RemoteCall.  The caller's view of a state: *)

CallStatus == IF step # "none" \/ result = 2 THEN "none"
              ELSE IF result = 0 THEN "decided"
              ELSE IF asked = 0 THEN "not sent" ELSE "unknown"
CallTold   == IF step = "none" /\ result = 0 THEN {200} ELSE {}

LEMMA UpnpPromiseBegins ==
  ASSUME NEW a \in {"add", "del", "exip"}, UpnpCall(a)
  PROVE  Promise!Begin
<1>1. step = "none" /\ step' = "searching" /\ decided' = {}
  BY DEF UpnpCall
<1>2. CallStatus' = "none" /\ CallTold' = {}
  BY <1>1 DEF CallStatus, CallTold
<1> QED BY <1>1, <1>2 DEF Promise!Begin, CallStatus, CallTold

LEMMA UpnpPromiseFinishes ==
  ASSUME UpnpInv, Return
  PROVE  Promise!Finish
<1>1. /\ step = "cleanup" /\ step' = "none"
      /\ result' = IF http_status = 200 THEN 0 ELSE 1
      /\ UNCHANGED << http_status, asked, decided >>
  BY DEF Return, Succeeded
<1>2. asked \in 0 .. 1 /\ http_status \in {0, 1} \cup decided
      /\ (asked = 0 => decided = {})
  BY DEF UpnpInv, CallType, Asking
<1>3. CASE http_status = 200
  <2>1. 200 \in decided
    BY <1>2, <1>3
  <2>2. CallStatus' = "decided" /\ CallTold' = {200}
    BY <1>1, <1>3 DEF CallStatus, CallTold
  <2> QED BY <1>1, <2>1, <2>2 DEF Promise!Finish, CallStatus, CallTold
<1>4. CASE http_status # 200
  <2>1. result' = 1 /\ CallTold' = {}
    BY <1>1, <1>4 DEF CallTold
  <2>2. CASE asked = 0
    <3>1. CallStatus' = "not sent" /\ decided = {}
      BY <1>1, <1>2, <2>1, <2>2 DEF CallStatus
    <3> QED BY <1>1, <2>1, <3>1 DEF Promise!Finish, CallStatus, CallTold
  <2>3. CASE asked = 1
    <3>1. CallStatus' = "unknown"
      BY <1>1, <2>1, <2>3 DEF CallStatus
    <3> QED BY <1>1, <2>1, <3>1 DEF Promise!Finish, CallStatus, CallTold
  <2> QED BY <1>2, <2>2, <2>3
<1> QED BY <1>3, <1>4

LEMMA UpnpPromiseDecides ==
  ASSUME UpnpInv, EndpointDecides
  PROVE  Promise!Decide
<1>1. asked = 1 /\ decided = {} /\ UNCHANGED << step, result, asked >>
  BY DEF EndpointDecides
<1>2. PICK c \in Code : decided' = {c}
  BY DEF EndpointDecides
<1>3. CallStatus # "not sent" /\ CallStatus' = CallStatus /\ CallTold' = CallTold
  BY <1>1 DEF CallStatus, CallTold
<1> QED BY <1>1, <1>2, <1>3 DEF Promise!Decide, CallStatus, CallTold

(* The steps within a call, and those between calls, are invisible. *)
LEMMA UpnpPromiseStutters ==
  ASSUME UNCHANGED decided,
         \/ step # "none" /\ step' # "none"
         \/ UNCHANGED << step, result, asked >>
  PROVE  UNCHANGED Promise!vars
<1>1. (step # "none")' = (step # "none")
  OBVIOUS
<1>2. CallStatus' = CallStatus /\ CallTold' = CallTold
  BY DEF CallStatus, CallTold
<1> QED BY <1>1, <1>2 DEF Promise!vars, CallStatus, CallTold

LEMMA UpnpPromiseStep ==
  ASSUME UpnpInv, [Next]_vars
  PROVE  [Promise!Next]_(Promise!vars)
<1> USE DEF Promise!Next
<1>1. CASE Listing \/ UNCHANGED vars
  <2>1. UNCHANGED << step, result, asked, decided >>
    BY <1>1 DEF Listing, vars, call
  <2> QED BY <2>1, UpnpPromiseStutters
<1>2. ASSUME NEW a \in {"add", "del", "exip"}, UpnpCall(a)
      PROVE  Promise!Next
  BY <1>2, UpnpPromiseBegins
<1>3. CASE CallHears \/ CallSearches \/ CallFrees
  <2>1. UNCHANGED << step, result, asked, decided >>
    BY <1>3 DEF CallHears, CallSearches, CallFrees, call
  <2> QED BY <2>1, UpnpPromiseStutters
<1>4. CASE SearchReturns \/ SkipDevice \/ DescribeDevice
  <2>1. step # "none" /\ step' # "none" /\ UNCHANGED decided
    BY <1>4 DEF SearchReturns, CleanUp, SkipDevice, DescribeDevice, call
  <2> QED BY <2>1, UpnpPromiseStutters
<1>5. CASE NoDevice \/ PostFails \/ CallKilled \/ PostIsSent \/ PostReturns
  <2>1. step # "none" /\ step' # "none" /\ UNCHANGED decided
    BY <1>5 DEF NoDevice, PostFails, CallKilled, PostIsSent, PostReturns,
                LeaveLoop, CleanUp
  <2> QED BY <2>1, UpnpPromiseStutters
<1>6. CASE Return
  BY <1>6, UpnpPromiseFinishes
<1>7. CASE EndpointDecides
  BY <1>7, UpnpPromiseDecides
<1> QED BY <1>1, <1>2, <1>3, <1>4, <1>5, <1>6, <1>7 DEF Next, CallStep

(* The UPnP calls implement the abstract call of RemoteCall. *)
THEOREM UpnpKeepsPromise == Spec => ImplementsPromise
<1>1. ASSUME Init PROVE Promise!Init
  <2>1. step = "none" /\ decided = {} /\ CallStatus = "none" /\ CallTold = {}
    BY <1>1 DEF Init, CallStatus, CallTold
  <2> QED BY <2>1 DEF Promise!Init, CallStatus, CallTold
<1>2. UpnpInv /\ [Next]_vars => [Promise!Next]_(Promise!vars)
  BY UpnpPromiseStep
<1> QED BY <1>1, <1>2, UpnpInvariant, PTL
        DEF Spec, ImplementsPromise, Promise!Spec
=============================================================================
