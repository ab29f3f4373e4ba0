--------------------------- MODULE DiscoveryProofs ---------------------------
(***************************************************************************)
(* What each step of the search for devices preserves, for every set of    *)
(* nodes and URLs, checked by TLAPS.  SearchInv says where each pointer    *)
(* points at each place of the code; module UpnpProofs composes the lemmas *)
(* into theorems about the specification.                                  *)
(***************************************************************************)
EXTENDS Discovery, SequenceTheorems, WellFoundedInduction, TLAPS

-----------------------------------------------------------------------------
(* The inductive invariant, as far as the search goes. *)

HeapNode == [url : Url \cup {NoUrl}, crtl_url : {"none", "location", "control"},
             next : Node \cup {0}]

SearchType ==
  /\ pc \in {"idle", "receiving", "probing", "comparing", "returned",
             "freeing", "killed"}
  /\ only_igds \in 0 .. 1 /\ found \in 0 .. 1 /\ heard \in 0 .. 1
  /\ ret \in 0 .. 1
  /\ urls \in Node \cup {0} /\ head \in Node \cup {0}
  /\ url_comp \in Node \cup {0} /\ ucmp \in Node \cup {0}
  /\ heap \in [Node -> HeapNode]
  /\ live \in SUBSET Node
  /\ open \in 0 .. FdLimit
  /\ order \in Seq(Node)
  /\ qualified \in SUBSET Url

InHand == pc \in {"probing", "comparing"}

(* No node stands twice in the list, and the one in hand is not in it. *)
Apart ==
  /\ \A i, j \in DOMAIN order : order[i] = order[j] => i = j
  /\ InHand => url_comp \in Node /\ url_comp \notin ListNodes
               /\ heap[url_comp].next = 0

(* pmap_list_free is at the first node that is left. *)
AtFirst == pc = "freeing" => ucmp = IF order = << >> THEN 0 ELSE order[1]

Chain == ListIsLinked /\ NothingLeaks /\ Apart /\ AtFirst

(* The URLs of the list are what devices announced, each of them once. *)
Once ==
  /\ \A i \in DOMAIN order : heap[order[i]].url \in Url
  /\ InHand => heap[url_comp].url \in Url
  /\ \A i, j \in DOMAIN order : heap[order[i]].url = heap[order[j]].url => i = j

(* The comparison has a first part of the list behind it, and "found" tells
   whether an equal URL was there. *)
Cursor ==
  pc = "comparing" =>
    \E k \in 1 .. Len(order) + 1 :
      /\ ucmp = IF k = Len(order) + 1 THEN 0 ELSE order[k]
      /\ found = 1 <=> \E i \in 1 .. k - 1 :
                         heap[order[i]].url = heap[url_comp].url

(* What was announced, and for IGDs confirmed, is in the list or in hand. *)
Qualify ==
  /\ pc \in {"receiving", "probing", "returned"} =>
       { heap[n].url : n \in ListNodes } = qualified
  /\ pc = "comparing" =>
       { heap[n].url : n \in ListNodes \cup {url_comp} } = qualified
  /\ pc = "idle" => qualified = {}
  /\ only_igds = PMAP_UPNP_LIST_IGD =>
       \A n \in ListNodes \cup (IF pc = "comparing" THEN {url_comp} ELSE {}) :
         heap[n].crtl_url = "control" /\ heap[n].url \in Igd

SearchInv == SearchType /\ Chain /\ Once /\ Cursor /\ Qualify

USE DiscoveryConstantsOK DEF DiscoveryConstantsOK, PMAP_UPNP_LIST_ALL, PMAP_UPNP_LIST_IGD

-----------------------------------------------------------------------------
(* Facts about the pieces. *)

(* malloc finds a node when there is one. *)
LEMMA LowestIsThere ==
  ASSUME NEW S \in SUBSET Node, S # {}
  PROVE  Lowest(S) \in S
<1> DEFINE Less == OpToRel(<, Nat)
<1>1. S \subseteq Nat
  OBVIOUS
<1>2. \A i, j \in Nat : i < j => << i, j >> \in Less
  BY DEF OpToRel
<1>3. IsWellFoundedOn(Less, Nat)
  BY NatLessThanWellFounded
<1> HIDE DEF Less
<1>4. PICK n \in S : \A m \in S : ~ (<< m, n >> \in Less)
  BY <1>1, <1>3, WFMin
<1>5. \A m \in S : n <= m
  <2>1. SUFFICES ASSUME NEW m \in S, m < n PROVE FALSE
    BY <1>1
  <2> QED BY <1>1, <1>2, <1>4, <2>1
<1> QED BY <1>5 DEF Lowest

(* The domain and the nodes of the list. *)
LEMMA OrderType ==
  ASSUME SearchType
  PROVE  /\ Len(order) \in Nat
         /\ DOMAIN order = 1 .. Len(order)
         /\ \A i \in 1 .. Len(order) : order[i] \in Node
         /\ ListNodes = { order[i] : i \in 1 .. Len(order) }
         /\ ListNodes \subseteq Node
         /\ order = << >> <=> Len(order) = 0
  BY DEF SearchType, ListNodes

(* URLs that agree in host, port and path are the same. *)
LEMMA SameIsEqual ==
  ASSUME NEW u \in Url, NEW v \in Url
  PROVE  SameUrl(u, v) <=> u = v
  BY DEF SameUrl

(* A step that touches no node of the list, nor the pointers to it. *)
ListUntouched ==
  /\ UNCHANGED << urls, head, order >>
  /\ \A i \in DOMAIN order : heap'[order[i]] = heap[order[i]]

(* Such a step keeps the chain and its URLs. *)
LEMMA UntouchedChain ==
  ASSUME SearchType, ListIsLinked, pc # "freeing", ListUntouched
  PROVE  ListIsLinked'
<1>1. \A i \in DOMAIN order : order[i] \in Node
  BY OrderType
<1> QED BY <1>1 DEF ListIsLinked, ListUntouched

-----------------------------------------------------------------------------
(* The steps of the receive loop. *)

LEMMA RecvLocationKeeps ==
  ASSUME SearchInv, NEW u \in Url, RecvLocation(u)
  PROVE  SearchInv' /\ ListUntouched
<1> DEFINE n == Lowest(FreeNodes)
           new == [url |-> u, crtl_url |-> "none", next |-> 0]
<1>1. n \in Node /\ n \notin live
  BY LowestIsThere DEF RecvLocation, FreeNodes
<1>2. /\ pc = "receiving"
      /\ url_comp' = n
      /\ live' = live \cup {n}
      /\ heap' = [heap EXCEPT ![n] = new]
      /\ heard' = 0
      /\ UNCHANGED << only_igds, urls, head, ret, open, order >>
  BY DEF RecvLocation
<1>3. \/ /\ pc' = "probing" /\ only_igds = 1
         /\ UNCHANGED << ucmp, found, qualified >>
      \/ /\ pc' = "comparing" /\ only_igds # 1
         /\ ucmp' = urls /\ found' = 0 /\ qualified' = qualified \cup {u}
  BY DEF RecvLocation
<1> HIDE DEF n
<1>4. SearchType
  BY DEF SearchInv
<1>5. new \in HeapNode
  BY DEF HeapNode
<1>6. SearchType'
  BY <1>1, <1>2, <1>3, <1>4, <1>5 DEF SearchType
<1>7. n \notin ListNodes /\ live = ListNodes
  BY <1>1, <1>2 DEF SearchInv, Chain, NothingLeaks
<1>8. ListUntouched /\ ListNodes' = ListNodes /\ heap'[n] = new
  BY <1>1, <1>2, <1>4, <1>7, OrderType DEF ListUntouched, ListNodes, SearchType
<1>9. ListIsLinked'
  BY <1>2, <1>4, <1>8, UntouchedChain DEF SearchInv, Chain
<1>10. urls \in ListNodes \cup {0}
  BY <1>2, <1>4, OrderType DEF SearchInv, Chain, ListIsLinked
<1>11. NothingLeaks'
  BY <1>2, <1>3, <1>7, <1>8, <1>10 DEF NothingLeaks
<1>12. Apart' /\ AtFirst'
  BY <1>1, <1>2, <1>3, <1>7, <1>8 DEF SearchInv, Chain, Apart, AtFirst, InHand
<1>13. Once'
  BY <1>2, <1>8 DEF SearchInv, Once, InHand, ListUntouched
<1>14. Cursor'
  <2>1. SUFFICES ASSUME pc' = "comparing"
                 PROVE  \E k \in 1 .. Len(order) + 1 :
                          /\ ucmp' = IF k = Len(order) + 1 THEN 0 ELSE order[k]
                          /\ found' = 1 <=>
                               \E i \in 1 .. k - 1 :
                                 heap'[order[i]].url = heap'[url_comp'].url
    BY <1>2 DEF Cursor
  <2>2. ucmp' = urls /\ found' = 0
    BY <1>3, <2>1
  <2>3. urls = IF 1 = Len(order) + 1 THEN 0 ELSE order[1]
    BY <1>2, <1>4, OrderType DEF SearchInv, Chain, ListIsLinked
  <2>4. Len(order) \in Nat
    BY <1>4, OrderType
  <2>5. 1 \in 1 .. Len(order) + 1 /\ 1 .. 1 - 1 = {}
    BY <2>4
  <2> QED BY <2>2, <2>3, <2>5
<1>15. Qualify'
  <2>1. \A m \in ListNodes : heap'[m] = heap[m]
    BY <1>8 DEF ListUntouched, ListNodes
  <2>2. { heap'[m].url : m \in ListNodes } = qualified
    BY <1>2, <2>1 DEF SearchInv, Qualify
  <2>3. { heap'[m].url : m \in ListNodes \cup {n} } = qualified \cup {u}
    BY <1>8, <2>2
  <2> QED BY <1>2, <1>3, <1>8, <2>1, <2>2, <2>3 DEF SearchInv, Qualify
<1> QED BY <1>6, <1>8, <1>9, <1>11, <1>12, <1>13, <1>14, <1>15 DEF SearchInv, Chain

(* The receive loop ends, with a success or not. *)
LEMMA SearchEndKeeps ==
  ASSUME SearchInv, RecvUnparsable \/ RecvNothing
  PROVE  SearchInv' /\ ListUntouched
<1>1. /\ pc = "receiving" /\ pc' = "returned" /\ ret' \in 0 .. 1 /\ heard' = 0
      /\ UNCHANGED << only_igds, urls, head, url_comp, ucmp, found, heap, live,
                      open, order, qualified >>
  BY DEF RecvUnparsable, RecvNothing
<1>2. SearchType'
  BY <1>1 DEF SearchInv, SearchType
<1>3. Chain'
  BY <1>1 DEF SearchInv, Chain, ListIsLinked, NothingLeaks, Apart, AtFirst,
              InHand, ListNodes
<1>4. Once' /\ Cursor' /\ Qualify'
  BY <1>1 DEF SearchInv, Once, Cursor, Qualify, InHand, ListNodes
<1> QED BY <1>1, <1>2, <1>3, <1>4 DEF SearchInv, ListUntouched

(* Something else is received, or the program is killed during a probe:
   nothing but the place changes. *)
LEMMA PlaceKeeps ==
  ASSUME SearchInv, RecvOther \/ ProbeKills
  PROVE  SearchInv' /\ ListUntouched
<1>1. /\ \/ pc = "receiving" /\ pc' = "receiving"
         \/ pc = "probing" /\ pc' = "killed"
      /\ heard' = heard \/ heard' = 1 - heard
      /\ UNCHANGED << only_igds, urls, head, url_comp, ucmp, found, ret, heap,
                      live, open, order, qualified >>
  BY DEF RecvOther, ProbeKills, Killed
<1>2. SearchType
  BY DEF SearchInv
<1>3. heard' \in 0 .. 1
  BY <1>1, <1>2 DEF SearchType
<1>4. SearchType'
  BY <1>1, <1>2, <1>3 DEF SearchType
<1>5. Chain'
  BY <1>1 DEF SearchInv, Chain, ListIsLinked, NothingLeaks, Apart, AtFirst,
              InHand, ListNodes
<1>6. Once' /\ Cursor' /\ Qualify'
  BY <1>1 DEF SearchInv, Once, Cursor, Qualify, InHand, ListNodes
<1> QED BY <1>1, <1>4, <1>5, <1>6 DEF SearchInv, ListUntouched

(* One turn of the comparison: the cursor moves on. *)
LEMMA CompareKeeps ==
  ASSUME SearchInv, Compare
  PROVE  SearchInv' /\ ListUntouched
<1>1. /\ pc = "comparing" /\ ucmp # 0
      /\ found' = FoundSoFar(heap[ucmp].url, heap[url_comp].url)
      /\ ucmp' = heap[ucmp].next
      /\ UNCHANGED << pc, only_igds, urls, head, url_comp, heard, ret, heap,
                      live, open, order, qualified >>
  BY DEF Compare
<1>2. SearchType /\ ListNodes' = ListNodes
  BY <1>1 DEF SearchInv, ListNodes
<1>3. PICK k \in 1 .. Len(order) + 1 :
        /\ ucmp = IF k = Len(order) + 1 THEN 0 ELSE order[k]
        /\ found = 1 <=> \E i \in 1 .. k - 1 :
                           heap[order[i]].url = heap[url_comp].url
  BY <1>1 DEF SearchInv, Cursor
<1>4. k \in 1 .. Len(order) /\ ucmp = order[k]
  BY <1>1, <1>2, <1>3, OrderType
<1>5. ucmp' = IF k = Len(order) THEN 0 ELSE order[k + 1]
  BY <1>1, <1>2, <1>4, OrderType DEF SearchInv, Chain, ListIsLinked
<1>6. found' = 1 <=> found = 1 \/ heap[order[k]].url = heap[url_comp].url
  <2>1. heap[order[k]].url \in Url /\ heap[url_comp].url \in Url
    BY <1>1, <1>2, <1>4, OrderType DEF SearchInv, Once, InHand
  <2> QED BY <1>1, <1>4, <2>1, SameIsEqual DEF FoundSoFar
<1>7. found' \in 0 .. 1
  BY <1>1, <1>2 DEF FoundSoFar, SearchType
<1>8. ucmp' \in ListNodes \cup {0}
  <2>1. CASE k = Len(order)
    BY <1>5, <2>1
  <2>2. CASE k # Len(order)
    <3>1. Len(order) \in Nat
      BY <1>2, OrderType
    <3>2. k + 1 \in 1 .. Len(order)
      BY <1>4, <2>2, <3>1
    <3> QED BY <1>2, <1>5, <2>2, <3>2, OrderType
  <2> QED BY <2>1, <2>2
<1>9. SearchType'
  BY <1>1, <1>2, <1>7, <1>8, OrderType DEF SearchType
<1>10. Chain'
  BY <1>1, <1>2, <1>8 DEF SearchInv, Chain, ListIsLinked, NothingLeaks, Apart,
                         AtFirst, InHand
<1>11. Cursor'
  <2>1. Len(order) \in Nat
    BY <1>2, OrderType
  <2>2. k + 1 \in 1 .. Len(order) + 1 /\ (k + 1) - 1 = k
    BY <1>4, <2>1
  <2>3. ucmp' = IF k + 1 = Len(order) + 1 THEN 0 ELSE order[k + 1]
    BY <1>4, <1>5, <2>1
  <2>4. 1 .. k = (1 .. k - 1) \cup {k}
    BY <1>4, <2>1
  <2>5. found' = 1 <=> \E i \in 1 .. (k + 1) - 1 :
                        heap[order[i]].url = heap[url_comp].url
    BY <1>3, <1>6, <2>2, <2>4
  <2> QED BY <1>1, <2>2, <2>3, <2>5 DEF Cursor
<1>12. Once' /\ Qualify'
  BY <1>1, <1>2 DEF SearchInv, Once, Qualify, InHand
<1> QED BY <1>1, <1>9, <1>10, <1>11, <1>12 DEF SearchInv, ListUntouched

(* A comparison that has seen the whole list has told the truth. *)
LEMMA ComparedAll ==
  ASSUME SearchInv, pc = "comparing", ucmp = 0
  PROVE  found = 1 <=> \E i \in 1 .. Len(order) :
                         heap[order[i]].url = heap[url_comp].url
<1>1. PICK k \in 1 .. Len(order) + 1 :
        /\ ucmp = IF k = Len(order) + 1 THEN 0 ELSE order[k]
        /\ found = 1 <=> \E i \in 1 .. k - 1 :
                           heap[order[i]].url = heap[url_comp].url
  BY DEF SearchInv, Cursor
<1>2. SearchType
  BY DEF SearchInv
<1>3. k = Len(order) + 1
  <2>1. SUFFICES ASSUME k # Len(order) + 1 PROVE FALSE
    OBVIOUS
  <2>2. k \in 1 .. Len(order)
    BY <1>2, <2>1, OrderType
  <2>3. order[k] \in Node
    BY <1>2, <2>2, OrderType
  <2> QED BY <1>1, <2>1, <2>3
<1>4. k - 1 = Len(order)
  BY <1>2, <1>3, OrderType
<1> QED BY <1>1, <1>4

(* The node in hand is freed, be it no IGD or in the list already. *)
LEMMA DropKeeps ==
  ASSUME SearchInv, InHand, FreeUrl(url_comp),
         url_comp' = 0, pc' = "receiving", open' \in 0 .. FdLimit,
         { heap[n].url : n \in ListNodes } = qualified,
         UNCHANGED << only_igds, urls, head, ucmp, found, heard, ret, order,
                      qualified >>
  PROVE  SearchInv' /\ ListUntouched
<1>1. SearchType /\ ListNodes' = ListNodes
  BY DEF SearchInv, ListNodes
<1>2. url_comp \in Node /\ url_comp \notin ListNodes
  BY DEF SearchInv, Chain, Apart
<1>3. live' = live \ {url_comp} /\ heap' = [heap EXCEPT ![url_comp] = Blank]
  BY DEF FreeUrl
<1>4. Blank \in HeapNode
  BY DEF Blank, HeapNode
<1>5. SearchType'
  BY <1>1, <1>2, <1>3, <1>4 DEF SearchType
<1>6. ListUntouched
  BY <1>1, <1>2, <1>3, OrderType DEF ListUntouched, SearchType
<1>7. ListIsLinked'
  BY <1>1, <1>6, UntouchedChain DEF SearchInv, Chain, InHand
<1>8. NothingLeaks'
  BY <1>1, <1>2, <1>3 DEF SearchInv, Chain, NothingLeaks, InHand
<1>9. Apart' /\ AtFirst'
  BY DEF SearchInv, Chain, Apart, AtFirst, InHand
<1>10. Once'
  BY <1>6 DEF SearchInv, Once, InHand, ListUntouched
<1>11. Qualify'
  <2>1. \A m \in ListNodes : heap'[m] = heap[m]
    BY <1>6 DEF ListUntouched, ListNodes
  <2>2. { heap'[m].url : m \in ListNodes } = qualified
    BY <2>1
  <2> QED BY <1>1, <2>1, <2>2 DEF SearchInv, Qualify
<1> QED BY <1>5, <1>6, <1>7, <1>8, <1>9, <1>10, <1>11 DEF SearchInv, Chain, Cursor

LEMMA DiscardKeeps ==
  ASSUME SearchInv, Discard
  PROVE  SearchInv' /\ ListUntouched
<1>1. SearchType /\ pc = "comparing" /\ ucmp = 0 /\ found = 1
  BY DEF SearchInv, Discard
<1>2. PICK i \in 1 .. Len(order) : heap[order[i]].url = heap[url_comp].url
  BY <1>1, ComparedAll
<1>3. { heap[n].url : n \in ListNodes \cup {url_comp} } = qualified
  BY <1>1 DEF SearchInv, Qualify
<1>4. { heap[n].url : n \in ListNodes } = qualified
  BY <1>1, <1>2, <1>3, OrderType
<1> QED BY <1>1, <1>4, DropKeeps DEF Discard, InHand, SearchType

(* The answer to a probe says what it costs and what it may confirm. *)
LEMMA ReplyType ==
  ASSUME SearchType, NEW u, NEW reply \in ReqCtrlurl(u)
  PROVE  /\ reply.ret \in 0 .. 1
         /\ reply.fds \in 0 .. FdLimit
         /\ reply.ctrl \in {"none", "control"}
         /\ reply.ctrl = "control" => u \in Igd
  BY DEF ReqCtrlurl, SearchType, HaveSocket

LEMMA ProbeKeeps ==
  ASSUME SearchInv, Probe
  PROVE  SearchInv' /\ ListUntouched
<1>1. SearchType /\ pc = "probing" /\ InHand
      /\ UNCHANGED << only_igds, urls, head, heard, ret, order >>
  BY DEF SearchInv, Probe, InHand
<1>2. PICK reply \in ReqCtrlurl(heap[url_comp].url) :
        /\ open' = reply.fds
        /\ \/ /\ ~IsIgd(reply)
              /\ FreeUrl(url_comp)
              /\ url_comp' = 0
              /\ pc' = "receiving"
              /\ UNCHANGED << ucmp, found, qualified >>
           \/ /\ IsIgd(reply)
              /\ heap' = [heap EXCEPT ![url_comp].crtl_url = Tmp(reply)]
              /\ qualified' = qualified \cup {heap[url_comp].url}
              /\ pc' = "comparing" /\ ucmp' = urls /\ found' = 0
              /\ UNCHANGED << live, url_comp >>
  BY DEF Probe
<1>3. open' \in 0 .. FdLimit
  BY <1>1, <1>2, ReplyType
<1>4. { heap[n].url : n \in ListNodes } = qualified
  BY <1>1 DEF SearchInv, Qualify
<1>5. CASE ~IsIgd(reply)
  BY <1>1, <1>2, <1>3, <1>4, <1>5, DropKeeps
<1>6. CASE IsIgd(reply)
  <2> DEFINE kept == [url |-> heap[url_comp].url, crtl_url |-> "control",
                      next |-> 0]
  <2>1. Tmp(reply) = "control" /\ heap[url_comp].url \in Igd
    BY <1>1, <1>2, <1>6, ReplyType DEF IsIgd, Tmp, Cleared
  <2>2. url_comp \in Node /\ url_comp \notin ListNodes
        /\ heap[url_comp].next = 0 /\ heap[url_comp] \in HeapNode
    BY <1>1 DEF SearchInv, Chain, Apart, SearchType
  <2>3. heap' = [heap EXCEPT ![url_comp] = kept]
    BY <1>1, <1>2, <1>6, <2>1, <2>2 DEF HeapNode, SearchType
  <2>4. /\ qualified' = qualified \cup {heap[url_comp].url}
        /\ pc' = "comparing" /\ ucmp' = urls /\ found' = 0
        /\ UNCHANGED << live, url_comp >>
    BY <1>2, <1>6
  <2>5. kept \in HeapNode /\ kept.url = heap[url_comp].url
        /\ kept.next = 0 /\ kept.crtl_url = "control"
    BY <2>2 DEF HeapNode
  <2> HIDE DEF kept
  <2>6. SearchType'
    BY <1>1, <1>3, <2>1, <2>2, <2>3, <2>4, <2>5 DEF SearchType
  <2>7. ListUntouched /\ ListNodes' = ListNodes /\ heap'[url_comp] = kept
    BY <1>1, <2>2, <2>3, OrderType DEF ListUntouched, ListNodes, SearchType
  <2>8. ListIsLinked'
    BY <1>1, <2>7, UntouchedChain DEF SearchInv, Chain
  <2>9. urls = (IF Len(order) + 1 = 1 THEN 0 ELSE order[1])
        /\ urls \in ListNodes \cup {0}
    BY <1>1, OrderType DEF SearchInv, Chain, ListIsLinked
  <2>10. NothingLeaks'
    BY <1>1, <2>4, <2>7, <2>9 DEF SearchInv, Chain, NothingLeaks
  <2>11. Apart' /\ AtFirst'
    BY <1>1, <2>2, <2>4, <2>5, <2>7 DEF SearchInv, Chain, Apart, AtFirst, InHand
  <2>12. Once'
    BY <1>1, <2>4, <2>5, <2>7 DEF SearchInv, Once, InHand, ListUntouched
  <2>13. Cursor'
    <3>1. 1 \in 1 .. Len(order) + 1 /\ 1 .. 1 - 1 = {}
      BY <1>1, OrderType
    <3> QED BY <1>1, <2>4, <2>9, <3>1 DEF Cursor
  <2>14. Qualify'
    <3>1. \A m \in ListNodes : heap'[m] = heap[m]
      BY <2>7 DEF ListUntouched, ListNodes
    <3>2. { heap'[m].url : m \in ListNodes \cup {url_comp} } = qualified'
      BY <1>4, <2>4, <2>5, <2>7, <3>1
    <3>3. only_igds = 1 => \A n \in ListNodes \cup {url_comp} :
            heap'[n].crtl_url = "control" /\ heap'[n].url \in Igd
      BY <1>1, <2>1, <2>5, <2>7, <3>1 DEF SearchInv, Qualify
    <3> QED BY <1>1, <2>4, <2>7, <3>2, <3>3 DEF Qualify
  <2> QED BY <2>6, <2>7, <2>8, <2>10, <2>11, <2>12, <2>13, <2>14
           DEF SearchInv, Chain
<1> QED BY <1>5, <1>6

(* The node in hand becomes the last of the list. *)
LEMMA InsertKeeps ==
  ASSUME SearchInv, Insert
  PROVE  SearchInv'
<1> DEFINE L == Len(order)
<1>1. /\ pc = "comparing" /\ ucmp = 0 /\ found = 0
      /\ heap' = IF head # 0 THEN [heap EXCEPT ![head].next = url_comp] ELSE heap
      /\ head' = url_comp
      /\ urls' = IF urls = 0 THEN url_comp ELSE urls
      /\ order' = Append(order, url_comp)
      /\ url_comp' = 0 /\ pc' = "receiving"
      /\ UNCHANGED << only_igds, ucmp, found, heard, ret, live, open, qualified >>
  BY DEF Insert, NewLast
<1>2. SearchType /\ InHand
  BY <1>1 DEF SearchInv, InHand
<1>3. /\ url_comp \in Node /\ url_comp \notin ListNodes
      /\ heap[url_comp].next = 0
      /\ \A i, j \in 1 .. L : order[i] = order[j] => i = j
  BY <1>2, OrderType DEF SearchInv, Chain, Apart
<1>4. /\ urls = IF L = 0 THEN 0 ELSE order[1]
      /\ head = IF L = 0 THEN 0 ELSE order[L]
      /\ \A i \in 1 .. L : heap[order[i]].next = IF i = L THEN 0 ELSE order[i + 1]
  BY <1>1, <1>2, OrderType DEF SearchInv, Chain, ListIsLinked
<1>5. /\ order' \in Seq(Node) /\ Len(order') = L + 1
      /\ DOMAIN order' = 1 .. L + 1
      /\ \A i \in 1 .. L : order'[i] = order[i]
      /\ order'[L + 1] = url_comp
  BY <1>1, <1>2, <1>3, AppendProperties, LenProperties DEF SearchType
<1>6. L \in Nat /\ 1 .. L + 1 = (1 .. L) \cup {L + 1} /\ L + 1 \notin 1 .. L
  BY <1>2, OrderType
<1> HIDE DEF L
<1>7. ListNodes' = ListNodes \cup {url_comp}
  <2>1. ListNodes = { order[i] : i \in 1 .. L }
    BY <1>2, OrderType DEF L
  <2>2. ListNodes' = { order'[i] : i \in 1 .. L + 1 }
    BY <1>5 DEF ListNodes
  <2>3. ListNodes' = { order'[i] : i \in 1 .. L } \cup {order'[L + 1]}
    BY <1>6, <2>2
  <2>4. { order'[i] : i \in 1 .. L } = ListNodes
    BY <1>5, <2>1
  <2> QED BY <1>5, <2>3, <2>4
<1>8. /\ \A n \in Node : heap'[n].url = heap[n].url
                       /\ heap'[n].crtl_url = heap[n].crtl_url
      /\ \A n \in Node : heap'[n].next = IF n = head THEN url_comp ELSE heap[n].next
      /\ heap' \in [Node -> HeapNode]
  <2>1. CASE head = 0
    BY <1>1, <1>2, <2>1 DEF SearchType
  <2>2. CASE head # 0
    <3>1. head \in Node /\ heap[head] \in HeapNode
      BY <1>2, <2>2 DEF SearchType
    <3> DEFINE last == [url |-> heap[head].url, crtl_url |-> heap[head].crtl_url,
                        next |-> url_comp]
    <3>2. last \in HeapNode
      BY <1>3, <3>1 DEF HeapNode
    <3>3. heap' = [heap EXCEPT ![head] = last]
      <4>1. [heap[head] EXCEPT !.next = url_comp] = last
        BY <3>1 DEF HeapNode
      <4>2. heap' = [heap EXCEPT ![head] = [heap[head] EXCEPT !.next = url_comp]]
        BY <1>1, <1>2, <2>2, <3>1 DEF SearchType
      <4> QED BY <4>1, <4>2
    <3> QED BY <1>2, <3>1, <3>2, <3>3 DEF SearchType
  <2> QED BY <2>1, <2>2
<1>9. SearchType'
  BY <1>1, <1>2, <1>3, <1>5, <1>8 DEF SearchType
<1>10. ListIsLinked'
  <2>1. urls' = IF order' = << >> THEN 0 ELSE order'[1]
    <3>1. CASE L = 0
      BY <1>1, <1>4, <1>5, <3>1, EmptySeq
    <3>2. CASE L # 0
      <4>1. 1 \in 1 .. L /\ order[1] \in Node
        BY <1>2, <1>6, <3>2, OrderType DEF L
      <4> QED BY <1>1, <1>4, <1>5, <1>6, <3>2, <4>1, EmptySeq
    <3> QED BY <3>1, <3>2
  <2>2. head' = IF order' = << >> THEN 0 ELSE order'[Len(order')]
    BY <1>1, <1>5, <1>6, EmptySeq
  <2>3. ASSUME NEW i \in 1 .. L + 1
        PROVE  heap'[order'[i]].next =
                 IF i = Len(order') THEN 0 ELSE order'[i + 1]
    <3>1. CASE i = L + 1
      <4>1. url_comp # head
        <5>1. CASE L = 0
          BY <1>3, <1>4, <5>1
        <5>2. CASE L # 0
          <6>1. L \in 1 .. L
            BY <1>6, <5>2
          <6>2. order[L] \in ListNodes
            BY <1>2, <6>1, OrderType DEF L
          <6> QED BY <1>3, <1>4, <5>2, <6>2
        <5> QED BY <5>1, <5>2
      <4> QED BY <1>3, <1>5, <1>8, <3>1, <4>1
    <3>2. CASE i \in 1 .. L
      <4>1. order[i] \in Node /\ order'[i] = order[i]
        BY <1>2, <1>5, <3>2, OrderType DEF L
      <4>2. L # 0 /\ head = order[L] /\ L \in 1 .. L
        BY <1>4, <1>6, <3>2
      <4>3. order[i] = head <=> i = L
        BY <1>3, <3>2, <4>2
      <4>4. CASE i = L
        BY <1>5, <1>6, <1>8, <4>1, <4>3, <4>4
      <4>5. CASE i # L
        <5>1. i + 1 \in 1 .. L /\ i # L + 1
          BY <1>6, <3>2, <4>5
        <5> QED BY <1>4, <1>5, <1>8, <3>2, <4>1, <4>3, <4>5, <5>1
      <4> QED BY <4>4, <4>5
    <3> QED BY <1>6, <3>1, <3>2
  <2> QED BY <1>5, <2>1, <2>2, <2>3 DEF ListIsLinked
<1>11. NothingLeaks'
  BY <1>1, <1>7 DEF SearchInv, Chain, NothingLeaks
<1>12. Apart' /\ AtFirst'
  <2>1. \A i \in 1 .. L : order[i] # url_comp
    BY <1>2, <1>3, OrderType DEF L
  <2>2. \A i, j \in 1 .. L + 1 : order'[i] = order'[j] => i = j
    BY <1>3, <1>5, <1>6, <2>1
  <2> QED BY <1>1, <1>5, <2>2 DEF Apart, AtFirst, InHand
<1>13. Once'
  <2>1. \A i \in 1 .. L : heap[order[i]].url # heap[url_comp].url
    BY <1>1, ComparedAll DEF L
  <2>2. /\ \A i \in 1 .. L : heap[order[i]].url \in Url
        /\ heap[url_comp].url \in Url
        /\ \A i, j \in 1 .. L : heap[order[i]].url = heap[order[j]].url => i = j
    BY <1>2, OrderType DEF SearchInv, Once, L
  <2>3. /\ \A i \in 1 .. L : heap'[order'[i]].url = heap[order[i]].url
        /\ heap'[order'[L + 1]].url = heap[url_comp].url
    BY <1>2, <1>3, <1>5, <1>8, OrderType DEF L
  <2>4. \A i \in 1 .. L + 1 : heap'[order'[i]].url \in Url
    BY <1>6, <2>2, <2>3
  <2>5. \A i, j \in 1 .. L + 1 :
          heap'[order'[i]].url = heap'[order'[j]].url => i = j
    BY <1>6, <2>1, <2>2, <2>3
  <2> QED BY <1>1, <1>5, <2>4, <2>5 DEF Once, InHand
<1>14. Cursor'
  BY <1>1 DEF Cursor
<1>15. Qualify'
  <2>1. \A n \in ListNodes \cup {url_comp} :
          heap'[n].url = heap[n].url /\ heap'[n].crtl_url = heap[n].crtl_url
    BY <1>2, <1>3, <1>8, OrderType
  <2>2. { heap'[n].url : n \in ListNodes' } = qualified'
    BY <1>1, <1>7, <2>1 DEF SearchInv, Qualify
  <2> QED BY <1>1, <1>7, <2>1, <2>2 DEF SearchInv, Qualify
<1> QED BY <1>9, <1>10, <1>11, <1>12, <1>13, <1>14, <1>15 DEF SearchInv, Chain

-----------------------------------------------------------------------------
(* The begin of a search, and the end of its list. *)

LEMMA NothingListed ==
  ASSUME SearchInv, pc = "idle"
  PROVE  order = << >> /\ live = {} /\ ListNodes = {}
<1>1. live = {} /\ ListNodes = {}
  BY DEF SearchInv, Chain, NothingLeaks
<1>2. SearchType
  BY DEF SearchInv
<1>3. Len(order) = 0
  <2>1. SUFFICES ASSUME Len(order) # 0 PROVE FALSE
    OBVIOUS
  <2>2. 1 \in 1 .. Len(order)
    BY <1>2, <2>1, OrderType
  <2> QED BY <1>1, <1>2, <2>2, OrderType
<1> QED BY <1>1, <1>2, <1>3, OrderType

LEMMA ListUpnpKeeps ==
  ASSUME SearchInv, NEW only \in 0 .. 1, ListUpnp(only)
  PROVE  SearchInv'
<1>1. /\ pc = "idle" /\ pc' \in {"returned", "receiving"}
      /\ only_igds' = only /\ urls' = 0 /\ head' = 0 /\ url_comp' = 0
      /\ qualified' = {}
      /\ UNCHANGED << ucmp, found, heard, heap, live, order >>
  BY DEF ListUpnp, SearchFails, SearchStarts
<1>2. SearchType /\ ListNodes' = ListNodes
  BY <1>1 DEF SearchInv, ListNodes
<1>3. open' \in 0 .. FdLimit /\ ret' \in 0 .. 1
  BY <1>2 DEF ListUpnp, SearchFails, SearchStarts, SearchType, HaveSocket
<1>4. order = << >> /\ live = {} /\ ListNodes = {} /\ DOMAIN order = {}
  BY <1>1, <1>2, NothingListed, OrderType
<1>5. SearchType'
  BY <1>1, <1>2, <1>3 DEF SearchType
<1>6. Chain'
  BY <1>1, <1>2, <1>4 DEF Chain, ListIsLinked, NothingLeaks, Apart, AtFirst,
                         InHand
<1>7. Once' /\ Cursor' /\ Qualify'
  BY <1>1, <1>2, <1>4 DEF Once, Cursor, Qualify, InHand
<1> QED BY <1>5, <1>6, <1>7 DEF SearchInv

LEMMA ListFreeKeeps ==
  ASSUME SearchInv, ListFree
  PROVE  SearchInv'
<1>1. /\ pc = "returned" /\ pc' = "freeing" /\ ucmp' = urls
      /\ UNCHANGED << only_igds, urls, head, url_comp, found, heard, ret, heap,
                      live, open, order, qualified >>
  BY DEF ListFree
<1>2. SearchType /\ ListNodes' = ListNodes
  BY <1>1 DEF SearchInv, ListNodes
<1>3. urls = (IF order = << >> THEN 0 ELSE order[1]) /\ urls \in ListNodes \cup {0}
  BY <1>1, <1>2, OrderType DEF SearchInv, Chain, ListIsLinked
<1>4. SearchType'
  BY <1>1, <1>2 DEF SearchType
<1>5. Chain'
  BY <1>1, <1>2, <1>3 DEF SearchInv, Chain, ListIsLinked, NothingLeaks, Apart,
                         AtFirst, InHand
<1>6. Once' /\ Cursor' /\ Qualify'
  BY <1>1, <1>2 DEF SearchInv, Once, Cursor, Qualify, InHand
<1> QED BY <1>4, <1>5, <1>6 DEF SearchInv

LEMMA FreeNextKeeps ==
  ASSUME SearchInv, FreeNext
  PROVE  SearchInv'
<1> DEFINE L == Len(order)
<1>1. /\ pc = "freeing" /\ ucmp # 0
      /\ live' = live \ {ucmp} /\ heap' = [heap EXCEPT ![ucmp] = Blank]
      /\ ucmp' = heap[ucmp].next
      /\ order' = Tail(order)
      /\ UNCHANGED << pc, only_igds, urls, head, url_comp, found, heard, ret,
                      open, qualified >>
  BY DEF FreeNext, FreeUrl, NextOf
<1>2. SearchType
  BY DEF SearchInv
<1>3. order # << >> /\ ucmp = order[1]
  BY <1>1 DEF SearchInv, Chain, AtFirst
<1>4. L \in Nat /\ L # 0 /\ 1 \in 1 .. L
  BY <1>2, <1>3, OrderType
<1>5. /\ \A i \in 1 .. L : order[i] \in Node
      /\ \A i, j \in 1 .. L : order[i] = order[j] => i = j
      /\ \A i \in 1 .. L : heap[order[i]].next = IF i = L THEN 0 ELSE order[i + 1]
  BY <1>2, OrderType DEF SearchInv, Chain, Apart, ListIsLinked
<1>6. /\ order' \in Seq(Node) /\ Len(order') = L - 1
      /\ DOMAIN order' = 1 .. L - 1
      /\ \A i \in 1 .. L - 1 : order'[i] = order[i + 1]
  BY <1>1, <1>2, <1>3, HeadTailProperties, LenProperties DEF SearchType
<1>7. ListNodes = { order[i] : i \in 1 .. L }
  BY <1>2, OrderType
<1>8. ListNodes' = { order'[i] : i \in 1 .. L - 1 }
  BY <1>6 DEF ListNodes
<1>9. order' = << >> <=> L = 1
  BY <1>6, <1>4, EmptySeq
<1> HIDE DEF L
<1>10. ucmp' = IF L = 1 THEN 0 ELSE order[2]
  <2>1. heap[order[1]].next = IF 1 = L THEN 0 ELSE order[1 + 1]
    BY <1>4, <1>5
  <2>2. 1 + 1 = 2
    OBVIOUS
  <2> QED BY <1>1, <1>3, <2>1, <2>2
<1>11. \A i \in 1 .. L - 1 : i + 1 \in 1 .. L /\ i + 1 # 1
  BY <1>4
<1>12. \A i \in 1 .. L : i = 1 \/ (i - 1 \in 1 .. L - 1 /\ i = (i - 1) + 1)
  BY <1>4
<1>13. ListNodes' = ListNodes \ {ucmp}
  <2>1. ASSUME NEW n \in ListNodes' PROVE n \in ListNodes \ {ucmp}
    <3>1. PICK i \in 1 .. L - 1 : n = order[i + 1]
      BY <1>6, <1>8, <2>1
    <3> QED BY <1>3, <1>4, <1>5, <1>7, <1>11, <3>1
  <2>2. ASSUME NEW n \in ListNodes \ {ucmp} PROVE n \in ListNodes'
    <3>1. PICK i \in 1 .. L : n = order[i] /\ i # 1
      BY <1>3, <1>7, <2>2
    <3>2. i - 1 \in 1 .. L - 1 /\ order'[i - 1] = n
      BY <1>6, <1>12, <3>1
    <3> QED BY <1>8, <3>2
  <2> QED BY <2>1, <2>2
<1>14. /\ \A i \in 1 .. L - 1 : order'[i] \in Node /\ order'[i] # ucmp
                              /\ heap'[order'[i]] = heap[order[i + 1]]
       /\ \A n \in Node : n # ucmp => heap'[n] = heap[n]
  <2>1. \A n \in Node : n # ucmp => heap'[n] = heap[n]
    BY <1>1, <1>2 DEF SearchType
  <2>2. \A i \in 1 .. L - 1 : order[i + 1] \in Node /\ order[i + 1] # ucmp
    BY <1>3, <1>4, <1>5, <1>11
  <2> QED BY <1>6, <2>1, <2>2
<1>15. SearchType'
  <2>1. Blank \in HeapNode
    BY DEF Blank, HeapNode
  <2>2. ucmp \in Node /\ heap[ucmp].next \in Node \cup {0}
    BY <1>1, <1>2 DEF SearchType, HeapNode
  <2> QED BY <1>1, <1>2, <1>6, <2>1, <2>2 DEF SearchType
<1>16. ListIsLinked'
  <2>1. ASSUME NEW i \in 1 .. L - 1
        PROVE  heap'[order'[i]].next = IF i = Len(order') THEN 0 ELSE order'[i + 1]
    <3>1. CASE i = L - 1
      <4>1. i + 1 = L
        BY <1>4, <3>1
      <4> QED BY <1>5, <1>6, <1>11, <1>14, <3>1, <4>1
    <3>2. CASE i # L - 1
      <4>1. i + 1 \in 1 .. L - 1 /\ i + 1 # L
        BY <1>4, <3>2
      <4> QED BY <1>5, <1>6, <1>11, <1>14, <3>2, <4>1
    <3> QED BY <3>1, <3>2
  <2> QED BY <1>1, <1>6, <2>1 DEF ListIsLinked
<1>17. ucmp' = IF order' = << >> THEN 0 ELSE order'[1]
  <2>1. CASE L = 1
    BY <1>9, <1>10, <2>1
  <2>2. CASE L # 1
    <3>1. 1 \in 1 .. L - 1
      BY <1>4, <2>2
    <3> QED BY <1>6, <1>9, <1>10, <2>2, <3>1
  <2> QED BY <2>1, <2>2
<1>18. ucmp' \in ListNodes' \cup {0}
  <2>1. CASE L = 1
    BY <1>9, <1>17, <2>1
  <2>2. CASE L # 1
    <3>1. 1 \in 1 .. L - 1
      BY <1>4, <2>2
    <3> QED BY <1>8, <1>9, <1>17, <2>2, <3>1
  <2> QED BY <2>1, <2>2
<1>19. NothingLeaks'
  BY <1>1, <1>13, <1>18 DEF SearchInv, Chain, NothingLeaks
<1>20. Apart' /\ AtFirst'
  <2>1. \A i, j \in 1 .. L - 1 : order'[i] = order'[j] => i = j
    <3>1. \A i, j \in 1 .. L - 1 : order[i + 1] = order[j + 1] => i + 1 = j + 1
      BY <1>5, <1>11
    <3>2. \A i, j \in 1 .. L - 1 : i + 1 = j + 1 => i = j
      BY <1>4
    <3> QED BY <1>6, <3>1, <3>2
  <2> QED BY <1>1, <1>6, <1>17, <2>1 DEF Apart, AtFirst, InHand
<1>21. Once'
  <2>1. /\ \A i \in 1 .. L : heap[order[i]].url \in Url
        /\ \A i, j \in 1 .. L : heap[order[i]].url = heap[order[j]].url => i = j
    BY <1>2, OrderType DEF SearchInv, Once, L
  <2>2. \A i \in 1 .. L - 1 : heap'[order'[i]].url \in Url
    BY <1>11, <1>14, <2>1
  <2>3. \A i, j \in 1 .. L - 1 :
          heap'[order'[i]].url = heap'[order'[j]].url => i + 1 = j + 1
    BY <1>11, <1>14, <2>1
  <2>4. \A i, j \in 1 .. L - 1 : i + 1 = j + 1 => i = j
    BY <1>4
  <2> QED BY <1>1, <1>6, <2>2, <2>3, <2>4 DEF Once, InHand
<1>22. Cursor' /\ Qualify'
  <2>1. \A n \in ListNodes' : n \in ListNodes /\ heap'[n] = heap[n]
    BY <1>2, <1>13, <1>14, OrderType
  <2> QED BY <1>1, <2>1 DEF SearchInv, Cursor, Qualify
<1> QED BY <1>15, <1>16, <1>19, <1>20, <1>21, <1>22 DEF SearchInv, Chain

LEMMA FreeDoneKeeps ==
  ASSUME SearchInv, FreeDone
  PROVE  SearchInv'
<1>1. /\ pc = "freeing" /\ ucmp = 0 /\ pc' = "idle"
      /\ urls' = 0 /\ head' = 0 /\ qualified' = {}
      /\ UNCHANGED << only_igds, url_comp, ucmp, found, heard, ret, heap, live,
                      open, order >>
  BY DEF FreeDone
<1>2. SearchType /\ ListNodes' = ListNodes
  BY <1>1 DEF SearchInv, ListNodes
<1>3. order = << >> /\ ListNodes = {} /\ DOMAIN order = {}
  <2>1. Len(order) = 0
    <3>1. SUFFICES ASSUME order # << >> PROVE FALSE
      BY <1>2, OrderType
    <3>2. 1 \in 1 .. Len(order)
      BY <1>2, <3>1, OrderType
    <3> QED BY <1>1, <1>2, <3>1, <3>2, OrderType DEF SearchInv, Chain, AtFirst
  <2> QED BY <1>2, <2>1, OrderType
<1>4. SearchType'
  BY <1>1, <1>2 DEF SearchType
<1>5. Chain'
  BY <1>1, <1>2, <1>3 DEF SearchInv, Chain, ListIsLinked, NothingLeaks, Apart,
                         AtFirst, InHand
<1>6. Once' /\ Cursor' /\ Qualify'
  BY <1>1, <1>2, <1>3 DEF Once, Cursor, Qualify, InHand
<1> QED BY <1>4, <1>5, <1>6 DEF SearchInv

-----------------------------------------------------------------------------
(* The refinement of DeviceList.  The list as its users see it: *)

DevList == IF pc \in {"idle", "freeing"} THEN << >>
           ELSE [i \in DOMAIN order |-> heap[order[i]].url]

LEMMA DevicesStutter ==
  ASSUME Searching' = Searching, DevList' = DevList
  PROVE  UNCHANGED Devices!vars
  BY DEF Devices!vars, DevList

(* The steps of the receive loop that insert nothing. *)
LEMMA LoopStutters ==
  ASSUME ListUntouched,
         pc \in {"receiving", "probing", "comparing"},
         pc' \in {"receiving", "probing", "comparing"}
  PROVE  UNCHANGED Devices!vars
<1>1. Searching' = Searching
  BY DEF Searching
<1>2. DevList' = DevList
  BY DEF DevList, ListUntouched
<1> QED BY <1>1, <1>2, DevicesStutter

LEMMA SearchEndEnds ==
  ASSUME SearchInv, RecvUnparsable \/ RecvNothing
  PROVE  Devices!End
<1>1. /\ pc = "receiving" /\ pc' = "returned"
      /\ UNCHANGED << heap, order >>
  BY DEF RecvUnparsable, RecvNothing
<1>2. Searching /\ ~Searching' /\ DevList' = DevList
  BY <1>1 DEF Searching, DevList
<1> QED BY <1>2 DEF Devices!End, DevList, Searching

(* A program that is killed builds no list any more. *)
LEMMA KillEnds ==
  ASSUME SearchInv, ProbeKills
  PROVE  Devices!End
<1>1. /\ pc = "probing" /\ pc' = "killed"
      /\ UNCHANGED << heap, order >>
  BY DEF ProbeKills, Killed
<1>2. Searching /\ ~Searching' /\ DevList' = DevList
  BY <1>1 DEF Searching, DevList
<1> QED BY <1>2 DEF Devices!End, DevList, Searching

LEMMA InsertFinds ==
  ASSUME SearchInv, SearchInv', Insert
  PROVE  Devices!Found
<1> DEFINE L == Len(order)
           u == heap[url_comp].url
<1>1. /\ pc = "comparing" /\ pc' = "receiving" /\ ucmp = 0 /\ found = 0
      /\ order' = Append(order, url_comp)
  BY DEF Insert
<1>2. SearchType /\ u \in Url /\ url_comp \in Node
  BY <1>1 DEF SearchInv, Once, Chain, Apart, InHand
<1>3. L \in Nat /\ DOMAIN order = 1 .. L /\ \A i \in 1 .. L : order[i] \in Node
  BY <1>2, OrderType
<1>4. /\ DOMAIN order' = 1 .. L + 1
      /\ \A i \in 1 .. L : order'[i] = order[i]
      /\ order'[L + 1] = url_comp
  BY <1>1, <1>2, AppendProperties, LenProperties DEF SearchType
<1>5. \A n \in Node : heap'[n].url = heap[n].url
  BY <1>2 DEF Insert, SearchType, HeapNode
<1>6. \A i \in 1 .. L : heap[order[i]].url # u
  BY <1>1, ComparedAll
<1>7. \A i \in 1 .. L : heap[order[i]].url \in Url
  BY <1>3 DEF SearchInv, Once
<1>8. DevList = [i \in 1 .. L |-> heap[order[i]].url]
  BY <1>1, <1>3 DEF DevList
<1> HIDE DEF L
<1>9. DevList' = [i \in 1 .. L + 1 |-> IF i = L + 1 THEN u ELSE heap[order[i]].url]
  <2>1. \A i \in 1 .. L + 1 :
          heap'[order'[i]].url = IF i = L + 1 THEN u ELSE heap[order[i]].url
    <3>1. ASSUME NEW i \in 1 .. L + 1
          PROVE  heap'[order'[i]].url =
                   IF i = L + 1 THEN u ELSE heap[order[i]].url
      <4>1. CASE i = L + 1
        BY <1>2, <1>4, <1>5, <4>1
      <4>2. CASE i # L + 1
        <5>1. i \in 1 .. L
          BY <1>3, <4>2
        <5> QED BY <1>3, <1>4, <1>5, <4>2, <5>1
      <4> QED BY <4>1, <4>2
    <3> QED BY <3>1
  <2>2. DevList' = [i \in 1 .. L + 1 |-> heap'[order'[i]].url]
    BY <1>1, <1>4 DEF DevList
  <2> QED BY <2>1, <2>2
<1> HIDE DEF u
<1>10. DevList \in Seq(Url) /\ Len(DevList) = L
  <2>1. DevList \in [1 .. L -> Url]
    BY <1>7, <1>8
  <2> QED BY <1>3, <2>1, SeqDef
<1>11. DevList' = Append(DevList, u)
  <2>1. Append(DevList, u) \in Seq(Url) /\ Len(Append(DevList, u)) = L + 1
        /\ \A i \in 1 .. L : Append(DevList, u)[i] = DevList[i]
        /\ Append(DevList, u)[L + 1] = u
    BY <1>2, <1>10, AppendProperties
  <2>2. DevList' \in Seq(Url) /\ Len(DevList') = L + 1
    <3>1. \A i \in 1 .. L + 1 : (IF i = L + 1 THEN u ELSE heap[order[i]].url) \in Url
      BY <1>2, <1>3, <1>7
    <3>2. DevList' \in [1 .. L + 1 -> Url] /\ L + 1 \in Nat
      BY <1>3, <1>9, <3>1
    <3> QED BY <3>2, SeqDef
  <2>3. ASSUME NEW i \in 1 .. L + 1 PROVE DevList'[i] = Append(DevList, u)[i]
    <3>1. CASE i = L + 1
      BY <1>9, <2>1, <3>1
    <3>2. CASE i # L + 1
      <4>1. i \in 1 .. L
        BY <1>3, <3>2
      <4> QED BY <1>8, <1>9, <2>1, <3>2, <4>1
    <3> QED BY <3>1, <3>2
  <2> QED BY <2>1, <2>2, <2>3, SeqEqual
<1>12. u \notin { DevList[i] : i \in DOMAIN DevList }
  BY <1>6, <1>8 DEF u
<1>13. Searching /\ Searching'
  BY <1>1 DEF Searching
<1> QED BY <1>2, <1>11, <1>12, <1>13
        DEF Devices!Found, Devices!Listed, DevList, Searching

LEMMA ListUpnpBegins ==
  ASSUME SearchInv, NEW only \in 0 .. 1, ListUpnp(only)
  PROVE  Devices!Begin \/ UNCHANGED Devices!vars
<1>1. /\ pc = "idle" /\ pc' \in {"returned", "receiving"}
      /\ UNCHANGED << heap, order >>
  BY DEF ListUpnp, SearchFails, SearchStarts
<1>2. SearchType
  BY DEF SearchInv
<1>3. order = << >> /\ DOMAIN order = {}
  BY <1>1, <1>2, NothingListed, OrderType
<1>4. [i \in {} |-> heap[order[i]].url] = << >>
  <2>1. [i \in {} |-> heap[order[i]].url] \in Seq(Url)
    <3>1. 1 .. 0 = {} /\ 0 \in Nat
      OBVIOUS
    <3>2. [i \in {} |-> heap[order[i]].url] \in [1 .. 0 -> Url]
      BY <3>1
    <3> QED BY <3>1, <3>2, SeqDef
  <2>2. Len([i \in {} |-> heap[order[i]].url]) = 0
    BY <2>1, LenProperties
  <2> QED BY <2>1, <2>2, EmptySeq
<1>5. DevList = << >> /\ DevList' = << >>
  <2>1. DevList' = [i \in DOMAIN order |-> heap[order[i]].url]
    BY <1>1 DEF DevList
  <2> QED BY <1>1, <1>3, <1>4, <2>1 DEF DevList
<1>6. CASE pc' = "receiving"
  <2>1. ~Searching /\ Searching'
    BY <1>1, <1>6 DEF Searching
  <2> QED BY <1>5, <2>1 DEF Devices!Begin, DevList, Searching
<1>7. CASE pc' = "returned"
  <2>1. Searching' = Searching
    BY <1>1, <1>7 DEF Searching
  <2> QED BY <1>5, <2>1, DevicesStutter
<1> QED BY <1>1, <1>6, <1>7

LEMMA ListFreeFrees ==
  ASSUME ListFree \/ FreeStep
  PROVE  Devices!Free \/ UNCHANGED Devices!vars
<1>1. CASE ListFree
  <2>1. pc = "returned" /\ pc' = "freeing"
    BY <1>1 DEF ListFree
  <2>2. ~Searching /\ Searching' = Searching /\ DevList' = << >>
    BY <2>1 DEF Searching, DevList
  <2> QED BY <2>2 DEF Devices!Free, DevList, Searching
<1>2. CASE FreeStep
  <2>1. pc = "freeing" /\ pc' \in {"freeing", "idle"}
    BY <1>2 DEF FreeStep, FreeNext, FreeDone
  <2>2. Searching' = Searching /\ DevList' = DevList
    BY <2>1 DEF Searching, DevList
  <2> QED BY <2>2, DevicesStutter
<1> QED BY <1>1, <1>2

-----------------------------------------------------------------------------
(* All steps of a search together. *)

SearchStep ==
  \/ \E only \in 0 .. 1 : ListUpnp(only)
  \/ Announced \/ SearchOn \/ ListFree \/ FreeStep

(* A step of the search keeps the invariant, and is a step of DeviceList or
   invisible there. *)
LEMMA SearchStepKeeps ==
  ASSUME SearchInv, SearchStep
  PROVE  SearchInv' /\ (Devices!Next \/ UNCHANGED Devices!vars)
<1> USE DEF Devices!Next
<1>1. ASSUME NEW only \in 0 .. 1, ListUpnp(only)
      PROVE  SearchInv' /\ (Devices!Next \/ UNCHANGED Devices!vars)
  BY <1>1, ListUpnpKeeps, ListUpnpBegins
<1>2. ASSUME NEW u \in Url, RecvLocation(u)
      PROVE  SearchInv' /\ UNCHANGED Devices!vars
  <2>1. pc = "receiving" /\ pc' \in {"probing", "comparing"}
    BY <1>2 DEF RecvLocation
  <2> QED BY <1>2, <2>1, RecvLocationKeeps, LoopStutters
<1>3. CASE RecvUnparsable \/ RecvNothing
  BY <1>3, SearchEndKeeps, SearchEndEnds
<1>4. CASE Probe
  <2>1. pc = "probing" /\ pc' \in {"receiving", "comparing"}
    BY <1>4 DEF Probe
  <2> QED BY <1>4, <2>1, ProbeKeeps, LoopStutters
<1>5. CASE Compare
  <2>1. pc = "comparing" /\ pc' = pc
    BY <1>5 DEF Compare
  <2> QED BY <1>5, <2>1, CompareKeeps, LoopStutters
<1>6. CASE Insert
  BY <1>6, InsertKeeps, InsertFinds
<1>7. CASE Discard
  <2>1. pc = "comparing" /\ pc' = "receiving"
    BY <1>7 DEF Discard
  <2> QED BY <1>7, <2>1, DiscardKeeps, LoopStutters
<1>8. CASE ListFree
  BY <1>8, ListFreeKeeps, ListFreeFrees
<1>9. CASE FreeStep
  BY <1>9, FreeNextKeeps, FreeDoneKeeps, ListFreeFrees DEF FreeStep
<1>10. CASE RecvOther
  <2>1. pc = "receiving" /\ pc' = pc
    BY <1>10 DEF RecvOther
  <2> QED BY <1>10, <2>1, PlaceKeeps, LoopStutters
<1>11. CASE ProbeKills
  BY <1>11, PlaceKeeps, KillEnds
<1> QED BY <1>1, <1>2, <1>3, <1>4, <1>5, <1>6, <1>7, <1>8, <1>9, <1>10, <1>11
        DEF SearchStep, Announced, KeepsWaiting, SearchOn

(* A user of the list moves the cursor on, or asks a device over HTTP, which
   may end the process. *)
LEMMA UserKeeps ==
  ASSUME SearchInv, pc = "returned", pc' \in {"returned", "killed"},
         UNCHANGED << only_igds, urls, head, url_comp, found, heard, ret, heap,
                      live, order, qualified >>,
         ucmp' \in Node \cup {0}, open' \in 0 .. FdLimit
  PROVE  SearchInv' /\ UNCHANGED Devices!vars
<1>1. SearchType'
  BY DEF SearchInv, SearchType
<1>2. Chain'
  BY DEF SearchInv, Chain, ListIsLinked, NothingLeaks, Apart, AtFirst, InHand,
         ListNodes
<1>3. Once' /\ Cursor' /\ Qualify'
  BY DEF SearchInv, Once, Cursor, Qualify, InHand, ListNodes
<1>4. Searching' = Searching /\ DevList' = DevList
  BY DEF Searching, DevList
<1> QED BY <1>1, <1>2, <1>3, <1>4, DevicesStutter DEF SearchInv

LEMMA SearchRests ==
  ASSUME SearchInv, UNCHANGED search
  PROVE  SearchInv' /\ UNCHANGED Devices!vars
<1>1. UNCHANGED << pc, only_igds, urls, head, url_comp, ucmp, found, heard, ret,
                   heap, live, open, order, qualified >>
  BY DEF search
<1>2. SearchType'
  BY <1>1 DEF SearchInv, SearchType
<1>3. Chain'
  <2>1. ListNodes' = ListNodes
    BY <1>1 DEF ListNodes
  <2>2. ListIsLinked'
    BY <1>1 DEF SearchInv, Chain, ListIsLinked
  <2>3. NothingLeaks'
    BY <1>1, <2>1 DEF SearchInv, Chain, NothingLeaks
  <2>4. Apart' /\ AtFirst'
    BY <1>1, <2>1 DEF SearchInv, Chain, Apart, AtFirst, InHand
  <2> QED BY <2>2, <2>3, <2>4 DEF Chain
<1>4. Once' /\ Cursor' /\ Qualify'
  BY <1>1 DEF SearchInv, Once, Cursor, Qualify, InHand, ListNodes
<1>5. Searching' = Searching /\ DevList' = DevList
  BY <1>1 DEF Searching, DevList
<1> QED BY <1>2, <1>3, <1>4, <1>5, DevicesStutter DEF SearchInv

LEMMA SearchInitInv ==
  ASSUME SearchInit
  PROVE  SearchInv /\ Devices!Init
<1>1. << >> \in Seq(Node) /\ DOMAIN << >> = {} /\ Blank \in HeapNode
  BY EmptySeq DEF Blank, HeapNode
<1>2. SearchType
  BY <1>1 DEF SearchInit, SearchType, Blank, HeapNode
<1>3. ListNodes = {} /\ DOMAIN order = {} /\ order = << >>
  BY <1>1 DEF SearchInit, ListNodes
<1>4. Chain
  BY <1>3 DEF SearchInit, Chain, ListIsLinked, NothingLeaks, Apart, AtFirst,
              InHand
<1>5. Once /\ Cursor /\ Qualify
  BY <1>3 DEF SearchInit, Once, Cursor, Qualify, InHand
<1>6. ~Searching /\ DevList = << >>
  BY DEF SearchInit, Searching, DevList
<1> QED BY <1>2, <1>4, <1>5, <1>6
        DEF SearchInv, Devices!Init, DevList, Searching
=============================================================================
