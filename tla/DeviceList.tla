----------------------------- MODULE DeviceList -----------------------------
(***************************************************************************)
(* What a search for UPnP devices promises its caller: a list in which a   *)
(* device stands once, in the order of discovery, which grows while the    *)
(* search goes on, stays as it is afterwards, and is the caller's to free. *)
(***************************************************************************)
EXTENDS Sequences

CONSTANT Url

VARIABLES searching, list

vars == << searching, list >>

Listed == { list[i] : i \in DOMAIN list }

Init == searching = FALSE /\ list = << >>

Begin ==
  /\ ~searching /\ list = << >>
  /\ searching' = TRUE
  /\ UNCHANGED list

Found ==
  /\ searching
  /\ \E u \in Url \ Listed : list' = Append(list, u)
  /\ UNCHANGED searching

End ==
  /\ searching
  /\ searching' = FALSE
  /\ UNCHANGED list

Free ==
  /\ ~searching
  /\ list' = << >>
  /\ UNCHANGED searching

Next == Begin \/ Found \/ End \/ Free

Spec == Init /\ [][Next]_vars
=============================================================================
