-------------------------------- MODULE MCUpnp --------------------------------
(* Instances of Upnp for TLC. *)
EXTENDS Upnp, TLC

U(h, p, s) == [host |-> h, port |-> p, path |-> s]

(* The gateway's IGD, another service on the gateway, another host. *)
GatewayIgd   == U("gw", 1, "desc")
GatewayOther == U("gw", 2, "desc")
OtherHost    == U("tv", 1, "desc")
MCUrl == {GatewayIgd, GatewayOther, OtherHost}
MCIgd == {GatewayIgd}
=============================================================================
