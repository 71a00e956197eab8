------------------------------- MODULE MCWires -------------------------------
(* Instances for TLC of what is kept open: the websocket to a service, between    *)
(* requests, and the pipes between an RPC client and its server. They share no    *)
(* state, so a behaviour of this module is one of a single part.                  *)
EXTENDS Connections, RpcClient

CONSTANTS a1, a2, d1, d2    \* requests and connections

TwoRequests == {a1, a2}
TwoConns == {d1, d2}
OneBody == {"body"}
CachedKinds == {[mode |-> "auto", named |-> TRUE]}

VARIABLE part

wiresVars == <<connectionVars, rpcVars, part>>

WiresInit == part \in {"socket", "pipes"} /\ ConnectionInit /\ RpcInit

WiresNext ==
    /\ UNCHANGED part
    /\ \/ part = "socket" /\ ConnectionNext /\ UNCHANGED rpcVars
       \/ part = "pipes" /\ RpcNext /\ UNCHANGED connectionVars

WiresSpec == WiresInit /\ [][WiresNext]_wiresVars

\* Every variable of every part has its type.
WiresTypeOK ==
    /\ part = "socket" => ConnectionTypeOK
    /\ part = "pipes" => RpcTypeOK
===============================================================================
