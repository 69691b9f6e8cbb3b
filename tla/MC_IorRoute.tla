----------------------------- MODULE MC_IorRoute -----------------------------
(* Two gateways: gw1 in the control-plane namespace, served by the        *)
(* ingress gateway there, with a plain host and a wildcard; gw2 in a      *)
(* member namespace, with the "*" host, served by a gateway service in    *)
(* that namespace, which findService only finds once the member roll has  *)
(* added it.                                                              *)
EXTENDS IorRoute

MCPilotNs == "istio-system"
MCGw1 == [ns |-> "istio-system", name |-> "gw1"]
MCGw2 == [ns |-> "bookinfo", name |-> "gw2"]
MCGw == {MCGw1, MCGw2}
MCGwHosts ==
    MCGw1 :> << [kind |-> "plain", d |-> "a.com"], [kind |-> "sub", d |-> "a.com"] >>
    @@ MCGw2 :> << [kind |-> "star", d |-> ""] >>
MCSvcNs == MCGw1 :> "istio-system" @@ MCGw2 :> "bookinfo"
MCNsChoices == { <<"istio-system">>, <<"istio-system", "bookinfo">> }

(* Two gateways whose "namespace-name" prefixes coincide, team-a/web and  *)
(* team/a-web, each with the "*" host and served by the ingress gateway   *)
(* of the control-plane namespace.                                        *)
MCGwA == [ns |-> "team-a", name |-> "web"]
MCGwB == [ns |-> "team", name |-> "a-web"]
MCDashGw == {MCGwA, MCGwB}
MCDashGwHosts == [g \in MCDashGw |-> << [kind |-> "star", d |-> ""] >>]
MCDashSvcNs == [g \in MCDashGw |-> "istio-system"]
MCDashNsChoices == { <<"istio-system">> }
=============================================================================
