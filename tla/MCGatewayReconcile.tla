-------------------------- MODULE MCGatewayReconcile --------------------------
(***************************************************************************)
(* Small instances of GatewayReconcile.                                    *)
(***************************************************************************)
EXTENDS GatewayReconcile

\* A Deployment that every spec renders and an HTTPRoute, of a kind installed
\* after startup and so not watched, that only the spec "routed" renders.
OneGVKs     == <<"Deployment", "HTTPRoute">>
OneKindOf   == [apiserver |-> "Deployment", route |-> "HTTPRoute"]
OneRendered == [s \in Specs |-> IF s = "routed" THEN {"apiserver", "route"}
                                                ELSE {"apiserver"}]

\* A StatefulSet, the route, and a ServiceMonitor whose CRD is missing.
ThreeGVKs     == <<"StatefulSet", "HTTPRoute", "ServiceMonitor">>
ThreeKindOf   == [processor |-> "StatefulSet", route |-> "HTTPRoute",
                  monitor |-> "ServiceMonitor"]
ThreeRendered == [s \in Specs |-> {"processor", "route", "monitor"}]

SingleReplicas == [s \in Specs |-> 1]
===============================================================================
