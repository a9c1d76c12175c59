------------------------- MODULE MCMetricsController -------------------------
(***************************************************************************)
(* MetricsController with the Prometheus operator's CRDs installed from    *)
(* the start or later.                                                     *)
(***************************************************************************)
EXTENDS MetricsController

EarlyOrLate == {Kinds, {"Service"}}
==============================================================================
