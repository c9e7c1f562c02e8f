------------------------- MODULE MCThroughputMeter --------------------------
(***************************************************************************)
(* The wifi test's meter: packets of the server, of the station without a  *)
(* tunnel, and of a third source that is not measured.                     *)
(***************************************************************************)
EXTENDS ThroughputMeter

CONSTANTS server, station, other,   \* the sources
          f0, f1                    \* the flows

MCFlowOf ==
  [s \in Source |-> CASE s = server -> f0 [] s = station -> f1 [] s = other -> "none"]
=============================================================================
