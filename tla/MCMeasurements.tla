--------------------------- MODULE MCMeasurements ---------------------------
(* Measurements on small instances.  Every identifier is interchangeable.  *)
EXTENDS Measurements, TLC

Symmetric ==
  Permutations(Orders) \cup Permutations(MeasurementIds) \cup Permutations(Sessions)

\* KPIs that take one unit off or add one: a penalty and a bonus.
PenaltyOrBonus == {-1, 1}
NoKpis == {}
=============================================================================
