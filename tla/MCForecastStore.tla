-------------------------- MODULE MCForecastStore --------------------------
(* Model checking of ForecastStore: two operational keys, two concurrent    *)
(* requests and the loop; a TTL of one tick, loads that take up to one.     *)
EXTENDS ForecastStore, TLC

CONSTANTS k1, k2, c1, c2, loop, nokey

MCOneKey == {k1}
MCKeys == {k1, k2}
MCClients == {c1, c2}
MCSymmetry == Permutations(MCKeys) \cup Permutations(MCClients)
=============================================================================
