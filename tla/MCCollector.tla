----------------------------- MODULE MCCollector -----------------------------
(* Values for the constants of Collector that a .cfg cannot write down.    *)
EXTENDS Collector

\* No replay bound; a bound at each of a set of times.
NoBound == {ZeroTime}
OneBound == {1}
AnyBound == {ZeroTime, 0, 1}

\* The row of d1 with id 1 never converts.
OneUnmappable == {<<CHOOSE d \in DB : TRUE, 1>>}
=============================================================================
