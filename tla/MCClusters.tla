------------------------------ MODULE MCClusters ------------------------------
(* A small instance of Clusters: two names, one of which, as a pattern,      *)
(* matches the other.                                                        *)
EXTENDS Clusters

Matches == {<<"a1", "a1">>, <<"a_", "a_">>, <<"a1", "a_">>}
=============================================================================
