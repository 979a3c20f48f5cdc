---------------------------- MODULE MCTransport -----------------------------
(* KindledTransport on small instances.                                    *)
EXTENDS KindledTransport, TLC

CONSTANTS a, b, s1, s2, t1, t2

Symmetric == Permutations({a, b}) \cup Permutations({s1, s2}) \cup Permutations({t1, t2})
=============================================================================
