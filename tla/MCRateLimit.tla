---------------------------- MODULE MCRateLimit ----------------------------
(* RateLimit for TLC: requests are alike, and so are addresses.            *)
EXTENDS RateLimit, TLC

Symmetry == Permutations(Requests) \cup Permutations(IPs)
=============================================================================
