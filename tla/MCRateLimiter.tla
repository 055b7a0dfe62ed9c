---------------------------- MODULE MCRateLimiter ----------------------------
(* Instances of RateLimiter: nodes whose clocks agree or differ by Skew,    *)
(* and one that did not reach Redis when it booted.                         *)
EXTENDS RateLimiter, TLC

CONSTANTS n1, n2, n3, rest, graphql

MCNodes == {n1, n2, n3}
MCConnected == {n1, n2}
MCOffset == [n \in MCNodes |-> IF n = n2 THEN Skew ELSE 0]

\* Bursts of one.  A token every two milliseconds on one bucket, none on the other.
MCBuckets == {rest, graphql}
MCLimits == [b \in MCBuckets |-> [cap |-> 2, rate |-> IF b = rest THEN 1 ELSE 0, unit |-> 2]]

\* The requests are interchangeable.
MCSymmetry == Permutations(Requests)

=============================================================================
