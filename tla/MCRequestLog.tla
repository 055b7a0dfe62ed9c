---------------------------- MODULE MCRequestLog -----------------------------
(* Two users with a key each and an entry of each, on either surface.      *)
EXTENDS RequestLog

CONSTANTS u1, u2, k1, k2, p1, p2

MCUsers == {u1, u2}
MCOwner == [k \in {k1, k2} |-> IF k = k1 THEN u1 ELSE u2]
MCAttr ==
  <<[key |-> k1, path |-> "/v1/cells", status |-> "limited"],
    [key |-> k2, path |-> "/graphql", status |-> "error"]>>

=============================================================================
