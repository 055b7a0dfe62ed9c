----------------------------- MODULE MCSessions ------------------------------
(* Two GitHub accounts; a login one of them gives up can go to the other.   *)
EXTENDS Sessions

CONSTANTS ann, bob, la, lb, lc

MCFirstLogin == [a \in Accounts |-> IF a = ann THEN la ELSE lb]

\* Dashboard requests are explored for the sign-ins of one account in one
\* browser, one callback at a time; all the rest is explored without them.
RequestsAlone ==
  (clock > 0 \/ touchTasks # {} \/ signedOut # {} \/ \E r \in Visits : visit[r] # NoRequest)
    => /\ renames = 0
       /\ \A s \in States : codes[s] \in {NULL, "used", ann}
       /\ \A t \in SessionTokens : signer[t] \in {NULL, ann}
       /\ stateCookie[2] = NULL /\ sessionCookie[2] = NULL /\ call[2] = NoCall
=============================================================================
