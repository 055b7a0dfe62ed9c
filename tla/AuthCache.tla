------------------------------ MODULE AuthCache ------------------------------
(***************************************************************************)
(* Bearer authentication (crates/api/src/auth.rs) against a changing       *)
(* api_keys table: a cache keyed by the whole token with a time to live,   *)
(* and resolve, whose lookup and cache insert are separated by awaits.     *)
(* A request is dropped where it stands when the request timeout fires.    *)
(*                                                                         *)
(* A token is a prefix and a secret, which belong together only in the     *)
(* tokens that were handed out.  grant is the last request that was let    *)
(* through; presented holds the credentials that ever were.                *)
(***************************************************************************)
EXTENDS ApiKeys

CONSTANTS Requests,
          Ttl,             \* api_auth_cache_ttl_seconds
          RequestTimeout   \* api_request_timeout_ms

ASSUME AuthConstants == Ttl \in Nat /\ RequestTimeout \in Nat

VARIABLES cache, request, touches, grant, presented

authVars == <<cache, request, touches, grant, presented>>
vars == <<now, keys, issued, issuedTo, retiredAt, cache, request, touches, grant, presented>>

Tokens == [prefix : Credentials, secret : Credentials]

\* AuthenticatedKey.
AuthenticatedKey(k, n, t) == [id |-> k, prefix |-> n, tier |-> t]

AuthenticatedKeys == [id : KeyIds, prefix : Credentials, tier : Tiers]

CacheEntry(key, expires) == [key |-> key, expires |-> expires]

Idle == [at |-> "idle"]

Init ==
  /\ KeysInit
  /\ cache = [tok \in Tokens |-> NULL]
  /\ request = [r \in Requests |-> Idle]
  /\ touches = {}
  /\ grant = NULL
  /\ presented = {}

\* AuthCache::get: an entry is there until its time to live has passed.
CacheHit(tok) == cache[tok] # NULL /\ now < cache[tok].expires

Granted(tok, key) == [token |-> tok, key |-> key, time |-> now]

-----------------------------------------------------------------------------

\* A time-to-idle cache: a hit prolongs the entry.
AuthenticateFromCache_IdleTtl(r, tok) ==
  /\ request[r] = Idle
  /\ CacheHit(tok)
  /\ cache' = [cache EXCEPT ![tok] = CacheEntry(@.key, now + Ttl)]
  /\ grant' = Granted(tok, cache[tok].key)
  /\ presented' = presented \cup {tok.secret}
  /\ UNCHANGED <<now, keyVars, request, touches>>

\* resolve, cache hit.
AuthenticateFromCache(r, tok) ==
  /\ request[r] = Idle
  /\ CacheHit(tok)
  /\ grant' = Granted(tok, cache[tok].key)
  /\ presented' = presented \cup {tok.secret}
  /\ UNCHANGED <<now, keyVars, cache, request, touches>>

\* resolve, cache miss: the query goes out.
BeginLookup(r, tok) ==
  /\ request[r] = Idle
  /\ ~CacheHit(tok)
  /\ request' = [request EXCEPT ![r] = [at |-> "lookup", token |-> tok, started |-> now]]
  /\ UNCHANGED <<now, keyVars, cache, touches, grant, presented>>

\* keys::verify: the presented secret against the stored hash.
VerifySecret_PrefixOnly(tok, row) == tok.prefix = row.prefix
VerifySecret(tok, row) == tok.secret = row.secret_hash

\* The row is read and the secret verified; a miss or a mismatch answers 401.
Lookup(r) ==
  /\ request[r].at = "lookup"
  /\ LET tok == request[r].token
         k == FindActiveByPrefix(tok.prefix)
     IN request' = [request EXCEPT ![r] =
          IF k # NULL /\ VerifySecret(tok, keys[k])
          THEN [at |-> "insert", token |-> tok, started |-> request[r].started,
                key |-> AuthenticatedKey(k, tok.prefix, keys[k].tier)]
          ELSE Idle]
  /\ UNCHANGED <<now, keyVars, cache, touches, grant, presented>>

\* The query fails (500), or the timeout layer drops the request.
Abandon(r) ==
  /\ request[r] # Idle
  /\ request' = [request EXCEPT ![r] = Idle]
  /\ UNCHANGED <<now, keyVars, cache, touches, grant, presented>>

\* The row touch_last_used is asked for.
TouchTarget(req) == req.key.prefix

\* resolve ends: the cache is filled, last_used_at is left to a spawned task and
\* the request goes on.
InsertAndGrant(r) ==
  /\ request[r].at = "insert"
  /\ cache' = [cache EXCEPT ![request[r].token] = CacheEntry(request[r].key, now + Ttl)]
  /\ grant' = Granted(request[r].token, request[r].key)
  /\ presented' = presented \cup {request[r].token.secret}
  /\ touches' = touches \cup {TouchTarget(request[r])}
  /\ request' = [request EXCEPT ![r] = Idle]
  /\ UNCHANGED <<now, keyVars>>

\* The spawned task writes last_used_at.
TouchLastUsed(n) ==
  /\ n \in touches
  /\ touches' = touches \ {n}
  /\ keys' = TouchedKeys(n)
  /\ UNCHANGED <<now, issued, issuedTo, retiredAt, cache, request, grant, presented>>

\* Its failure is only logged.
TouchFails(n) ==
  /\ n \in touches
  /\ touches' = touches \ {n}
  /\ UNCHANGED <<now, keyVars, cache, request, grant, presented>>

\* Capacity: the cache drops an entry when it likes.
Evict(tok) ==
  /\ cache[tok] # NULL
  /\ cache' = [cache EXCEPT ![tok] = NULL]
  /\ UNCHANGED <<now, keyVars, request, touches, grant, presented>>

\* The process restarts: cache, requests and spawned tasks are gone.
Restart ==
  /\ cache' = [tok \in Tokens |-> NULL]
  /\ request' = [r \in Requests |-> Idle]
  /\ touches' = {}
  /\ UNCHANGED <<now, keyVars, grant, presented>>

\* No request outlives the timeout layer.
Tick ==
  /\ now < MaxTime
  /\ \A r \in Requests : request[r] # Idle => now < request[r].started + RequestTimeout
  /\ now' = now + 1
  /\ UNCHANGED <<keyVars, authVars>>

Manage == ManageKeys /\ UNCHANGED <<now, authVars>>

Next ==
  \/ Tick \/ Manage \/ Restart
  \/ \E r \in Requests, tok \in Tokens : AuthenticateFromCache(r, tok) \/ BeginLookup(r, tok)
  \/ \E r \in Requests : Lookup(r) \/ Abandon(r) \/ InsertAndGrant(r)
  \/ \E n \in Credentials : TouchLastUsed(n) \/ TouchFails(n)
  \/ \E tok \in Tokens : Evict(tok)

Spec == Init /\ [][Next]_vars

-----------------------------------------------------------------------------
(* Properties.                                                             *)

InFlight ==
  {Idle} \cup [at : {"lookup"}, token : Tokens, started : Nat]
         \cup [at : {"insert"}, token : Tokens, started : Nat, key : AuthenticatedKeys]

\* Type invariant: a request waits for the key lookup or holds the key it read,
\* and only credentials that exist are touched.
TypeOK ==
  /\ now \in Nat
  /\ keys \in [KeyIds -> KeyRows \cup {NULL}]
  /\ issued \in 0 .. MaxIssued
  /\ issuedTo \in [Credentials -> [id : KeyIds, tier : Tiers] \cup {NULL}]
  /\ retiredAt \in [Credentials -> Nat \cup {NULL}]
  /\ cache \in [Tokens -> [key : AuthenticatedKeys, expires : Nat] \cup {NULL}]
  /\ request \in [Requests -> InFlight]
  /\ touches \subseteq Credentials
  /\ grant \in [token : Tokens, key : AuthenticatedKeys, time : Nat] \cup {NULL}
  /\ presented \subseteq Credentials

\* A request is let through only with a token that was handed out whole, and it
\* runs as the key and tier that token was issued for, whatever rotations,
\* revocations, evictions and concurrent lookups lie between.
GrantIsTheIssuedKey ==
  grant # NULL =>
     /\ grant.token.prefix = grant.token.secret
     /\ issuedTo[grant.token.secret] = [id |-> grant.key.id, tier |-> grant.key.tier]
     /\ grant.key.prefix = grant.token.prefix

\* A revoked or rotated token is let through for at most the cache's time to live
\* plus one request timeout after the database stopped accepting it: the lookup
\* that read the row before may still be on its way to the cache.
StaleGrantBounded ==
  grant # NULL /\ retiredAt[grant.token.secret] # NULL =>
     grant.time <= retiredAt[grant.token.secret] + Ttl + RequestTimeout

\* The dashboard and the command line show a key as used only if its present
\* secret was: the last_used_at write of a request made with the old secret,
\* still under way when the key is rotated, does not mark the new one
\* (touch_last_used is by prefix).
UsedMeansPresented ==
  /\ \A u \in Users : \A v \in ListKeys(u) : v.used => v.prefix \in presented
  /\ \A v \in CliListKeys : v.used => v.prefix \in presented

=============================================================================
