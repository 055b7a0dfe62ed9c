-------------------------- MODULE CredentialProofs ---------------------------
(***************************************************************************)
(* The two credentials the API takes.  API keys: how long a revoked or     *)
(* rotated key can still be let through, and as whom, for any number of    *)
(* users, keys, requests and any timeouts.  Dashboard sessions: whose      *)
(* session a token is and when it ends, for any number of browsers,        *)
(* accounts, concurrent callbacks and requests.                            *)
(***************************************************************************)
EXTENDS AuthCache, Sessions, TLAPS

(******************************** API keys *********************************)

\* A credential n that belongs to key k of tier t.
IssuedTo(n, k, t) == issuedTo[n] = [id |-> k, tier |-> t]

\* What the table keeps true: a row carries one credential whole, the one issued
\* for it; an active row's credential is not retired, nor is one yet to be issued.
RowsInv ==
  /\ \A k \in KeyIds : keys[k] # NULL =>
        /\ keys[k].prefix = keys[k].secret_hash
        /\ keys[k].prefix <= issued
        /\ IssuedTo(keys[k].prefix, k, keys[k].tier)
        /\ ~keys[k].revoked => retiredAt[keys[k].prefix] = NULL
  /\ \A n \in Credentials : n > issued => retiredAt[n] = NULL

\* A key read from the database and the token it was read for.
Matches(tok, key) ==
  /\ tok.prefix = tok.secret
  /\ tok.secret <= issued
  /\ key.prefix = tok.prefix
  /\ IssuedTo(tok.secret, key.id, key.tier)

\* A request under way is younger than the timeout, and a token it has verified
\* was good when it started.
RequestInv ==
  \A r \in Requests : request[r] # Idle =>
     /\ request[r].started <= now
     /\ now <= request[r].started + RequestTimeout
     /\ request[r].at = "insert" =>
          /\ Matches(request[r].token, request[r].key)
          /\ retiredAt[request[r].token.secret] # NULL =>
                request[r].started <= retiredAt[request[r].token.secret]

\* A cache entry dies within the time to live, and within the bound after its
\* token was retired.
CacheInv ==
  \A tok \in Tokens : cache[tok] # NULL =>
     /\ Matches(tok, cache[tok].key)
     /\ cache[tok].expires <= now + Ttl
     /\ retiredAt[tok.secret] # NULL =>
           cache[tok].expires <= retiredAt[tok.secret] + Ttl + RequestTimeout

GrantInv ==
  grant # NULL =>
     /\ Matches(grant.token, grant.key)
     /\ grant.time <= now
     /\ retiredAt[grant.token.secret] # NULL =>
           grant.time <= retiredAt[grant.token.secret] + Ttl + RequestTimeout

AuthInv == TypeOK /\ RowsInv /\ RequestInv /\ CacheInv /\ GrantInv

\* Membership is a truth value.
LEMMA IsTruth == \A x, S : (x \in S) \in BOOLEAN
OBVIOUS

\* The number of the next credential is a credential while the bound allows one.
LEMMA NextCredential ==
  ASSUME issued \in 0 .. MaxIssued, issued < MaxIssued
  PROVE  issued + 1 \in Credentials /\ issued + 1 \in 0 .. MaxIssued
BY KeyConstants DEF Credentials

\* A credential is issued to one key.
LEMMA OneKey ==
  ASSUME NEW n, NEW j, NEW k, NEW s, NEW t, IssuedTo(n, j, s), IssuedTo(n, k, t)
  PROVE  j = k
<1>1. issuedTo[n].id = j
  BY DEF IssuedTo
<1>2. issuedTo[n].id = k
  BY DEF IssuedTo
<1> QED BY <1>1, <1>2

\* The empty table and the empty cache satisfy the invariant.
LEMMA AuthInvInit == Init => AuthInv
<1> SUFFICES ASSUME Init PROVE AuthInv
  OBVIOUS
<1> USE KeyConstants, AuthConstants
<1>1. TypeOK
  BY DEF Init, KeysInit, TypeOK, InFlight, Idle
<1>2. RowsInv
  BY DEF Init, KeysInit, RowsInv, Credentials
<1>3. RequestInv /\ CacheInv /\ GrantInv
  BY DEF Init, KeysInit, RequestInv, CacheInv, GrantInv, Idle
<1> QED
  BY <1>1, <1>2, <1>3 DEF AuthInv

\* What any change of the table does: the old credentials keep their keys, time
\* stands still, and a credential that becomes retired is retired now.
TableStep ==
  /\ issued' \in 0 .. MaxIssued
  /\ issued <= issued'
  /\ issuedTo' \in [Credentials -> [id : KeyIds, tier : Tiers] \cup {NULL}]
  /\ \A n \in Credentials : n <= issued => issuedTo'[n] = issuedTo[n]
  /\ retiredAt' \in [Credentials -> Nat \cup {NULL}]
  /\ \A n \in Credentials : retiredAt'[n] = retiredAt[n] \/ retiredAt'[n] = now
  /\ keys' \in [KeyIds -> KeyRows \cup {NULL}]

\* Issuing a key keeps the rows' invariant.
LEMMA IssueStep ==
  ASSUME AuthInv, NEW u \in Users, NEW t \in Tiers, IssueKey(u, t)
  PROVE  TableStep /\ RowsInv'
<1> USE KeyConstants
<1>1. PICK k \in KeyIds :
         /\ keys[k] = NULL
         /\ Generate(k, t)
         /\ keys' = [keys EXCEPT ![k] = KeyRow(u, t, issued + 1)]
         /\ UNCHANGED retiredAt
  BY Zenon DEF IssueKey
<1>2. /\ issued + 1 \in Credentials /\ issued + 1 \in 0 .. MaxIssued
      /\ issued \in Nat /\ now \in Nat
  BY <1>1, NextCredential DEF AuthInv, TypeOK, Generate
<1>3. KeyRow(u, t, issued + 1) \in KeyRows
  BY <1>2 DEF KeyRow, KeyRows
<1>4. TableStep
  BY <1>1, <1>2, <1>3 DEF AuthInv, TypeOK, TableStep, Generate, Credentials
<1>5. RowsInv'
  <2>1. ASSUME NEW j \in KeyIds, keys'[j] # NULL
        PROVE  /\ keys'[j].prefix = keys'[j].secret_hash
               /\ keys'[j].prefix <= issued'
               /\ issuedTo'[keys'[j].prefix] = [id |-> j, tier |-> keys'[j].tier]
               /\ ~keys'[j].revoked => retiredAt'[keys'[j].prefix] = NULL
    <3>1. CASE j = k
      BY <1>1, <1>2, <3>1 DEF AuthInv, TypeOK, RowsInv, Generate, KeyRow
    <3>2. CASE j # k
      BY <1>1, <1>2, <2>1, <3>2 DEF AuthInv, TypeOK, RowsInv, IssuedTo, Generate, KeyRows, Credentials
    <3> QED BY <3>1, <3>2
  <2>2. \A n \in Credentials : n > issued' => retiredAt'[n] = NULL
    BY <1>1, <1>2 DEF AuthInv, RowsInv, Generate, Credentials
  <2> QED BY <2>1, <2>2, Zenon DEF RowsInv, IssuedTo
<1> QED BY <1>4, <1>5

\* Rotating a key keeps the rows' invariant.
LEMMA RotateStep ==
  ASSUME AuthInv, NEW u \in Users, NEW k \in KeyIds, RotateKey(u, k)
  PROVE  TableStep /\ RowsInv'
<1> USE KeyConstants
<1>1. /\ keys[k] # NULL /\ keys[k] \in KeyRows /\ keys[k].tier \in Tiers
      /\ keys[k].prefix \in Credentials /\ keys[k].prefix <= issued
      /\ issued < MaxIssued
  BY Zenon DEF RotateKey, RotateForUser, ActiveRow, Generate, AuthInv, TypeOK, RowsInv, KeyRows
<1>2. /\ issued + 1 \in Credentials /\ issued + 1 \in 0 .. MaxIssued
      /\ issued \in Nat /\ now \in Nat
  BY <1>1, NextCredential DEF AuthInv, TypeOK
<1>3. KeyRow(u, keys[k].tier, issued + 1) \in KeyRows
  BY <1>1, <1>2 DEF KeyRow, KeyRows
<1>4. TableStep
  BY <1>1, <1>2, <1>3 DEF RotateKey, RotateForUser, Retire, AuthInv, TypeOK, TableStep, Generate, Credentials
<1>5. RowsInv'
  <2>1. ASSUME NEW j \in KeyIds, keys'[j] # NULL
        PROVE  /\ keys'[j].prefix = keys'[j].secret_hash
               /\ keys'[j].prefix <= issued'
               /\ issuedTo'[keys'[j].prefix] = [id |-> j, tier |-> keys'[j].tier]
               /\ ~keys'[j].revoked => retiredAt'[keys'[j].prefix] = NULL
    <3>1. CASE j = k
      <4>1. keys'[j] = KeyRow(u, keys[k].tier, issued + 1)
        BY <3>1, Zenon DEF RotateKey, RotateForUser, AuthInv, TypeOK
      <4>2. retiredAt[issued + 1] = NULL /\ keys[k].prefix # issued + 1
        BY <1>1, <1>2 DEF AuthInv, RowsInv, Credentials
      <4> QED BY <1>1, <1>2, <3>1, <4>1, <4>2
              DEF RotateKey, RotateForUser, Retire, Generate, AuthInv, TypeOK, KeyRow
    <3>2. CASE j # k
      <4>1. keys'[j] = keys[j] /\ keys[j] \in KeyRows
        BY <2>1, <3>2, Zenon DEF RotateKey, RotateForUser, AuthInv, TypeOK
      <4>2. keys[j].prefix # keys[k].prefix
        BY <1>1, <2>1, <3>2, <4>1, OneKey, Zenon DEF AuthInv, RowsInv
      <4>3. keys[j].prefix \in Credentials /\ keys[j].prefix <= issued
        BY <2>1, <4>1, Zenon DEF AuthInv, RowsInv, KeyRows
      <4>4. issuedTo'[keys[j].prefix] = issuedTo[keys[j].prefix]
        BY <1>2, <4>3 DEF RotateKey, RotateForUser, Generate, AuthInv, TypeOK, Credentials
      <4>5. retiredAt'[keys[j].prefix] = retiredAt[keys[j].prefix]
        BY <4>2, <4>3, Zenon DEF RotateKey, RotateForUser, Retire, AuthInv, TypeOK
      <4> QED BY <1>2, <2>1, <4>1, <4>3, <4>4, <4>5
              DEF RotateKey, RotateForUser, Generate, AuthInv, RowsInv, IssuedTo, Credentials
    <3> QED BY <3>1, <3>2, Zenon
  <2>2. \A n \in Credentials : n > issued' => retiredAt'[n] = NULL
    BY <1>1, <1>2 DEF RotateKey, RotateForUser, Retire, Generate, AuthInv, TypeOK, RowsInv, Credentials
  <2> QED BY <2>1, <2>2, Zenon DEF RowsInv, IssuedTo
<1> QED BY <1>4, <1>5

\* Revoking a row, by id or by prefix, keeps the rows' invariant.
LEMMA RevokeStep ==
  ASSUME AuthInv, NEW k \in KeyIds, ActiveRow(k),
         keys' = [keys EXCEPT ![k] = RevokedRow(@)],
         Retire(keys[k].prefix), UNCHANGED <<issued, issuedTo>>
  PROVE  TableStep /\ RowsInv'
<1> USE KeyConstants
<1>1. /\ keys[k] # NULL /\ keys[k] \in KeyRows
      /\ keys[k].prefix \in Credentials /\ keys[k].prefix <= issued
      /\ issued \in Nat /\ now \in Nat
  BY DEF ActiveRow, AuthInv, TypeOK, RowsInv, KeyRows
<1>2. /\ keys'[k] \in KeyRows /\ keys'[k].revoked
      /\ keys'[k].prefix = keys[k].prefix /\ keys'[k].secret_hash = keys[k].secret_hash
      /\ keys'[k].tier = keys[k].tier
  BY <1>1, Zenon DEF RevokedRow, KeyRows, AuthInv, TypeOK
<1>3. \A j \in KeyIds : j # k => keys'[j] = keys[j]
  BY Zenon DEF AuthInv, TypeOK
<1>4. TableStep
  BY <1>1, <1>2, <1>3 DEF Retire, AuthInv, TypeOK, TableStep
<1>5. \A j \in KeyIds : j # k /\ keys[j] # NULL => keys[j].prefix # keys[k].prefix
  BY <1>1, OneKey, Zenon DEF AuthInv, RowsInv
<1>6. RowsInv'
  <2>1. \A j \in KeyIds : j # k /\ keys[j] # NULL => retiredAt'[keys[j].prefix] = retiredAt[keys[j].prefix]
    BY <1>1, <1>5, Zenon DEF Retire, AuthInv, TypeOK, KeyRows
  <2>2. \A n \in Credentials : n > issued => retiredAt'[n] = NULL
    BY <1>1 DEF Retire, AuthInv, TypeOK, RowsInv, Credentials
  <2> QED BY <1>1, <1>2, <1>3, <2>1, <2>2 DEF AuthInv, RowsInv, IssuedTo
<1> QED BY <1>4, <1>6

\* A change of the table leaves requests, cache entries and grants within their
\* bounds: what is retired now was good until now.
LEMMA TableKeepsInv ==
  ASSUME AuthInv, TableStep, RowsInv', UNCHANGED <<now, authVars>>
  PROVE  AuthInv'
<1> USE KeyConstants, AuthConstants
<1>1. TypeOK'
  BY Zenon DEF AuthInv, TypeOK, TableStep, authVars
<1>2. \A tok \in Tokens : tok.secret \in Credentials
  BY DEF Tokens
<1>3. \A tok, key : tok.secret \in Credentials /\ Matches(tok, key) => Matches(tok, key)'
  BY DEF AuthInv, TypeOK, TableStep, Matches, IssuedTo, Credentials
<1>4. RequestInv'
  <2> SUFFICES ASSUME NEW r \in Requests, request[r] # Idle
               PROVE  /\ request[r].started <= now
                      /\ now <= request[r].started + RequestTimeout
                      /\ request[r].at = "insert" =>
                           /\ Matches(request[r].token, request[r].key)'
                           /\ retiredAt'[request[r].token.secret] # NULL =>
                                request[r].started <= retiredAt'[request[r].token.secret]
    BY Zenon DEF RequestInv, authVars, Matches, IssuedTo
  <2>1. request[r] \in InFlight
    BY Zenon DEF AuthInv, TypeOK
  <2>2. request[r].at = "insert" => request[r].token \in Tokens
    BY <2>1, Zenon DEF InFlight, Idle
  <2>3. request[r].at = "insert" => request[r].token.secret \in Credentials
    BY <1>2, <2>2, Zenon
  <2> QED BY <1>3, <2>3, Zenon DEF AuthInv, RequestInv, TableStep, authVars
<1>5. CacheInv'
  <2> SUFFICES ASSUME NEW tok \in Tokens, cache[tok] # NULL
               PROVE  /\ Matches(tok, cache[tok].key)'
                      /\ cache[tok].expires <= now + Ttl
                      /\ retiredAt'[tok.secret] # NULL =>
                           cache[tok].expires <= retiredAt'[tok.secret] + Ttl + RequestTimeout
    BY Zenon DEF CacheInv, authVars, Matches, IssuedTo
  <2>1. cache[tok].expires \in Nat /\ now \in Nat /\ tok.secret \in Credentials
    BY <1>2, Zenon DEF AuthInv, TypeOK
  <2> QED BY <1>3, <2>1 DEF AuthInv, CacheInv, TableStep, authVars
<1>6. GrantInv'
  <2> SUFFICES ASSUME grant # NULL
               PROVE  /\ Matches(grant.token, grant.key)'
                      /\ grant.time <= now
                      /\ retiredAt'[grant.token.secret] # NULL =>
                           grant.time <= retiredAt'[grant.token.secret] + Ttl + RequestTimeout
    BY Zenon DEF GrantInv, authVars, Matches, IssuedTo
  <2>1. grant.time \in Nat /\ now \in Nat /\ grant.token.secret \in Credentials
    BY <1>2, Zenon DEF AuthInv, TypeOK
  <2> QED BY <1>3, <2>1 DEF AuthInv, GrantInv, TableStep, authVars
<1> QED BY <1>1, <1>4, <1>5, <1>6 DEF AuthInv

\* Every dashboard and command-line operation keeps the invariant.
LEMMA ManageKeepsInv == ASSUME AuthInv, Manage PROVE AuthInv'
<1>1. UNCHANGED <<now, authVars>>
  BY DEF Manage
<1>2. CASE \E u \in Users, t \in Tiers : CreateKey(u, t) \/ CliCreateKey(u, t)
  BY <1>1, <1>2, IssueStep, TableKeepsInv DEF CreateKey, CliCreateKey
<1>3. CASE \E u \in Users, k \in KeyIds : RotateKey(u, k)
  BY <1>1, <1>3, RotateStep, TableKeepsInv
<1>4. CASE \E u \in Users, k \in KeyIds : RevokeKey(u, k)
  BY <1>1, <1>4, RevokeStep, TableKeepsInv, Zenon DEF RevokeKey, RevokeForUser
<1>5. CASE \E n \in Credentials : CliRevokeKey(n)
  BY <1>1, <1>5, RevokeStep, TableKeepsInv, Zenon DEF CliRevokeKey, Revoke
<1> QED BY <1>2, <1>3, <1>4, <1>5, Zenon DEF Manage, ManageKeys

\* The last_used_at write, by prefix, keeps the invariant.
LEMMA TouchKeepsInv ==
  ASSUME AuthInv, NEW n \in Credentials, TouchLastUsed(n)
  PROVE  AuthInv'
<1> USE KeyConstants
<1>1. ASSUME NEW k \in KeyIds, keys[k] # NULL
      PROVE  /\ keys[k] \in KeyRows /\ keys'[k] \in KeyRows
             /\ keys'[k].prefix = keys[k].prefix /\ keys'[k].secret_hash = keys[k].secret_hash
             /\ keys'[k].tier = keys[k].tier /\ keys'[k].revoked = keys[k].revoked
  BY <1>1, Zenon DEF AuthInv, TypeOK, TouchLastUsed, TouchedKeys, KeyRows
<1>2. ASSUME NEW k \in KeyIds, keys[k] = NULL PROVE keys'[k] = NULL
  BY <1>2, Zenon DEF TouchLastUsed, TouchedKeys
<1>3. TypeOK'
  <2>1. keys' \in [KeyIds -> KeyRows \cup {NULL}]
    BY <1>1, <1>2, Zenon DEF TouchLastUsed, TouchedKeys
  <2> QED BY <2>1, Zenon DEF AuthInv, TypeOK, TouchLastUsed
<1>4. RowsInv'
  BY <1>1, <1>2 DEF AuthInv, RowsInv, IssuedTo, TouchLastUsed
<1>5. RequestInv' /\ CacheInv' /\ GrantInv'
  BY Zenon DEF AuthInv, RequestInv, CacheInv, GrantInv, Matches, IssuedTo, TouchLastUsed
<1> QED BY <1>3, <1>4, <1>5, Zenon DEF AuthInv

\* Steps that leave the table and the clock alone keep the rows' invariant.
LEMMA RowsStay ==
  ASSUME RowsInv, UNCHANGED keyVars
  PROVE  RowsInv'
BY Zenon DEF RowsInv, IssuedTo, keyVars

\* Requests that end, or go on as they were, stay within their bounds.
LEMMA RequestsStay ==
  ASSUME RequestInv, UNCHANGED <<now, keyVars>>,
         \A q \in Requests : request'[q] # Idle => request'[q] = request[q]
  PROVE  RequestInv'
<1> SUFFICES ASSUME NEW q \in Requests, request'[q] # Idle
             PROVE  /\ request'[q].started <= now
                    /\ now <= request'[q].started + RequestTimeout
                    /\ request'[q].at = "insert" =>
                         /\ Matches(request'[q].token, request'[q].key)
                         /\ retiredAt[request'[q].token.secret] # NULL =>
                              request'[q].started <= retiredAt[request'[q].token.secret]
  BY Zenon DEF RequestInv, keyVars, Matches, IssuedTo
<1>1. request'[q] = request[q] /\ request[q] # Idle
  BY Zenon
<1> QED BY <1>1, Zenon DEF RequestInv

\* Cache entries that go, or stay as they were, keep their bounds.
LEMMA EntriesStay ==
  ASSUME CacheInv, UNCHANGED <<now, keyVars>>,
         \A tok \in Tokens : cache'[tok] # NULL => cache'[tok] = cache[tok]
  PROVE  CacheInv'
<1> SUFFICES ASSUME NEW tok \in Tokens, cache'[tok] # NULL
             PROVE  /\ Matches(tok, cache'[tok].key)
                    /\ cache'[tok].expires <= now + Ttl
                    /\ retiredAt[tok.secret] # NULL =>
                         cache'[tok].expires <= retiredAt[tok.secret] + Ttl + RequestTimeout
  BY Zenon DEF CacheInv, keyVars, Matches, IssuedTo
<1>1. cache'[tok] = cache[tok] /\ cache[tok] # NULL
  BY Zenon
<1> QED BY <1>1, Zenon DEF CacheInv

\* A lookup that verifies its token read an active row, so the token was good.
LEMMA LookupKeepsInv ==
  ASSUME AuthInv, NEW r \in Requests, Lookup(r)
  PROVE  AuthInv'
<1> USE KeyConstants, AuthConstants
<1> DEFINE tok == request[r].token
           k == FindActiveByPrefix(tok.prefix)
           key == AuthenticatedKey(k, tok.prefix, keys[k].tier)
           verified == k # NULL /\ VerifySecret(tok, keys[k])
<1>1. UNCHANGED <<now, keyVars, cache, touches, grant, presented>>
  BY Zenon DEF Lookup
<1>2. request[r] \in [at : {"lookup"}, token : Tokens, started : Nat]
  BY DEF Lookup, AuthInv, TypeOK, InFlight, Idle
<1>3. tok \in Tokens /\ tok.prefix \in Credentials /\ tok.secret \in Credentials
      /\ request[r].started \in Nat
  BY <1>2, Zenon DEF Tokens
<1>4. ASSUME k # NULL
      PROVE  k \in KeyIds /\ keys[k] # NULL /\ ~keys[k].revoked /\ keys[k].prefix = tok.prefix
  BY <1>4, Zenon DEF FindActiveByPrefix, ActiveRow
<1>5. ASSUME verified
      PROVE  /\ key \in AuthenticatedKeys
             /\ Matches(tok, key)
             /\ retiredAt[tok.secret] = NULL
  <2>1. /\ k \in KeyIds /\ keys[k] # NULL /\ keys[k] \in KeyRows
        /\ ~keys[k].revoked /\ keys[k].prefix = tok.prefix
        /\ keys[k].secret_hash = tok.secret /\ keys[k].tier \in Tiers
    BY <1>4, <1>5, Zenon DEF VerifySecret, AuthInv, TypeOK, KeyRows
  <2>2. key \in AuthenticatedKeys
    BY <1>3, <2>1, Zenon DEF AuthenticatedKey, AuthenticatedKeys
  <2>3. key.id = k /\ key.prefix = tok.prefix /\ key.tier = keys[k].tier
    BY Zenon DEF AuthenticatedKey
  <2> HIDE DEF key, k, tok
  <2>4. Matches(tok, key) /\ retiredAt[tok.secret] = NULL
    BY <2>1, <2>3, Zenon DEF Matches, AuthInv, RowsInv
  <2> QED BY <2>2, <2>4, Zenon
<1> DEFINE done == [at |-> "insert", token |-> tok, started |-> request[r].started, key |-> key]
<1>6. request' = [request EXCEPT ![r] = IF verified THEN done ELSE Idle]
  BY Zenon DEF Lookup
<1>7. request[r] # Idle /\ request[r].started <= now /\ now <= request[r].started + RequestTimeout
  BY <1>2 DEF Idle, AuthInv, RequestInv
<1> HIDE DEF tok, k, key, verified
<1>8. verified => done \in InFlight
  BY <1>3, <1>5, Zenon DEF InFlight
<1>9. TypeOK'
  <2>1. request' \in [Requests -> InFlight]
    BY <1>6, <1>8, Zenon DEF AuthInv, TypeOK, InFlight
  <2> QED BY <1>1, <2>1, Zenon DEF AuthInv, TypeOK, keyVars
<1>10. RequestInv'
  <2> SUFFICES ASSUME NEW q \in Requests, request'[q] # Idle
               PROVE  /\ request'[q].started <= now
                      /\ now <= request'[q].started + RequestTimeout
                      /\ request'[q].at = "insert" =>
                           /\ Matches(request'[q].token, request'[q].key)
                           /\ retiredAt[request'[q].token.secret] # NULL =>
                                request'[q].started <= retiredAt[request'[q].token.secret]
    BY <1>1, Zenon DEF RequestInv, keyVars, Matches, IssuedTo
  <2>1. CASE q # r
    <3>1. request'[q] = request[q]
      BY <1>6, <2>1, Zenon DEF AuthInv, TypeOK
    <3> QED BY <3>1, Zenon DEF AuthInv, RequestInv
  <2>2. CASE q = r
    <3>1. verified /\ request'[q] = done
      BY <1>6, <2>2, Zenon DEF AuthInv, TypeOK
    <3> QED BY <1>5, <1>7, <3>1
  <2> QED BY <2>1, <2>2, Zenon
<1>11. RowsInv' /\ CacheInv' /\ GrantInv'
  BY <1>1, RowsStay, Zenon DEF AuthInv, CacheInv, GrantInv, Matches, IssuedTo, keyVars
<1> QED BY <1>9, <1>10, <1>11, Zenon DEF AuthInv

\* A cache entry made by a verified request dies in time.
LEMMA InsertKeepsInv ==
  ASSUME AuthInv, NEW r \in Requests, InsertAndGrant(r)
  PROVE  AuthInv'
<1> USE KeyConstants, AuthConstants
<1> DEFINE tok == request[r].token
           key == request[r].key
<1>1. UNCHANGED <<now, keyVars>>
  BY Zenon DEF InsertAndGrant
<1>2. request[r] \in [at : {"insert"}, token : Tokens, started : Nat, key : AuthenticatedKeys]
  BY DEF InsertAndGrant, AuthInv, TypeOK, InFlight, Idle
<1>3. /\ tok \in Tokens /\ tok.secret \in Credentials /\ key \in AuthenticatedKeys
      /\ key.prefix \in Credentials /\ request[r].started \in Nat
      /\ now \in Nat /\ request[r] # Idle
  BY <1>2 DEF Tokens, AuthenticatedKeys, Idle, AuthInv, TypeOK
<1>4. /\ now <= request[r].started + RequestTimeout
      /\ Matches(tok, key)
      /\ retiredAt[tok.secret] # NULL => request[r].started <= retiredAt[tok.secret]
  BY <1>2, <1>3, Zenon DEF AuthInv, RequestInv
<1>5. retiredAt[tok.secret] # NULL =>
        now <= retiredAt[tok.secret] + RequestTimeout /\ retiredAt[tok.secret] \in Nat
  BY <1>3, <1>4 DEF AuthInv, TypeOK
<1>6. /\ cache' = [cache EXCEPT ![tok] = [key |-> key, expires |-> now + Ttl]]
      /\ grant' = [token |-> tok, key |-> key, time |-> now]
      /\ presented' = presented \cup {tok.secret}
      /\ touches' = touches \cup {key.prefix}
      /\ request' = [request EXCEPT ![r] = Idle]
  BY Zenon DEF InsertAndGrant, CacheEntry, Granted, TouchTarget
<1> HIDE DEF tok, key
<1>7. TypeOK'
  <2>1. cache' \in [Tokens -> [key : AuthenticatedKeys, expires : Nat] \cup {NULL}]
    BY <1>3, <1>6 DEF AuthInv, TypeOK
  <2>2. grant' \in [token : Tokens, key : AuthenticatedKeys, time : Nat] \cup {NULL}
    BY <1>3, <1>6, Zenon
  <2>3. request' \in [Requests -> InFlight]
    BY <1>6, Zenon DEF AuthInv, TypeOK, InFlight
  <2>4. presented' \subseteq Credentials /\ touches' \subseteq Credentials
    BY <1>3, <1>6, Zenon DEF AuthInv, TypeOK
  <2> QED BY <1>1, <2>1, <2>2, <2>3, <2>4, Zenon DEF AuthInv, TypeOK, keyVars
<1>8. RequestInv'
  <2>1. \A q \in Requests : request'[q] # Idle => request'[q] = request[q]
    BY <1>6, Zenon DEF AuthInv, TypeOK
  <2> QED BY <1>1, <2>1, RequestsStay, Zenon DEF AuthInv
<1>9. CacheInv'
  <2> SUFFICES ASSUME NEW t \in Tokens, cache'[t] # NULL
               PROVE  /\ Matches(t, cache'[t].key)
                      /\ cache'[t].expires <= now + Ttl
                      /\ retiredAt[t.secret] # NULL =>
                           cache'[t].expires <= retiredAt[t.secret] + Ttl + RequestTimeout
    BY <1>1, Zenon DEF CacheInv, keyVars, Matches, IssuedTo
  <2>1. CASE t # tok
    <3>1. cache'[t] = cache[t]
      BY <1>6, <2>1, Zenon DEF AuthInv, TypeOK
    <3> QED BY <3>1, Zenon DEF AuthInv, CacheInv
  <2>2. CASE t = tok
    <3>1. cache'[t].key = key /\ cache'[t].expires = now + Ttl
      BY <1>3, <1>6, <2>2, Zenon DEF AuthInv, TypeOK
    <3> QED BY <1>3, <1>4, <1>5, <2>2, <3>1
  <2> QED BY <2>1, <2>2, Zenon
<1>10. GrantInv'
  <2>1. grant'.token = tok /\ grant'.key = key /\ grant'.time = now
    BY <1>6, Zenon
  <2> QED BY <1>1, <1>3, <1>4, <1>5, <2>1 DEF GrantInv, keyVars, Matches, IssuedTo
<1> QED BY <1>1, <1>7, <1>8, <1>9, <1>10, RowsStay, Zenon DEF AuthInv

\* A hit uses an entry that is still alive, so it is within the entry's bound.
LEMMA HitKeepsInv ==
  ASSUME AuthInv, NEW r \in Requests, NEW tok \in Tokens, AuthenticateFromCache(r, tok)
  PROVE  AuthInv'
<1> USE KeyConstants, AuthConstants
<1>1. UNCHANGED <<now, keyVars, cache, request, touches>>
  BY Zenon DEF AuthenticateFromCache
<1>2. /\ cache[tok] # NULL /\ now < cache[tok].expires
      /\ cache[tok] \in [key : AuthenticatedKeys, expires : Nat]
      /\ now \in Nat /\ tok.secret \in Credentials
      /\ retiredAt[tok.secret] # NULL => retiredAt[tok.secret] \in Nat
  BY Zenon DEF AuthenticateFromCache, CacheHit, AuthInv, TypeOK, Tokens
<1>3. /\ grant' = [token |-> tok, key |-> cache[tok].key, time |-> now]
      /\ presented' = presented \cup {tok.secret}
  BY Zenon DEF AuthenticateFromCache, Granted
<1>4. TypeOK'
  <2>1. grant' \in [token : Tokens, key : AuthenticatedKeys, time : Nat] \cup {NULL}
    BY <1>2, <1>3, Zenon
  <2> QED BY <1>1, <1>2, <1>3, <2>1, Zenon DEF AuthInv, TypeOK, keyVars
<1>5. RequestInv' /\ CacheInv'
  BY <1>1, Zenon DEF AuthInv, RequestInv, CacheInv, Matches, IssuedTo, keyVars
<1>6. GrantInv'
  <2>1. grant'.token = tok /\ grant'.key = cache[tok].key /\ grant'.time = now
    BY <1>3, Zenon
  <2>2. /\ Matches(tok, cache[tok].key)
        /\ retiredAt[tok.secret] # NULL => now <= retiredAt[tok.secret] + Ttl + RequestTimeout
    BY <1>2 DEF AuthInv, CacheInv
  <2> QED BY <1>1, <1>2, <2>1, <2>2 DEF GrantInv, keyVars, Matches, IssuedTo
<1> QED BY <1>1, <1>4, <1>5, <1>6, RowsStay, Zenon DEF AuthInv

\* Starting or dropping a request, dropping entries, a restart and the clock.
LEMMA OtherStepsKeepInv ==
  ASSUME AuthInv,
         \/ Tick \/ Restart
         \/ \E r \in Requests, tok \in Tokens : BeginLookup(r, tok)
         \/ \E r \in Requests : Abandon(r)
         \/ \E n \in Credentials : TouchFails(n)
         \/ \E tok \in Tokens : Evict(tok)
  PROVE  AuthInv'
<1> USE KeyConstants, AuthConstants
<1> USE DEF Matches, IssuedTo, keyVars
<1>1. CASE Tick
  <2>1. TypeOK' /\ RowsInv' /\ GrantInv'
    <3>1. now \in Nat /\ now' = now + 1 /\ now' \in Nat /\ UNCHANGED <<keyVars, authVars>>
      BY <1>1 DEF Tick, AuthInv, TypeOK
    <3>2. TypeOK'
      BY <3>1, Zenon DEF AuthInv, TypeOK, authVars
    <3>3. grant # NULL => grant.time \in Nat /\ grant.time <= now
      BY Zenon DEF AuthInv, TypeOK, GrantInv
    <3>4. grant # NULL => grant.time <= now'
      BY <3>1, <3>3
    <3>5. GrantInv'
      BY <3>1, <3>4, Zenon DEF AuthInv, GrantInv, authVars
    <3> QED BY <3>1, <3>2, <3>5, RowsStay, Zenon DEF AuthInv
  <2>2. RequestInv'
    <3> SUFFICES ASSUME NEW r \in Requests, request[r] # Idle
                 PROVE  request[r].started <= now + 1 /\ now + 1 <= request[r].started + RequestTimeout
      BY <1>1, Zenon DEF Tick, AuthInv, RequestInv, authVars
    <3>1. request[r].started \in Nat /\ now \in Nat
      BY Zenon DEF AuthInv, TypeOK, InFlight, Idle
    <3>2. request[r].started <= now
      BY Zenon DEF AuthInv, RequestInv
    <3>3. now < request[r].started + RequestTimeout
      BY <1>1, Zenon DEF Tick
    <3> QED BY <3>1, <3>2, <3>3
  <2>3. CacheInv'
    <3> SUFFICES ASSUME NEW tok \in Tokens, cache[tok] # NULL
                 PROVE  cache[tok].expires <= now + 1 + Ttl
      BY <1>1, Zenon DEF Tick, AuthInv, CacheInv, authVars
    <3>1. cache[tok].expires \in Nat /\ now \in Nat
      BY Zenon DEF AuthInv, TypeOK
    <3>2. cache[tok].expires <= now + Ttl
      BY Zenon DEF AuthInv, CacheInv
    <3> QED BY <3>1, <3>2
  <2> QED BY <2>1, <2>2, <2>3, Zenon DEF AuthInv
<1>2. CASE Restart
  BY <1>2, RowsStay, Zenon DEF Restart, AuthInv, TypeOK, InFlight, RequestInv, CacheInv, GrantInv
<1>3. CASE \E r \in Requests, tok \in Tokens : BeginLookup(r, tok)
  <2>1. PICK r \in Requests, tok \in Tokens : BeginLookup(r, tok)
    BY <1>3, Zenon
  <2> DEFINE new == [at |-> "lookup", token |-> tok, started |-> now]
  <2>2. new \in InFlight /\ new.at = "lookup" /\ new.started = now /\ now \in Nat
    BY Zenon DEF AuthInv, TypeOK, InFlight
  <2>3. request' = [request EXCEPT ![r] = new]
    BY <2>1, Zenon DEF BeginLookup
  <2> HIDE DEF new
  <2>4. TypeOK'
    <3>1. request' \in [Requests -> InFlight]
      BY <2>2, <2>3, Zenon DEF AuthInv, TypeOK
    <3> QED BY <2>1, <3>1, Zenon DEF BeginLookup, AuthInv, TypeOK
  <2>5. RequestInv'
    <3> SUFFICES ASSUME NEW q \in Requests, request'[q] # Idle
                 PROVE  /\ request'[q].started <= now
                        /\ now <= request'[q].started + RequestTimeout
                        /\ request'[q].at = "insert" =>
                             /\ Matches(request'[q].token, request'[q].key)
                             /\ retiredAt[request'[q].token.secret] # NULL =>
                                  request'[q].started <= retiredAt[request'[q].token.secret]
      BY <2>1, Zenon DEF BeginLookup, RequestInv
    <3>1. CASE q = r
      <4>1. request'[q] = new
        BY <2>3, <3>1, Zenon DEF AuthInv, TypeOK
      <4> QED BY <2>2, <4>1
    <3>2. CASE q # r
      <4>1. request'[q] = request[q]
        BY <2>3, <3>2, Zenon DEF AuthInv, TypeOK
      <4> QED BY <4>1, Zenon DEF AuthInv, RequestInv
    <3> QED BY <3>1, <3>2, Zenon
  <2>6. RowsInv' /\ CacheInv' /\ GrantInv'
    BY <2>1, RowsStay, Zenon DEF BeginLookup, AuthInv, CacheInv, GrantInv
  <2> QED BY <2>4, <2>5, <2>6, Zenon DEF AuthInv
<1>4. CASE \E r \in Requests : Abandon(r)
  <2>1. PICK r \in Requests : Abandon(r)
    BY <1>4, Zenon
  <2>2. TypeOK'
    BY <2>1, Zenon DEF Abandon, AuthInv, TypeOK, InFlight
  <2>3. \A q \in Requests : request'[q] # Idle => request'[q] = request[q]
    BY <2>1, Zenon DEF Abandon, AuthInv, TypeOK
  <2>4. RequestInv'
    BY <2>1, <2>3, RequestsStay, Zenon DEF Abandon, AuthInv
  <2> QED BY <2>1, <2>2, <2>4, RowsStay, Zenon DEF Abandon, AuthInv, CacheInv, GrantInv
<1>5. CASE \E n \in Credentials : TouchFails(n)
  <2>1. /\ touches' \subseteq touches
        /\ UNCHANGED <<now, keyVars, cache, request, grant, presented>>
    BY <1>5, Zenon DEF TouchFails
  <2>2. TypeOK'
    BY <2>1, Zenon DEF AuthInv, TypeOK
  <2>3. RequestInv' /\ CacheInv' /\ GrantInv'
    BY <2>1, Zenon DEF AuthInv, RequestInv, CacheInv, GrantInv
  <2> QED BY <2>1, <2>2, <2>3, RowsStay, Zenon DEF AuthInv
<1>6. CASE \E tok \in Tokens : Evict(tok)
  <2>1. PICK tok \in Tokens : Evict(tok)
    BY <1>6, Zenon
  <2>2. TypeOK'
    BY <2>1, Zenon DEF Evict, AuthInv, TypeOK
  <2>3. \A t \in Tokens : cache'[t] # NULL => cache'[t] = cache[t]
    BY <2>1, Zenon DEF Evict, AuthInv, TypeOK
  <2>4. CacheInv'
    BY <2>1, <2>3, EntriesStay, Zenon DEF Evict, AuthInv
  <2> QED BY <2>1, <2>2, <2>4, RowsStay, Zenon DEF Evict, AuthInv, RequestInv, GrantInv
<1> QED BY <1>1, <1>2, <1>3, <1>4, <1>5, <1>6

\* The invariant is inductive.
LEMMA AuthInvStep == AuthInv /\ [Next]_vars => AuthInv'
<1> SUFFICES ASSUME AuthInv, [Next]_vars PROVE AuthInv'
  OBVIOUS
<1>1. CASE UNCHANGED vars
  BY <1>1, Zenon DEF vars, AuthInv, TypeOK, RowsInv, RequestInv, CacheInv, GrantInv, Matches, IssuedTo
<1>2. CASE Next
  BY <1>2, ManageKeepsInv, TouchKeepsInv, LookupKeepsInv, InsertKeepsInv, HitKeepsInv, OtherStepsKeepInv, Zenon
  DEF Next
<1> QED BY <1>1, <1>2, Zenon

\* A key that was revoked or rotated is let through no later than the cache's time
\* to live plus one request timeout afterwards (auth.rs resolve and AuthCache).
THEOREM StaleGrants == Spec => []StaleGrantBounded
<1>1. AuthInv => StaleGrantBounded
  BY Zenon DEF AuthInv, GrantInv, StaleGrantBounded
<1> QED BY <1>1, AuthInvInit, AuthInvStep, PTL DEF Spec

\* A request that is let through runs as the key its token was issued for.
THEOREM GrantsMatch == Spec => []GrantIsTheIssuedKey
<1>1. AuthInv => GrantIsTheIssuedKey
  BY Zenon DEF AuthInv, GrantInv, Matches, IssuedTo, GrantIsTheIssuedKey
<1> QED BY <1>1, AuthInvInit, AuthInvStep, PTL DEF Spec

\* What stands behind "used": a row is marked used only for a secret that was
\* presented, and so is every last_used_at write still under way.
UsedInv ==
  /\ touches \subseteq presented
  /\ \A k \in KeyIds : keys[k] # NULL /\ keys[k].used => keys[k].prefix \in presented

\* A statement that changes row k keeps the mark honest when it leaves the row
\* unused or leaves its prefix and its mark alone.
LEMMA RowKeepsUsed ==
  ASSUME UsedInv, TypeOK, UNCHANGED authVars, NEW k \in KeyIds, NEW row,
         keys' = [keys EXCEPT ![k] = row],
         row.used => keys[k] # NULL /\ keys[k].used /\ row.prefix = keys[k].prefix
  PROVE  UsedInv'
<1>1. ASSUME NEW j \in KeyIds, keys'[j] # NULL, keys'[j].used
      PROVE  keys'[j].prefix \in presented
  <2>1. CASE j = k
    <3>1. keys'[j] = row
      BY <2>1, Zenon DEF TypeOK
    <3> QED BY <1>1, <3>1, Zenon DEF UsedInv
  <2>2. CASE j # k
    <3>1. keys'[j] = keys[j]
      BY <2>2, Zenon DEF TypeOK
    <3> QED BY <1>1, <3>1, Zenon DEF UsedInv
  <2> QED BY <2>1, <2>2, Zenon
<1> QED BY <1>1, Zenon DEF UsedInv, authVars

\* A key is created and rotated unused, and revoking it does not touch the mark.
LEMMA ManageKeepsUsed == ASSUME UsedInv, TypeOK, Manage PROVE UsedInv'
<1>1. UNCHANGED authVars
  BY Zenon DEF Manage
<1>2. \A u, t, n : KeyRow(u, t, n).used = FALSE
  BY Zenon DEF KeyRow
<1>3. CASE \E u \in Users, t \in Tiers : CreateKey(u, t) \/ CliCreateKey(u, t)
  <2>1. PICK u \in Users, t \in Tiers : IssueKey(u, t)
    BY <1>3, Zenon DEF CreateKey, CliCreateKey
  <2>2. PICK k \in KeyIds : keys' = [keys EXCEPT ![k] = KeyRow(u, t, issued + 1)]
    BY <2>1, Zenon DEF IssueKey
  <2> QED BY <1>1, <1>2, <2>2, RowKeepsUsed, Zenon
<1>4. CASE \E u \in Users, k \in KeyIds : RotateKey(u, k)
  <2>1. PICK u \in Users, k \in KeyIds : keys' = [keys EXCEPT ![k] = KeyRow(u, keys[k].tier, issued + 1)]
    BY <1>4, Zenon DEF RotateKey, RotateForUser
  <2> QED BY <1>1, <1>2, <2>1, RowKeepsUsed, Zenon
<1>5. CASE \/ \E u \in Users, k \in KeyIds : RevokeKey(u, k)
           \/ \E n \in Credentials : CliRevokeKey(n)
  <2>1. PICK k \in KeyIds : ActiveRow(k) /\ keys' = [keys EXCEPT ![k] = RevokedRow(@)]
    BY <1>5, Zenon DEF RevokeKey, RevokeForUser, CliRevokeKey, Revoke
  <2>2. keys[k] # NULL /\ keys[k] \in KeyRows
    BY <2>1, Zenon DEF ActiveRow, TypeOK
  <2>3. RevokedRow(keys[k]).used = keys[k].used /\ RevokedRow(keys[k]).prefix = keys[k].prefix
    BY <2>2, Zenon DEF RevokedRow, KeyRows
  <2> QED BY <1>1, <2>1, <2>2, <2>3, RowKeepsUsed, Zenon
<1> QED BY <1>3, <1>4, <1>5, Zenon DEF Manage, ManageKeys

\* The last_used_at write marks the row that carries the presented prefix, if any.
LEMMA TouchKeepsUsed ==
  ASSUME UsedInv, TypeOK, NEW n \in Credentials, TouchLastUsed(n)
  PROVE  UsedInv'
<1>1. n \in presented /\ presented' = presented /\ touches' \subseteq touches
  BY Zenon DEF TouchLastUsed, UsedInv
<1>2. ASSUME NEW k \in KeyIds, keys'[k] # NULL, keys'[k].used
      PROVE  keys'[k].prefix \in presented
  <2>1. keys'[k] = IF keys[k] # NULL /\ keys[k].prefix = n
                   THEN [keys[k] EXCEPT !.used = TRUE] ELSE keys[k]
    BY Zenon DEF TouchLastUsed, TouchedKeys
  <2>2. CASE keys[k] # NULL /\ keys[k].prefix = n
    <3>1. keys[k] \in KeyRows
      BY <2>2, Zenon DEF TypeOK
    <3>2. [keys[k] EXCEPT !.used = TRUE].prefix = keys[k].prefix
      BY <3>1, Zenon DEF KeyRows
    <3> QED BY <1>1, <2>1, <2>2, <3>2, Zenon
  <2>3. CASE ~(keys[k] # NULL /\ keys[k].prefix = n)
    BY <1>2, <2>1, <2>3, Zenon DEF UsedInv
  <2> QED BY <2>2, <2>3, Zenon
<1> QED BY <1>1, <1>2, Zenon DEF UsedInv

\* The invariant is inductive.
LEMMA UsedInvStep == AuthInv /\ UsedInv /\ [Next]_vars => UsedInv'
<1> SUFFICES ASSUME AuthInv, UsedInv, [Next]_vars PROVE UsedInv'
  OBVIOUS
<1>1. TypeOK
  BY Zenon DEF AuthInv
<1>2. CASE \E n \in Credentials : TouchLastUsed(n)
  BY <1>1, <1>2, TouchKeepsUsed, Zenon
<1>3. CASE Manage
  BY <1>1, <1>3, ManageKeepsUsed, Zenon
<1>4. CASE \E r \in Requests : InsertAndGrant(r)
  <2>1. PICK r \in Requests : InsertAndGrant(r)
    BY <1>4, Zenon
  <2>2. /\ touches' = touches \cup {request[r].key.prefix}
        /\ presented' = presented \cup {request[r].token.secret}
        /\ UNCHANGED keys
    BY <2>1, Zenon DEF InsertAndGrant, TouchTarget, keyVars
  <2>3. request[r].key.prefix = request[r].token.secret
    <3>1. request[r].at = "insert" /\ request[r] # Idle
      BY <2>1 DEF InsertAndGrant, Idle
    <3> QED BY <3>1, Zenon DEF AuthInv, RequestInv, Matches
  <2> QED BY <2>2, <2>3, Zenon DEF UsedInv
<1>5. CASE /\ touches' \subseteq touches /\ presented \subseteq presented'
           /\ UNCHANGED keys
  BY <1>5, Zenon DEF UsedInv
<1>6. CASE \/ Tick \/ Restart \/ UNCHANGED vars
           \/ \E r \in Requests, tok \in Tokens : AuthenticateFromCache(r, tok) \/ BeginLookup(r, tok)
           \/ \E r \in Requests : Lookup(r) \/ Abandon(r)
           \/ \E n \in Credentials : TouchFails(n)
           \/ \E tok \in Tokens : Evict(tok)
  BY <1>5, <1>6, Zenon DEF Tick, Restart, AuthenticateFromCache, BeginLookup, Lookup, Abandon, TouchFails, Evict,
                           vars, authVars, keyVars
<1> QED BY <1>2, <1>3, <1>4, <1>6, Zenon DEF Next

\* The listings show a key as used only if its present secret was presented, however
\* a rotation races the last_used_at write of a request made with the old one
\* (touch_last_used, spawned by resolve in auth.rs).
THEOREM UsedIsHonest == Spec => []UsedMeansPresented
<1>1. Init => UsedInv
  BY Zenon DEF Init, KeysInit, UsedInv
<1>2. UsedInv => UsedMeansPresented
  BY DEF UsedInv, UsedMeansPresented, ListKeys, CliListKeys, ListForUser, ListAll, KeyView
<1> QED BY <1>1, <1>2, AuthInvInit, AuthInvStep, UsedInvStep, PTL DEF Spec

(*************************** Dashboard sessions ****************************)

Stages == {"idle", "get", "del", "exchange", "profile", "upsert", "session", "respond"}

Calls == [at : Stages, browser : Browsers \cup {NULL}, state : States \cup {NULL},
          late : BOOLEAN, account : Accounts \cup {NULL}, login : Logins \cup {NULL},
          user : UserIds \cup {NULL}, token : SessionTokens \cup {NULL}]

Phases == {"idle", "find_user", "handle", "respond"}
Answers == {NULL, 200, 204, 401}

Reqs == [at : Phases, browser : Browsers \cup {NULL},
         token : SessionTokens \cup {NULL}, wants : {NULL, "me", "sign_out"},
         user : UserIds \cup {NULL}, late : BOOLEAN, answer : Answers]

Types ==
  /\ clock \in Nat
  /\ states \in [States -> {"unused", "stored", "gone"}]
  /\ codes \in [States -> Accounts \cup {NULL, "used"}]
  /\ logins \in [Accounts -> Logins]
  /\ stateCookie \in [Browsers -> States \cup {NULL}]
  /\ sessionCookie \in [Browsers -> SessionTokens \cup {NULL}]
  /\ call \in [Callbacks -> Calls]
  /\ users \in [UserIds -> UserRow \cup {NULL}]
  /\ sessions \in [SessionTokens -> SessionRow \cup {NULL}]
  /\ signer \in [SessionTokens -> Accounts \cup {NULL}]
  /\ signedOut \subseteq SessionTokens /\ touchTasks \subseteq SessionTokens /\ consumed \subseteq States
  /\ visit \in [Visits -> Reqs]

\* Row u of users is account a's.
RowOf(u, a) == u \in UserIds /\ users[u] # NULL /\ users[u].account = a

\* What callback c has learnt by each stage, and that a late one gets nowhere.
CallInv(c) ==
  /\ call[c].at # "idle" => call[c].state \in States /\ codes[call[c].state] # NULL
  /\ call[c].at \in {"profile", "upsert", "session"} => call[c].account \in Accounts
  /\ call[c].at = "upsert" => call[c].login \in Logins
  /\ call[c].at = "session" => RowOf(call[c].user, call[c].account)
  /\ call[c].late => call[c].state \in consumed /\ call[c].at \in {"idle", "get"}

\* A consumed state is gone from Redis for good; a cookie's session was issued;
\* a request under way holds an issued token and was not sent after its sign-out.
StateInv == \A s \in consumed : states[s] = "gone"
CookieInv == \A b \in Browsers : sessionCookie[b] # NULL => signer[sessionCookie[b]] # NULL
SessionInv == \A t \in SessionTokens : sessions[t] # NULL => RowOf(sessions[t].user, signer[t])
VisitInv ==
  \A r \in Visits : visit[r].at # "idle" =>
    visit[r].token \in SessionTokens /\ signer[visit[r].token] # NULL
AnswerInv == \A c \in Callbacks :
  call[c].at = "respond" => call[c].token \in SessionTokens /\ signer[call[c].token] # NULL

\* Only an issued token is signed out.
IssuedOnly == \A t \in signedOut : signer[t] # NULL

CallsInv == \A c \in Callbacks : CallInv(c)

SignInInv ==
  /\ Types /\ CallsInv /\ AnswerInv /\ StateInv /\ CookieInv /\ SessionInv /\ VisitInv
  /\ IssuedOnly /\ SignOutIsExact /\ SignedOutStaysOut /\ OneRowPerAccount

\* Nothing is stored and nothing is under way at the start.
LEMMA SignInInvInit == SessionsInit => SignInInv
<1> SUFFICES ASSUME SessionsInit PROVE SignInInv
  OBVIOUS
<1> USE SessionConstants
<1>1. NoCall \in Calls /\ NoCall.at = "idle" /\ NoCall.late = FALSE
  BY Zenon DEF NoCall, Calls, Stages
<1>2. NoRequest \in Reqs /\ NoRequest.at = "idle" /\ NoRequest.late = FALSE
  BY Zenon DEF NoRequest, Reqs, Phases, Answers
<1>3. Types
  BY <1>1, <1>2, Zenon DEF SessionsInit, Types
<1>4. CallsInv /\ AnswerInv
  BY <1>1, Zenon DEF SessionsInit, CallsInv, AnswerInv, CallInv
<1>5. VisitInv /\ SignedOutStaysOut
  BY <1>2, Zenon DEF SessionsInit, VisitInv, SignedOutStaysOut
<1>6. StateInv /\ CookieInv /\ SessionInv /\ IssuedOnly /\ SignOutIsExact /\ OneRowPerAccount
  BY Zenon DEF SessionsInit, StateInv, CookieInv, SessionInv, IssuedOnly, SignOutIsExact, OneRowPerAccount
<1> QED BY <1>3, <1>4, <1>5, <1>6 DEF SignInInv

\* Callback c moves to another stage, with what identifies it kept.
Moves(c, stage) ==
  /\ call' \in [Callbacks -> Calls]
  /\ \A d \in Callbacks : d # c => call'[d] = call[d]
  /\ call'[c].at = stage /\ call'[c].state = call[c].state /\ call'[c].late = call[c].late

\* Replacing one callback's record by another record of the kind.
LEMMA ReplaceOne ==
  ASSUME NEW S, NEW R, NEW f \in [S -> R], NEW c \in S, NEW k \in R
  PROVE  /\ [f EXCEPT ![c] = k] \in [S -> R]
         /\ [f EXCEPT ![c] = k][c] = k
         /\ \A d \in S : d # c => [f EXCEPT ![c] = k][d] = f[d]
OBVIOUS

\* Deleting the state moves the callback on.
LEMMA DelMoves ==
  ASSUME Types, NEW c \in Callbacks, DelState(c)
  PROVE  Moves(c, "exchange")
<1> DEFINE k == [call[c] EXCEPT !.at = "exchange"]
<1>1. call[c] \in Calls /\ call \in [Callbacks -> Calls]
  BY Zenon DEF Types
<1>2. call' = [call EXCEPT ![c] = k]
  BY Zenon DEF DelState
<1>3. k \in Calls /\ k.at = "exchange" /\ k.state = call[c].state /\ k.late = call[c].late
  BY <1>1, Zenon DEF Calls, Stages
<1> HIDE DEF k
<1> QED BY <1>1, <1>2, <1>3, ReplaceOne, Zenon DEF Moves

\* The code exchange tells the callback its account.
LEMMA ExchangeMoves ==
  ASSUME Types, NEW c \in Callbacks, CallInv(c), ExchangeGithubCode(c)
  PROVE  Moves(c, "profile") /\ call'[c].account \in Accounts
<1> DEFINE a == codes[call[c].state]
           k == [call[c] EXCEPT !.at = "profile", !.account = a]
<1>1. a \in Accounts
  BY Zenon DEF Types, CallInv, ExchangeGithubCode
<1>2. call[c] \in Calls /\ call \in [Callbacks -> Calls]
  BY Zenon DEF Types
<1>3. call' = [call EXCEPT ![c] = k]
  BY Zenon DEF ExchangeGithubCode
<1>4. k \in Calls /\ k.at = "profile" /\ k.state = call[c].state /\ k.late = call[c].late /\ k.account = a
  BY <1>1, <1>2, Zenon DEF Calls, Stages
<1> HIDE DEF a, k
<1> QED BY <1>1, <1>2, <1>3, <1>4, ReplaceOne, Zenon DEF Moves

\* The profile tells it its login.
LEMMA ProfileMoves ==
  ASSUME Types, NEW c \in Callbacks, CallInv(c), FetchGithubProfile(c)
  PROVE  Moves(c, "upsert") /\ call'[c].account = call[c].account /\ call'[c].login \in Logins
<1> DEFINE l == logins[call[c].account]
           k == [call[c] EXCEPT !.at = "upsert", !.login = l]
<1>1. l \in Logins
  BY Zenon DEF Types, CallInv, FetchGithubProfile
<1>2. call[c] \in Calls /\ call \in [Callbacks -> Calls]
  BY Zenon DEF Types
<1>3. call' = [call EXCEPT ![c] = k]
  BY Zenon DEF FetchGithubProfile
<1>4. k \in Calls /\ k.at = "upsert" /\ k.state = call[c].state /\ k.late = call[c].late
      /\ k.account = call[c].account /\ k.login = l
  BY <1>1, <1>2, Zenon DEF Calls, Stages
<1> HIDE DEF l, k
<1> QED BY <1>1, <1>2, <1>3, <1>4, ReplaceOne, Zenon DEF Moves

\* The upsert writes one row, its own account's or a free one, and no row of the
\* account is left elsewhere.
LEMMA UpsertMoves ==
  ASSUME Types, NEW c \in Callbacks, CallInv(c), UpsertFromGithub(c)
  PROVE  /\ Moves(c, "session") /\ call'[c].account = call[c].account
         /\ \E u \in UserIds :
              /\ call'[c].user = u
              /\ users' = [users EXCEPT ![u] = [account |-> call[c].account, login |-> call[c].login]]
              /\ users[u] # NULL => users[u].account = call[c].account
              /\ users[u] = NULL => \A v \in UserIds : users[v] # NULL => users[v].account # call[c].account
<1>1. PICK u \in (IF Existing(call[c].account) # {}
                  THEN Existing(call[c].account) ELSE FirstFree(users, UserIds)) :
         /\ users' = [users EXCEPT ![u] = [account |-> call[c].account, login |-> call[c].login]]
         /\ call' = [call EXCEPT ![c].at = "session", ![c].user = u]
  BY Zenon DEF UpsertFromGithub
<1>2. /\ u \in UserIds
      /\ users[u] # NULL => users[u].account = call[c].account
      /\ users[u] = NULL => \A v \in UserIds : users[v] # NULL => users[v].account # call[c].account
  BY <1>1, Zenon DEF Existing, FirstFree
<1> DEFINE k == [call[c] EXCEPT !.at = "session", !.user = u]
<1>3. call[c] \in Calls /\ call \in [Callbacks -> Calls]
  BY Zenon DEF Types
<1>4. call' = [call EXCEPT ![c] = k]
  BY <1>1, Zenon
<1>5. k \in Calls /\ k.at = "session" /\ k.state = call[c].state /\ k.late = call[c].late
      /\ k.account = call[c].account /\ k.user = u
  BY <1>2, <1>3, Zenon DEF Calls, Stages
<1> HIDE DEF k
<1>6. Moves(c, "session") /\ call'[c].account = call[c].account /\ call'[c].user = u
  BY <1>3, <1>4, <1>5, ReplaceOne, Zenon DEF Moves
<1> QED BY <1>1, <1>2, <1>6, Zenon

\* The insert issues a token nobody has.
LEMMA InsertMoves ==
  ASSUME Types, NEW c \in Callbacks, CallInv(c), InsertSession(c)
  PROVE  /\ Moves(c, "respond")
         /\ \E t \in SessionTokens :
              /\ call'[c].token = t /\ signer[t] = NULL
              /\ sessions' = [sessions EXCEPT ![t] = [user |-> call[c].user, expires |-> clock + SessionTtl,
                                                      seen |-> clock]]
              /\ signer' = [signer EXCEPT ![t] = call[c].account]
<1>1. PICK t \in FirstFree(signer, SessionTokens) :
         /\ sessions' = [sessions EXCEPT ![t] = [user |-> call[c].user, expires |-> clock + SessionTtl,
                                                 seen |-> clock]]
         /\ signer' = [signer EXCEPT ![t] = call[c].account]
         /\ call' = [call EXCEPT ![c].at = "respond", ![c].token = t]
  BY Zenon DEF InsertSession, SessionUser
<1>2. t \in SessionTokens /\ signer[t] = NULL
  BY <1>1, Zenon DEF FirstFree
<1> DEFINE k == [call[c] EXCEPT !.at = "respond", !.token = t]
<1>3. call[c] \in Calls /\ call \in [Callbacks -> Calls]
  BY Zenon DEF Types
<1>4. call' = [call EXCEPT ![c] = k]
  BY <1>1, Zenon
<1>5. k \in Calls /\ k.at = "respond" /\ k.state = call[c].state /\ k.late = call[c].late /\ k.token = t
  BY <1>2, <1>3, ZenonT(40) DEF Calls, Stages
<1> HIDE DEF k
<1>6. Moves(c, "respond") /\ call'[c].token = t
  BY <1>3, <1>4, <1>5, ReplaceOne, Zenon DEF Moves
<1> QED BY <1>1, <1>2, <1>6, Zenon

\* Request r moves to another stage, its token and the time it was sent kept.
Steps(r, stage) ==
  /\ visit' \in [Visits -> Reqs]
  /\ \A q \in Visits : q # r => visit'[q] = visit[q]
  /\ visit'[r].at = stage /\ visit'[r].token = visit[r].token
  /\ visit'[r].late = visit[r].late

\* The middleware and the handlers leave the token and its age alone.
LEMMA RequestSteps ==
  ASSUME Types, NEW r \in Visits
  PROVE  /\ FindById(r) => Steps(r, "handle")
         /\ Me(r) => Steps(r, "idle")
         /\ SignOut(r) => Steps(r, "respond")
         /\ RespondSignedOut(r) => Steps(r, "idle")
<1>1. visit[r] \in Reqs /\ visit \in [Visits -> Reqs]
  BY Zenon DEF Types
<1>4. {"idle", "handle", "respond"} \subseteq Phases /\ {200, 204} \subseteq Answers
  BY DEF Phases, Answers
<1>2. ASSUME NEW at \in Phases, visit' = [visit EXCEPT ![r].at = at]
      PROVE  Steps(r, at)
  <2> DEFINE k == [visit[r] EXCEPT !.at = at]
  <2>1. visit' = [visit EXCEPT ![r] = k]
    BY <1>2, Zenon
  <2>2. k \in Reqs /\ k.at = at /\ k.token = visit[r].token /\ k.late = visit[r].late
    BY <1>1, Zenon DEF Reqs
  <2> HIDE DEF k
  <2> QED BY <1>1, <2>1, <2>2, ReplaceOne, Zenon DEF Steps
<1>3. ASSUME NEW n \in Answers, visit' = [visit EXCEPT ![r].at = "idle", ![r].answer = n]
      PROVE  Steps(r, "idle")
  <2> DEFINE k == [visit[r] EXCEPT !.at = "idle", !.answer = n]
  <2>1. visit' = [visit EXCEPT ![r] = k]
    BY <1>3, Zenon
  <2>2. k \in Reqs /\ k.at = "idle" /\ k.token = visit[r].token /\ k.late = visit[r].late
    BY <1>1, <1>4, ZenonT(40) DEF Reqs
  <2> HIDE DEF k
  <2> QED BY <1>1, <2>1, <2>2, ReplaceOne, Zenon DEF Steps
<1> QED BY <1>2, <1>3, <1>4 DEF FindById, Me, SignOut, RespondSignedOut

\* The tables of users and sessions, and who signed in and out, are left alone.
SameSessions == UNCHANGED <<users, sessions, signer, signedOut>>

\* With the tables left alone, what is said of them stays.
LEMMA TablesKept ==
  ASSUME SignInInv, SameSessions
  PROVE  SessionInv' /\ IssuedOnly' /\ SignOutIsExact' /\ OneRowPerAccount'
BY Zenon DEF SignInInv, SameSessions, SessionInv, IssuedOnly, SignOutIsExact, OneRowPerAccount, RowOf

\* A request sent after the sign-out of its token is answered 401 and is over.
LateIsRefused(v) == v.late => v.at = "idle" /\ v.answer = 401

\* SignedOutStaysOut, one request at a time.
LEMMA LateOnes == SignedOutStaysOut <=> \A r \in Visits : LateIsRefused(visit[r])
BY Zenon DEF SignedOutStaysOut, LateIsRefused

\* The same of the state after a step.
LEMMA LateOnesNext == SignedOutStaysOut' <=> \A r \in Visits : LateIsRefused(visit'[r])
BY Zenon DEF SignedOutStaysOut, LateIsRefused

\* Requests left alone stay refused.
LEMMA LateStays == SignInInv /\ visit' = visit => SignedOutStaysOut'
BY LateOnes, LateOnesNext, Zenon DEF SignInInv

\* The clock, github_start, and what happens at Redis and GitHub.
LEMMA OutsideKeeps ==
  ASSUME SignInInv,
         \/ ClockTick
         \/ \E b \in Browsers, s \in States : GithubStart(b, s)
         \/ \E s \in States : ExpireState(s)
         \/ \E b \in Browsers, a \in Accounts : Authorize(b, a)
         \/ \E a \in Accounts, l \in Logins : Rename(a, l)
  PROVE  SignInInv'
<1> USE SessionConstants
<1>1. SameSessions /\ UNCHANGED <<call, consumed, sessionCookie, visit, touchTasks>>
  BY Zenon DEF SameSessions, ClockTick, GithubStart, ExpireState, Authorize, Rename
<1>2. /\ clock' \in Nat
      /\ states' \in [States -> {"unused", "stored", "gone"}]
      /\ codes' \in [States -> Accounts \cup {NULL, "used"}]
      /\ logins' \in [Accounts -> Logins]
      /\ stateCookie' \in [Browsers -> States \cup {NULL}]
  <2>6. clock \in Nat /\ states \in [States -> {"unused", "stored", "gone"}]
    BY Zenon DEF SignInInv, Types
  <2>7. clock' = clock \/ clock' = clock + 1
    BY Zenon DEF ClockTick, GithubStart, ExpireState, Authorize, Rename
  <2>8. \/ states' = states
        \/ \E s \in States, v \in {"stored", "gone"} : states' = [states EXCEPT ![s] = v]
    BY Zenon DEF ClockTick, GithubStart, ExpireState, Authorize, Rename
  <2>1. clock' \in Nat
    BY <2>6, <2>7
  <2>2. states' \in [States -> {"unused", "stored", "gone"}]
    BY <2>6, <2>8, Zenon
  <2>3. codes' \in [States -> Accounts \cup {NULL, "used"}]
    BY Zenon DEF SignInInv, Types, ClockTick, GithubStart, ExpireState, Authorize, Rename
  <2>4. logins' \in [Accounts -> Logins]
    BY Zenon DEF SignInInv, Types, ClockTick, GithubStart, ExpireState, Authorize, Rename,
                 external
  <2>5. stateCookie' \in [Browsers -> States \cup {NULL}]
    BY Zenon DEF SignInInv, Types, ClockTick, GithubStart, ExpireState, Authorize, Rename
  <2> QED BY <2>1, <2>2, <2>3, <2>4, <2>5, Zenon
<1>3. Types'
  BY <1>1, <1>2, Zenon DEF SignInInv, Types, SameSessions
<1>4. \A s \in States : codes[s] # NULL => codes'[s] # NULL
  BY Zenon DEF SignInInv, Types, ClockTick, GithubStart, ExpireState, Authorize, Rename
<1>5. \A s \in States : states[s] = "gone" => states'[s] = "gone"
  BY Zenon DEF SignInInv, Types, ClockTick, GithubStart, ExpireState, Authorize, Rename
<1>6. CallsInv' /\ AnswerInv'
  BY <1>1, <1>4, Zenon DEF SignInInv, CallsInv, CallInv, AnswerInv, RowOf, SameSessions
<1>7. StateInv'
  BY <1>1, <1>5, Zenon DEF SignInInv, Types, StateInv
<1>8. CookieInv' /\ VisitInv' /\ SignedOutStaysOut'
  BY <1>1, LateStays, Zenon DEF SignInInv, CookieInv, VisitInv, SameSessions
<1> QED BY <1>1, <1>3, <1>6, <1>7, <1>8, TablesKept, Zenon DEF SignInInv

\* A callback arrives, ends, or reads its state.
LEMMA CallbackKeeps ==
  ASSUME SignInInv, NEW c \in Callbacks,
         (\E b \in Browsers : Callback(c, b)) \/ GetState(c) \/ CallbackFails(c)
  PROVE  SignInInv'
<1> USE SessionConstants
<1>1. SameSessions /\ UNCHANGED <<clock, states, codes, logins, stateCookie, consumed, sessionCookie,
                                  visit, touchTasks>>
  BY Zenon DEF SameSessions, Callback, GetState, CallbackFails, external
<1>2. NoCall \in Calls /\ NoCall.at = "idle" /\ NoCall.late = FALSE
  BY Zenon DEF NoCall, Calls, Stages
<1>3. call \in [Callbacks -> Calls] /\ call[c] \in Calls
  BY Zenon DEF SignInInv, Types
<1>4. PICK k \in Calls :
        /\ call' = [call EXCEPT ![c] = k]
        /\ k.at \in {"idle", "get", "del"}
        /\ k.at # "idle" => k.state \in States /\ codes[k.state] # NULL
        /\ k.late => k.state \in consumed /\ k.at \in {"idle", "get"}
  <2>1. CASE \E b \in Browsers : Callback(c, b)
    <3>1. PICK b \in Browsers : Callback(c, b)
      BY <2>1, Zenon
    <3> DEFINE n == [at |-> "get", browser |-> b, state |-> stateCookie[b],
                     late |-> stateCookie[b] \in consumed, account |-> NULL, login |-> NULL,
                     user |-> NULL, token |-> NULL]
    <3>2. stateCookie[b] \in States /\ codes[stateCookie[b]] # NULL
      BY <3>1, Zenon DEF SignInInv, Types, Callback
    <3>3. ASSUME NEW late \in BOOLEAN, NEW s \in States
          PROVE  [at |-> "get", browser |-> b, state |-> s, late |-> late, account |-> NULL,
                  login |-> NULL, user |-> NULL, token |-> NULL] \in Calls
      BY Zenon DEF Calls, Stages
    <3>4. n \in Calls
      <4> DEFINE late == stateCookie[b] \in consumed
      <4>1. late \in BOOLEAN
        BY IsTruth, Zenon
      <4> HIDE DEF late
      <4> QED BY <3>2, <3>3, <4>1, Zenon DEF late
    <3>5. call' = [call EXCEPT ![c] = n]
      BY <3>1, Zenon DEF Callback
    <3> QED BY <3>2, <3>5, <3>4, Zenon
  <2>2. CASE GetState(c) /\ states[call[c].state] = "stored"
    <3> DEFINE n == [call[c] EXCEPT !.at = "del"]
    <3>1. n \in Calls /\ n.at = "del" /\ n.state = call[c].state /\ n.late = call[c].late
      BY <1>3, Zenon DEF Calls, Stages
    <3>2. call' = [call EXCEPT ![c] = n]
      BY <2>2, Zenon DEF GetState
    <3>3. n.state \in States /\ codes[n.state] # NULL /\ n.late = FALSE
      BY <2>2, <3>1, Zenon DEF SignInInv, CallsInv, CallInv, StateInv, GetState, Calls
    <3> HIDE DEF n
    <3> QED BY <3>1, <3>2, <3>3, Zenon
  <2>3. CASE GetState(c) /\ states[call[c].state] # "stored"
    BY <1>2, <2>3, Zenon DEF GetState
  <2>4. CASE CallbackFails(c)
    BY <1>2, <2>4, Zenon DEF CallbackFails
  <2> QED BY <2>1, <2>2, <2>3, <2>4, Zenon
<1>5. call' \in [Callbacks -> Calls] /\ call'[c] = k /\ \A d \in Callbacks : d # c => call'[d] = call[d]
  BY <1>3, <1>4, ReplaceOne, Zenon
<1>6. Types'
  BY <1>1, <1>5, Zenon DEF SignInInv, Types, SameSessions
<1>7. ASSUME NEW d \in Callbacks PROVE CallInv(d)' /\ (call'[d].at = "respond" =>
              call'[d].token \in SessionTokens /\ signer'[call'[d].token] # NULL)
  BY <1>1, <1>4, <1>5, Zenon DEF SignInInv, CallsInv, CallInv, AnswerInv, RowOf, SameSessions
<1>8. CallsInv' /\ AnswerInv'
  BY <1>7, Zenon DEF CallsInv, AnswerInv
<1>9. StateInv' /\ CookieInv' /\ VisitInv' /\ SignedOutStaysOut'
  BY <1>1, LateStays, Zenon DEF SignInInv, StateInv, CookieInv, VisitInv, SameSessions
<1> QED BY <1>1, <1>6, <1>8, <1>9, TablesKept, Zenon DEF SignInInv

\* Deleting the state, the code exchange and the profile: no table changes.
LEMMA GithubKeeps ==
  ASSUME SignInInv, NEW c \in Callbacks,
         DelState(c) \/ ExchangeGithubCode(c) \/ FetchGithubProfile(c)
  PROVE  SignInInv'
<1> USE SessionConstants
<1>1. SameSessions /\ UNCHANGED <<clock, logins, stateCookie, sessionCookie, visit, touchTasks>>
  BY Zenon DEF SameSessions, DelState, ExchangeGithubCode, FetchGithubProfile, external
<1>2. Types /\ CallInv(c) /\ call[c].state \in States /\ call[c].late = FALSE
  <2>1. Types /\ CallInv(c)
    BY Zenon DEF SignInInv, CallsInv
  <2>2. call[c].late \in BOOLEAN
    BY <2>1, Zenon DEF Types, Calls
  <2> QED BY <2>1, <2>2, Zenon DEF CallInv, DelState, ExchangeGithubCode, FetchGithubProfile
<1>3. /\ states' \in [States -> {"unused", "stored", "gone"}]
      /\ codes' \in [States -> Accounts \cup {NULL, "used"}]
      /\ consumed' \subseteq States /\ consumed \subseteq consumed'
      /\ \A s \in States : codes[s] # NULL => codes'[s] # NULL
      /\ \A s \in consumed' : states'[s] = "gone"
  <2>1. /\ states \in [States -> {"unused", "stored", "gone"}]
        /\ codes \in [States -> Accounts \cup {NULL, "used"}]
        /\ consumed \subseteq States /\ \A s \in consumed : states[s] = "gone"
    BY <1>2, Zenon DEF Types, SignInInv, StateInv
  <2>2. \/ UNCHANGED <<states, consumed>>
        \/ /\ states' = [states EXCEPT ![call[c].state] = "gone"]
           /\ consumed' = consumed \cup {call[c].state}
    BY Zenon DEF DelState, AfterDel, ExchangeGithubCode, FetchGithubProfile
  <2>3. codes' = codes \/ codes' = [codes EXCEPT ![call[c].state] = "used"]
    BY Zenon DEF DelState, ExchangeGithubCode, FetchGithubProfile
  <2>4. codes' \in [States -> Accounts \cup {NULL, "used"}]
    BY <1>2, <2>1, <2>3, Zenon
  <2>5. \A s \in States : codes[s] # NULL => codes'[s] # NULL
    BY <2>1, <2>3, SessionConstants, Zenon
  <2>6. /\ states' \in [States -> {"unused", "stored", "gone"}]
        /\ consumed' \subseteq States /\ consumed \subseteq consumed'
    BY <1>2, <2>1, <2>2, Zenon
  <2>7. \A s \in consumed' : states'[s] = "gone"
    BY <1>2, <2>1, <2>2
  <2> QED BY <2>4, <2>5, <2>6, <2>7, Zenon
<1>4. /\ \E stage \in {"exchange", "profile", "upsert"} : Moves(c, stage)
      /\ call'[c].at \in {"profile", "upsert"} => call'[c].account \in Accounts
      /\ call'[c].at = "upsert" => call'[c].login \in Logins
  <2>1. CASE DelState(c)
    BY <1>2, <2>1, DelMoves, Zenon DEF Moves
  <2>2. CASE ExchangeGithubCode(c)
    BY <1>2, <2>2, ExchangeMoves, Zenon DEF Moves
  <2>3. CASE FetchGithubProfile(c)
    BY <1>2, <2>3, ProfileMoves, Zenon DEF Moves, CallInv, FetchGithubProfile
  <2> QED BY <2>1, <2>2, <2>3, Zenon
<1>5. PICK stage \in {"exchange", "profile", "upsert"} : Moves(c, stage)
  BY <1>4, Zenon
<1>6. Types'
  BY <1>1, <1>2, <1>3, <1>5, Zenon DEF Types, Moves, SameSessions
<1>7. CallInv(c)'
  <2>1. codes[call[c].state] # NULL
    BY <1>2, Zenon DEF CallInv, DelState, ExchangeGithubCode, FetchGithubProfile
  <2> QED BY <1>2, <1>3, <1>4, <1>5, <2>1, Zenon DEF CallInv, Moves
<1>8. ASSUME NEW d \in Callbacks, d # c PROVE CallInv(d)'
  <2>1. call'[d] = call[d] /\ CallInv(d)
    BY <1>5, <1>8, Zenon DEF Moves, SignInInv, CallsInv
  <2> QED BY <1>1, <1>3, <2>1, Zenon DEF CallInv, RowOf, SameSessions
<1>9. CallsInv' /\ AnswerInv'
  BY <1>1, <1>5, <1>7, <1>8, Zenon DEF SignInInv, CallsInv, AnswerInv, Moves, SameSessions
<1>10. StateInv' /\ CookieInv' /\ VisitInv'
  BY <1>1, <1>3, Zenon DEF SignInInv, StateInv, CookieInv, VisitInv, SameSessions
<1>11. SignedOutStaysOut'
  BY <1>1, LateStays, Zenon
<1> QED BY <1>1, <1>6, <1>9, <1>10, <1>11, TablesKept, Zenon DEF SignInInv

\* The upsert: rows keep their account, and the account's row stays the only one.
LEMMA UpsertKeeps ==
  ASSUME SignInInv, NEW c \in Callbacks, UpsertFromGithub(c)
  PROVE  SignInInv'
<1> USE SessionConstants
<1>1. UNCHANGED <<clock, states, codes, logins, stateCookie, sessionCookie, sessions,
                  signer, signedOut, consumed, visit, touchTasks>>
  BY Zenon DEF UpsertFromGithub, external
<1>2. Types /\ CallInv(c) /\ call[c].at = "upsert"
  BY Zenon DEF SignInInv, CallsInv, UpsertFromGithub
<1> DEFINE a == call[c].account
           row == [account |-> a, login |-> call[c].login]
<1>3. Moves(c, "session") /\ call'[c].account = a
  BY <1>2, UpsertMoves, Zenon
<1>4. PICK u \in UserIds :
         /\ call'[c].user = u /\ users' = [users EXCEPT ![u] = row]
         /\ users[u] # NULL => users[u].account = a
         /\ users[u] = NULL => \A v \in UserIds : users[v] # NULL => users[v].account # a
  BY <1>2, UpsertMoves, Zenon
<1>5. row \in UserRow /\ row.account = a /\ a \in Accounts
  BY <1>2, Zenon DEF CallInv, UserRow
<1> HIDE DEF row, a
<1>6. /\ users' \in [UserIds -> UserRow \cup {NULL}]
      /\ users'[u] = row /\ users'[u] # NULL
      /\ \A v \in UserIds : v # u => users'[v] = users[v]
  BY <1>2, <1>4, <1>5, Zenon DEF Types
<1>7. \A v, b : RowOf(v, b) => RowOf(v, b)'
  BY <1>4, <1>5, <1>6, Zenon DEF RowOf
<1>8. Types'
  BY <1>1, <1>2, <1>3, <1>6, Zenon DEF Types, Moves
<1>9. CallInv(c)'
  <2>1. RowOf(call[c].user, call[c].account)'
    BY <1>3, <1>4, <1>5, <1>6, Zenon DEF RowOf
  <2>2. call[c].late = FALSE /\ call[c].state \in States /\ codes[call[c].state] # NULL
    BY <1>2, Zenon DEF Types, Calls, CallInv
  <2> QED BY <1>1, <1>3, <1>5, <2>1, <2>2, Zenon DEF CallInv, Moves
<1>10. ASSUME NEW d \in Callbacks, d # c PROVE CallInv(d)'
  <2>1. call'[d] = call[d] /\ CallInv(d)
    BY <1>3, <1>10, Zenon DEF Moves, SignInInv, CallsInv
  <2> QED BY <1>1, <1>7, <2>1, Zenon DEF CallInv
<1>11. CallsInv' /\ AnswerInv'
  BY <1>1, <1>3, <1>9, <1>10, Zenon DEF SignInInv, CallsInv, AnswerInv, Moves
<1>12. SessionInv' /\ IssuedOnly' /\ SignOutIsExact'
  BY <1>1, <1>7, Zenon DEF SignInInv, SessionInv, IssuedOnly, SignOutIsExact
<1>13. OneRowPerAccount'
  <2>1. ASSUME NEW v \in UserIds, v # u, users[v] # NULL PROVE users[v].account # row.account
    BY <1>4, <1>5, <2>1, Zenon DEF SignInInv, OneRowPerAccount
  <2> QED BY <1>6, <2>1, Zenon DEF SignInInv, OneRowPerAccount
<1>14. StateInv' /\ CookieInv' /\ VisitInv' /\ SignedOutStaysOut'
  BY <1>1, LateStays, Zenon DEF SignInInv, StateInv, CookieInv, VisitInv
<1> QED BY <1>8, <1>11, <1>12, <1>13, <1>14, Zenon DEF SignInInv

\* The session insert: a fresh token, its row that of the account signing in.
LEMMA InsertKeeps ==
  ASSUME SignInInv, NEW c \in Callbacks, InsertSession(c)
  PROVE  SignInInv'
<1> USE SessionConstants
<1>1. UNCHANGED <<clock, states, codes, logins, stateCookie, sessionCookie, users,
                  signedOut, consumed, visit, touchTasks>>
  BY Zenon DEF InsertSession, external
<1>2. Types /\ CallInv(c) /\ call[c].at = "session"
  BY Zenon DEF SignInInv, CallsInv, InsertSession
<1> DEFINE row == [user |-> call[c].user, expires |-> clock + SessionTtl, seen |-> clock]
<1>3. Moves(c, "respond")
  BY <1>2, InsertMoves, Zenon
<1>4. PICK t \in SessionTokens :
         /\ call'[c].token = t /\ signer[t] = NULL
         /\ sessions' = [sessions EXCEPT ![t] = row]
         /\ signer' = [signer EXCEPT ![t] = call[c].account]
  BY <1>2, InsertMoves, Zenon
<1>5. RowOf(call[c].user, call[c].account) /\ call[c].account \in Accounts
  BY <1>2, Zenon DEF CallInv
<1>6. row \in SessionRow /\ row.user = call[c].user
  <2>1. clock \in Nat /\ call[c].user \in UserIds
    BY <1>2, <1>5, Zenon DEF RowOf, Types
  <2>2. clock + SessionTtl \in Nat
    BY <2>1
  <2> QED BY <2>1, <2>2, Zenon DEF SessionRow
<1> HIDE DEF row
<1>7. /\ sessions' \in [SessionTokens -> SessionRow \cup {NULL}]
      /\ signer' \in [SessionTokens -> Accounts \cup {NULL}]
      /\ sessions'[t] = row /\ sessions'[t] # NULL
      /\ signer'[t] = call[c].account /\ signer'[t] # NULL
      /\ \A o \in SessionTokens : o # t => sessions'[o] = sessions[o] /\ signer'[o] = signer[o]
  BY <1>2, <1>4, <1>5, <1>6, Zenon DEF Types
<1>8. t \notin signedOut
  BY <1>4, Zenon DEF SignInInv, IssuedOnly
<1>9. Types'
  BY <1>1, <1>2, <1>3, <1>7, Zenon DEF Types, Moves
<1>10. CallsInv'
  <2>1. \A d \in Callbacks : d # c => call'[d] = call[d]
    BY <1>3, Zenon DEF Moves
  <2>2. \A d \in Callbacks : d # c => CallInv(d)'
    BY <1>1, <2>1 DEF SignInInv, CallsInv, CallInv, RowOf
  <2>3. CallInv(c)'
    <3>1. call[c].late = FALSE
      BY <1>2, Zenon DEF Types, Calls, CallInv
    <3> QED BY <1>1, <1>2, <1>3, <3>1, Zenon DEF CallInv, Moves
  <2> QED BY <2>2, <2>3, Zenon DEF CallsInv
<1>11. \A o \in SessionTokens : signer[o] # NULL => signer'[o] # NULL
  BY <1>7, Zenon
<1>12. AnswerInv'
  <2> SUFFICES ASSUME NEW d \in Callbacks, call'[d].at = "respond"
               PROVE  call'[d].token \in SessionTokens /\ signer'[call'[d].token] # NULL
    BY Zenon DEF AnswerInv
  <2>1. CASE d = c
    BY <1>4, <1>7, <2>1, Zenon
  <2>2. CASE d # c
    BY <1>3, <1>11, <2>2, Zenon DEF SignInInv, AnswerInv, Moves
  <2> QED BY <2>1, <2>2, Zenon
<1>13. SessionInv'
  <2>1. \A u, a : RowOf(u, a)' <=> RowOf(u, a)
    BY <1>1, Zenon DEF RowOf
  <2> QED BY <1>5, <1>6, <1>7, <2>1, Zenon DEF SignInInv, SessionInv
<1>14. SignOutIsExact' /\ OneRowPerAccount'
  BY <1>1, <1>7, <1>8, Zenon DEF SignInInv, SignOutIsExact, OneRowPerAccount
<1>15. CookieInv' /\ VisitInv' /\ IssuedOnly'
  BY <1>1, <1>2, <1>11, Zenon DEF SignInInv, CookieInv, VisitInv, IssuedOnly, Types
<1>16. StateInv' /\ SignedOutStaysOut'
  BY <1>1, LateStays, Zenon DEF SignInInv, StateInv
<1> QED BY <1>9, <1>10, <1>12, <1>13, <1>14, <1>15, <1>16, Zenon DEF SignInInv

\* The redirect gives the browser the token just issued.
LEMMA RespondKeeps ==
  ASSUME SignInInv, NEW c \in Callbacks, RespondSignedIn(c)
  PROVE  SignInInv'
<1> USE SessionConstants
<1>1. SameSessions /\ UNCHANGED <<clock, states, codes, logins, consumed, visit, touchTasks>>
  BY Zenon DEF SameSessions, RespondSignedIn, external
<1>2. NoCall \in Calls /\ NoCall.at = "idle" /\ NoCall.late = FALSE
  BY Zenon DEF NoCall, Calls, Stages
<1>3. /\ call' \in [Callbacks -> Calls] /\ call'[c] = NoCall
      /\ \A d \in Callbacks : d # c => call'[d] = call[d]
  <2>1. call \in [Callbacks -> Calls] /\ call' = [call EXCEPT ![c] = NoCall]
    BY Zenon DEF SignInInv, Types, RespondSignedIn
  <2> QED BY <1>2, <2>1, ReplaceOne, Zenon
<1>4. call[c].token \in SessionTokens /\ signer[call[c].token] # NULL
  BY Zenon DEF SignInInv, AnswerInv, RespondSignedIn
<1>5. /\ stateCookie' \in [Browsers -> States \cup {NULL}]
      /\ sessionCookie' \in [Browsers -> SessionTokens \cup {NULL}]
      /\ \A b \in Browsers : sessionCookie'[b] = sessionCookie[b] \/ sessionCookie'[b] = call[c].token
  BY <1>4, Zenon DEF SignInInv, Types, RespondSignedIn
<1>6. Types'
  BY <1>1, <1>3, <1>5, Zenon DEF SignInInv, Types, SameSessions
<1>7. CallsInv' /\ AnswerInv'
  <2> SUFFICES ASSUME NEW d \in Callbacks
               PROVE  CallInv(d)' /\ (call'[d].at = "respond" =>
                         call'[d].token \in SessionTokens /\ signer'[call'[d].token] # NULL)
    BY Zenon DEF CallsInv, AnswerInv
  <2>1. CASE d = c
    BY <1>2, <1>3, <2>1, Zenon DEF CallInv
  <2>2. CASE d # c
    <3>1. call'[d] = call[d] /\ CallInv(d)
      BY <1>3, <2>2, Zenon DEF SignInInv, CallsInv
    <3> QED BY <1>1, <3>1, Zenon DEF SignInInv, AnswerInv, CallInv, RowOf, SameSessions
  <2> QED BY <2>1, <2>2, Zenon
<1>8. CookieInv'
  BY <1>1, <1>4, <1>5, Zenon DEF SignInInv, CookieInv, SameSessions
<1>9. StateInv' /\ VisitInv'
  BY <1>1, Zenon DEF SignInInv, StateInv, VisitInv, SameSessions
<1>10. SignedOutStaysOut'
  BY <1>1, LateStays, Zenon
<1> QED BY <1>1, <1>6, <1>7, <1>8, <1>9, <1>10, TablesKept, Zenon DEF SignInInv

\* The middleware: only a token in the table gets past it, and a token in the
\* table has not been signed out.
LEMMA FindActiveKeeps ==
  ASSUME SignInInv, NEW r \in Visits, NEW b \in Browsers, NEW wants \in {"me", "sign_out"},
         FindActive(r, b, wants)
  PROVE  SignInInv'
<1> USE SessionConstants
<1> DEFINE t == sessionCookie[b]
           late == t \in signedOut
           k == [at |-> IF Active(t) THEN "find_user" ELSE "idle",
                 browser |-> b, token |-> t, wants |-> wants,
                 user |-> IF Active(t) THEN sessions[t].user ELSE NULL,
                 late |-> late, answer |-> IF Active(t) THEN NULL ELSE 401]
<1>1. SameSessions /\ UNCHANGED <<clock, states, codes, logins, stateCookie, sessionCookie, call,
                                  consumed, touchTasks>>
  BY Zenon DEF SameSessions, FindActive, external
<1>2. Types /\ t \in SessionTokens /\ signer[t] # NULL
  BY Zenon DEF SignInInv, Types, CookieInv, FindActive
<1>3. Active(t) => ~late /\ sessions[t].user \in UserIds
  BY <1>2, Zenon DEF SignInInv, SignOutIsExact, SessionInv, RowOf, Active
<1>4. late \in BOOLEAN
  BY IsTruth, Zenon
<1>5. visit' = [visit EXCEPT ![r] = k]
  BY Zenon DEF FindActive
<1>6. k \in Reqs /\ k.token = t /\ (k.late => k.at = "idle" /\ k.answer = 401)
  <2> HIDE DEF t, late
  <2>1. CASE Active(t)
    <3>1. k = [at |-> "find_user", browser |-> b, token |-> t, wants |-> wants,
               user |-> sessions[t].user, late |-> late, answer |-> NULL]
      BY <2>1, Zenon
    <3> HIDE DEF k
    <3> QED BY <1>2, <1>3, <1>4, <2>1, <3>1, Zenon DEF Reqs, Phases, Answers
  <2>2. CASE ~Active(t)
    <3>1. k = [at |-> "idle", browser |-> b, token |-> t, wants |-> wants,
               user |-> NULL, late |-> late, answer |-> 401]
      BY <2>2, Zenon
    <3> HIDE DEF k
    <3> QED BY <1>2, <1>4, <3>1, Zenon DEF Reqs, Phases, Answers
  <2> QED BY <2>1, <2>2, Zenon
<1> HIDE DEF k, late, t
<1>7. /\ visit' \in [Visits -> Reqs] /\ visit'[r] = k
      /\ \A q \in Visits : q # r => visit'[q] = visit[q]
  <2>1. visit \in [Visits -> Reqs] /\ k \in Reqs
    BY <1>2, <1>6, Zenon DEF Types
  <2> QED BY <1>5, <2>1, ReplaceOne, Zenon
<1>8. Types'
  BY <1>1, <1>2, <1>7, Zenon DEF Types, SameSessions
<1>9. VisitInv'
  <2> SUFFICES ASSUME NEW q \in Visits, visit'[q].at # "idle"
               PROVE  visit'[q].token \in SessionTokens /\ signer[visit'[q].token] # NULL
    BY <1>1, Zenon DEF VisitInv, SameSessions
  <2>1. CASE q = r
    BY <1>2, <1>6, <1>7, <2>1, Zenon
  <2>2. CASE q # r
    BY <1>7, <2>2, Zenon DEF SignInInv, VisitInv
  <2> QED BY <2>1, <2>2, Zenon
<1>11. SignedOutStaysOut'
  <2>1. LateIsRefused(k)
    BY <1>6, Zenon DEF LateIsRefused
  <2> QED BY <1>7, <2>1, LateOnes, LateOnesNext, Zenon DEF SignInInv
<1>10. CallsInv' /\ AnswerInv' /\ StateInv' /\ CookieInv'
  BY <1>1, Zenon DEF SignInInv, CallsInv, CallInv, AnswerInv, StateInv, CookieInv, RowOf, SameSessions
<1> QED BY <1>1, <1>8, <1>9, <1>10, <1>11, TablesKept, Zenon DEF SignInInv

\* find_by_id, /admin/me and the answers.
LEMMA AnswerKeeps ==
  ASSUME SignInInv, NEW r \in Visits,
         FindById(r) \/ Me(r) \/ RespondSignedOut(r) \/ RequestFails(r)
  PROVE  SignInInv'
<1> USE SessionConstants
<1>1. SameSessions /\ UNCHANGED <<clock, states, codes, logins, stateCookie, call, consumed>>
  BY Zenon DEF SameSessions, FindById, Me, RespondSignedOut, RequestFails, external
<1>2. Types /\ visit[r].at # "idle" /\ visit[r].late = FALSE /\ visit[r].token \in SessionTokens
      /\ signer[visit[r].token] # NULL
  <2>1. Types /\ visit[r].at # "idle"
    BY Zenon DEF SignInInv, FindById, Me, RespondSignedOut, RequestFails
  <2>2. visit[r].late \in BOOLEAN
    BY <2>1, Zenon DEF Types, Reqs
  <2>3. ~visit[r].late
    BY <2>1, LateOnes, Zenon DEF SignInInv, LateIsRefused
  <2> QED BY <2>1, <2>2, <2>3, Zenon DEF SignInInv, VisitInv
<1>3. /\ visit' \in [Visits -> Reqs]
      /\ \A q \in Visits : q # r => visit'[q] = visit[q]
      /\ visit'[r].late = FALSE
      /\ visit'[r].at # "idle" => visit'[r].token = visit[r].token
  <2>1. CASE FindById(r) \/ Me(r) \/ RespondSignedOut(r)
    BY <1>2, <2>1, RequestSteps, Zenon DEF Steps
  <2>2. CASE RequestFails(r)
    <3>1. NoRequest \in Reqs /\ NoRequest.at = "idle" /\ NoRequest.late = FALSE
      BY Zenon DEF NoRequest, Reqs, Phases, Answers
    <3>2. visit \in [Visits -> Reqs] /\ visit' = [visit EXCEPT ![r] = NoRequest]
      BY <1>2, <2>2, Zenon DEF Types, RequestFails
    <3>3. visit' \in [Visits -> Reqs] /\ visit'[r] = NoRequest
          /\ \A q \in Visits : q # r => visit'[q] = visit[q]
      BY <3>1, <3>2, ReplaceOne, Zenon
    <3> QED BY <3>1, <3>3, Zenon
  <2> QED BY <2>1, <2>2, Zenon
<1>4. /\ sessionCookie' \in [Browsers -> SessionTokens \cup {NULL}]
      /\ touchTasks' \subseteq SessionTokens
      /\ \A b \in Browsers : sessionCookie'[b] # NULL => sessionCookie'[b] = sessionCookie[b]
  <2>1. /\ sessionCookie \in [Browsers -> SessionTokens \cup {NULL}]
        /\ touchTasks \subseteq SessionTokens
    BY <1>2, Zenon DEF Types
  <2>2. /\ touchTasks' = touchTasks \/ touchTasks' = touchTasks \cup {visit[r].token}
        /\ \/ sessionCookie' = sessionCookie
           \/ \E b : sessionCookie' = [sessionCookie EXCEPT ![b] = NULL]
    BY Zenon DEF FindById, Me, RespondSignedOut, RequestFails
  <2>3. sessionCookie' \in [Browsers -> SessionTokens \cup {NULL}]
    BY <2>1, <2>2, Zenon
  <2>4. \A b \in Browsers : sessionCookie'[b] # NULL => sessionCookie'[b] = sessionCookie[b]
    BY <2>1, <2>2, Zenon
  <2> QED BY <1>2, <2>1, <2>2, <2>3, <2>4, Zenon
<1>5. Types'
  BY <1>1, <1>2, <1>3, <1>4, Zenon DEF Types, SameSessions
<1>6. VisitInv'
  BY <1>1, <1>2, <1>3, Zenon DEF SignInInv, VisitInv, SameSessions
<1>9. SignedOutStaysOut'
  <2>1. LateIsRefused(visit'[r])
    BY <1>3, Zenon DEF LateIsRefused
  <2> QED BY <1>3, <2>1, LateOnes, LateOnesNext, Zenon DEF SignInInv
<1>7. CookieInv'
  BY <1>1, <1>4, Zenon DEF SignInInv, CookieInv, SameSessions
<1>8. CallsInv' /\ AnswerInv' /\ StateInv'
  BY <1>1, Zenon DEF SignInInv, CallsInv, CallInv, AnswerInv, StateInv, RowOf, SameSessions
<1> QED BY <1>1, <1>5, <1>6, <1>7, <1>8, <1>9, TablesKept, Zenon DEF SignInInv

\* Sign-out deletes the row of the request's own token.
LEMMA SignOutKeeps ==
  ASSUME SignInInv, NEW r \in Visits, SignOut(r)
  PROVE  SignInInv'
<1> USE SessionConstants
<1> DEFINE t == visit[r].token
<1>1. UNCHANGED <<clock, states, codes, logins, stateCookie, sessionCookie, call, users,
                  signer, consumed, touchTasks>>
  BY Zenon DEF SignOut, external
<1>2. Types /\ t \in SessionTokens /\ signer[t] # NULL /\ visit[r].late = FALSE
  <2>1. Types /\ visit[r].at # "idle"
    BY Zenon DEF SignInInv, SignOut
  <2>2. visit[r].late \in BOOLEAN
    BY <2>1, Zenon DEF Types, Reqs
  <2>3. ~visit[r].late
    BY <2>1, LateOnes, Zenon DEF SignInInv, LateIsRefused
  <2> QED BY <2>1, <2>2, <2>3, Zenon DEF SignInInv, VisitInv
<1>3. Steps(r, "respond")
  BY <1>2, RequestSteps, Zenon
<1>4. sessions' = [sessions EXCEPT ![t] = NULL] /\ signedOut' = signedOut \cup {t}
  BY Zenon DEF SignOut, AfterDelete
<1> HIDE DEF t
<1>5. Types'
  BY <1>1, <1>2, <1>3, <1>4, Zenon DEF Types, Steps
<1>6. SignOutIsExact' /\ IssuedOnly'
  BY <1>1, <1>2, <1>4, Zenon DEF SignInInv, SignOutIsExact, IssuedOnly, Types
<1>7. SessionInv' /\ OneRowPerAccount'
  BY <1>1, <1>2, <1>4, Zenon DEF SignInInv, SessionInv, OneRowPerAccount, RowOf, Types
<1>8. VisitInv' /\ SignedOutStaysOut'
  <2>1. LateIsRefused(visit'[r])
    BY <1>2, <1>3, Zenon DEF LateIsRefused, Steps
  <2>2. SignedOutStaysOut'
    BY <1>3, <2>1, LateOnes, LateOnesNext, Zenon DEF SignInInv, Steps
  <2> QED BY <1>1, <1>2, <1>3, <2>2, Zenon DEF SignInInv, VisitInv, Steps, t
<1>9. CallsInv' /\ AnswerInv' /\ StateInv' /\ CookieInv'
  BY <1>1, Zenon DEF SignInInv, CallsInv, CallInv, AnswerInv, StateInv, CookieInv, RowOf
<1> QED BY <1>5, <1>6, <1>7, <1>8, <1>9, Zenon DEF SignInInv

\* A touch changes a time in a row that is there, and makes no row.
LEMMA TouchKeeps ==
  ASSUME SignInInv, NEW t \in touchTasks, TouchLastSeen(t)
  PROVE  SignInInv'
<1> USE SessionConstants
<1>1. /\ UNCHANGED <<clock, states, codes, logins, stateCookie, sessionCookie, call, users,
                     signer, signedOut, consumed, visit>>
      /\ touchTasks' \subseteq touchTasks
  BY Zenon DEF TouchLastSeen, external
<1>2. Types /\ t \in SessionTokens
  BY Zenon DEF SignInInv, Types
<1>3. /\ sessions' \in [SessionTokens -> SessionRow \cup {NULL}]
      /\ \A o \in SessionTokens : sessions'[o] = NULL <=> sessions[o] = NULL
      /\ \A o \in SessionTokens : sessions[o] # NULL => sessions'[o].user = sessions[o].user
  <2>1. CASE sessions[t] # NULL /\ sessions' = [sessions EXCEPT ![t].seen = clock]
    <3> DEFINE k == [sessions[t] EXCEPT !.seen = clock]
    <3>1. sessions' = [sessions EXCEPT ![t] = k]
      BY <2>1, Zenon
    <3>2. sessions[t] \in SessionRow /\ clock \in Nat
      BY <1>2, <2>1, Zenon DEF Types
    <3>3. k \in SessionRow /\ k.user = sessions[t].user
      BY <3>2, Zenon DEF SessionRow
    <3>4. k # NULL
      BY <3>3, Zenon
    <3> HIDE DEF k
    <3>5. sessions \in [SessionTokens -> SessionRow \cup {NULL}]
      BY <1>2, Zenon DEF Types
    <3> QED BY <1>2, <2>1, <3>1, <3>3, <3>4, <3>5, Zenon
  <2>2. CASE sessions' = sessions
    BY <1>2, <2>2, Zenon DEF Types
  <2> QED BY <2>1, <2>2, Zenon DEF TouchLastSeen, Touched
<1>4. Types'
  BY <1>1, <1>2, <1>3, Zenon DEF Types
<1>5. SessionInv' /\ SignOutIsExact' /\ IssuedOnly' /\ OneRowPerAccount'
  BY <1>1, <1>3, Zenon DEF SignInInv, SessionInv, SignOutIsExact, IssuedOnly, OneRowPerAccount, RowOf
<1>6. CallsInv' /\ AnswerInv' /\ StateInv' /\ CookieInv' /\ VisitInv' /\ SignedOutStaysOut'
  <2>1. CallsInv'
    <3> SUFFICES ASSUME NEW c \in Callbacks, CallInv(c) PROVE CallInv(c)'
      BY Zenon DEF SignInInv, CallsInv
    <3> QED BY <1>1, Zenon DEF CallInv, RowOf
  <2>3. AnswerInv' /\ StateInv'
    BY <1>1, Zenon DEF SignInInv, AnswerInv, StateInv
  <2>2. CookieInv' /\ VisitInv' /\ SignedOutStaysOut'
    BY <1>1, LateStays, Zenon DEF SignInInv, CookieInv, VisitInv
  <2> QED BY <2>1, <2>2, <2>3, Zenon
<1> QED BY <1>4, <1>5, <1>6, Zenon DEF SignInInv

\* Every step keeps the invariant.
LEMMA SignInInvNext == SignInInv /\ [SessionsNext]_sessionVars => SignInInv'
<1> SUFFICES ASSUME SignInInv, [SessionsNext]_sessionVars PROVE SignInInv'
  OBVIOUS
<1>1. ASSUME NEW c \in Callbacks,
             \/ GetState(c) \/ DelState(c) \/ ExchangeGithubCode(c) \/ FetchGithubProfile(c)
             \/ UpsertFromGithub(c) \/ InsertSession(c) \/ RespondSignedIn(c) \/ CallbackFails(c)
             \/ \E b \in Browsers : Callback(c, b)
      PROVE  SignInInv'
  BY <1>1, CallbackKeeps, GithubKeeps, UpsertKeeps, InsertKeeps, RespondKeeps, Zenon
<1>2. ASSUME NEW r \in Visits,
             \/ FindById(r) \/ Me(r) \/ SignOut(r) \/ RespondSignedOut(r) \/ RequestFails(r)
             \/ \E b \in Browsers, wants \in {"me", "sign_out"} : FindActive(r, b, wants)
      PROVE  SignInInv'
  BY <1>2, FindActiveKeeps, AnswerKeeps, SignOutKeeps, Zenon
<1>3. CASE UNCHANGED sessionVars
  <2>1. /\ SameSessions
        /\ UNCHANGED <<clock, states, codes, logins, stateCookie, sessionCookie, call, consumed,
                       visit, touchTasks>>
    BY <1>3, Zenon DEF sessionVars, external, SameSessions
  <2>2. Types' /\ CallsInv' /\ AnswerInv'
    <3>1. Types' /\ AnswerInv'
      BY <2>1, Zenon DEF SignInInv, Types, AnswerInv, SameSessions
    <3>2. ASSUME NEW c \in Callbacks, CallInv(c) PROVE CallInv(c)'
      BY <2>1, <3>2, Zenon DEF CallInv, RowOf, SameSessions
    <3> QED BY <3>1, <3>2, Zenon DEF SignInInv, CallsInv
  <2>3. StateInv' /\ CookieInv' /\ VisitInv'
    BY <2>1, Zenon DEF SignInInv, StateInv, CookieInv, VisitInv, SameSessions
  <2>4. SignedOutStaysOut'
    BY <2>1, LateStays, Zenon
  <2> QED BY <2>1, <2>2, <2>3, <2>4, TablesKept, Zenon DEF SignInInv
<1>4. CASE SessionsNext
  BY <1>1, <1>2, <1>4, OutsideKeeps, TouchKeeps, Zenon DEF SessionsNext
<1> QED BY <1>3, <1>4, Zenon

\* The invariant holds in every reachable state.
LEMMA SignInHolds == SessionsSpec => []SignInInv
BY SignInInvInit, SignInInvNext, PTL DEF SessionsSpec

\* However callbacks of several browsers and accounts interleave, and however
\* accounts rename, a session is of the account that signed in with it.
THEOREM SessionsAreTheSigners == SessionsSpec => []SessionIsTheSigners
<1>1. SignInInv => SessionIsTheSigners
  BY Zenon DEF SignInInv, SessionInv, SessionIsTheSigners, RowOf
<1> QED BY <1>1, SignInHolds, PTL

\* upsert_from_github never makes a second row for an account.
THEOREM RowsAreUnique == SessionsSpec => []OneRowPerAccount
<1>1. SignInInv => OneRowPerAccount
  BY Zenon DEF SignInInv
<1> QED BY <1>1, SignInHolds, PTL

\* A state lets one callback through: what arrives after its deletion is refused.
THEOREM StatesAreSpent == SessionsSpec => []StateConsumedOnce
<1>1. SignInInv => StateConsumedOnce
  BY Zenon DEF SignInInv, CallsInv, CallInv, StateConsumedOnce
<1> QED BY <1>1, SignInHolds, PTL

\* The sessions table is exactly the sessions issued and not signed out, whatever
\* touches are in flight.
THEOREM SignOutExact == SessionsSpec => []SignOutIsExact
<1>1. SignInInv => SignOutIsExact
  BY Zenon DEF SignInInv
<1> QED BY <1>1, SignInHolds, PTL

\* No request sent after its token was signed out gets past the middleware.
THEOREM SignedOutRefused == SessionsSpec => []SignedOutStaysOut
<1>1. SignInInv => SignedOutStaysOut
  BY Zenon DEF SignInInv
<1> QED BY <1>1, SignInHolds, PTL

\* Every session leads to the one users row of the account that signed in.
THEOREM SignInRight == SessionsSpec => []SignInIsRight
<1>1. SessionIsTheSigners /\ OneRowPerAccount => SignInIsRight
  BY Zenon DEF SignInIsRight
<1> QED BY <1>1, SessionsAreTheSigners, RowsAreUnique, PTL

\* A sign-out is exact and final.
THEOREM SignOutFinal == SessionsSpec => []SignOutHolds
<1>1. SignOutIsExact /\ SignedOutStaysOut => SignOutHolds
  BY Zenon DEF SignOutHolds
<1> QED BY <1>1, SignOutExact, SignedOutRefused, PTL
=============================================================================
