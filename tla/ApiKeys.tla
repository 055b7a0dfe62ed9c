------------------------------- MODULE ApiKeys -------------------------------
(***************************************************************************)
(* The api_keys table and everything that writes it: the dashboard's       *)
(* create, rotate and revoke (crates/api/src/routes/admin.rs), the         *)
(* operator's command line (crates/api/src/admin.rs) and their statements  *)
(* (crates/db/src/api_keys.rs).                                            *)
(*                                                                         *)
(* keys::generate draws a fresh prefix and a fresh secret at random; the   *)
(* n-th credential it issues is the number n, so a row holds n both as its *)
(* prefix and as its secret hash.  History variables: issuedTo, the key    *)
(* and tier credential n was issued for, and retiredAt, the moment the     *)
(* database stopped accepting it.                                          *)
(***************************************************************************)
EXTENDS Integers, Null

CONSTANTS Users, KeyIds, Tiers,
          MaxIssued,   \* bound on the credentials generated
          MaxTime      \* bound on the clock

ASSUME KeyConstants ==
  /\ MaxIssued \in Nat /\ MaxTime \in Nat
  /\ NULL \notin Nat

VARIABLES now, keys, issued, issuedTo, retiredAt

keyVars == <<keys, issued, issuedTo, retiredAt>>

Credentials == 1 .. MaxIssued

\* Row n of api_keys::insert.
KeyRow(u, t, n) ==
  [user_id |-> u, tier |-> t, prefix |-> n, secret_hash |-> n,
   revoked |-> FALSE, used |-> FALSE]

KeyRows ==
  [user_id : Users, tier : Tiers, prefix : Credentials,
   secret_hash : Credentials, revoked : BOOLEAN, used : BOOLEAN]

KeysInit ==
  /\ now = 0
  /\ keys = [k \in KeyIds |-> NULL]
  /\ issued = 0
  /\ issuedTo = [n \in Credentials |-> NULL]
  /\ retiredAt = [n \in Credentials |-> NULL]

\* A row that WHERE ... AND revoked_at IS NULL selects.
ActiveRow(k) == keys[k] # NULL /\ ~keys[k].revoked

\* keys::generate: the next credential, for key k of tier t.
Generate(k, t) ==
  /\ issued < MaxIssued
  /\ issued' = issued + 1
  /\ issuedTo' = [issuedTo EXCEPT ![issued + 1] = [id |-> k, tier |-> t]]

Retire(n) == retiredAt' = [retiredAt EXCEPT ![n] = now]

\* The INSERT both the dashboard and the command line end in.
IssueKey(u, t) ==
  \E k \in KeyIds :
     /\ keys[k] = NULL
     /\ Generate(k, t)
     /\ keys' = [keys EXCEPT ![k] = KeyRow(u, t, issued + 1)]
     /\ UNCHANGED retiredAt

CreateKey(u, t) == IssueKey(u, t)

\* The command line finds the user by GitHub login first.
CliCreateKey(u, t) == IssueKey(u, t)

\* UPDATE ... WHERE id AND user_id AND revoked_at IS NULL: new prefix and secret
\* on the same row, which starts unused.
RotateForUser(u, k) ==
  /\ ActiveRow(k) /\ keys[k].user_id = u
  /\ keys' = [keys EXCEPT ![k] = KeyRow(u, keys[k].tier, issued + 1)]

RotateKey(u, k) ==
  /\ RotateForUser(u, k)
  /\ Generate(k, keys[k].tier)
  /\ Retire(keys[k].prefix)

RevokedRow(row) == [row EXCEPT !.revoked = TRUE]

\* UPDATE ... SET revoked_at, by id and owner.
RevokeForUser(u, k) ==
  /\ ActiveRow(k) /\ keys[k].user_id = u
  /\ keys' = [keys EXCEPT ![k] = RevokedRow(@)]

RevokeKey(u, k) ==
  /\ RevokeForUser(u, k)
  /\ Retire(keys[k].prefix)
  /\ UNCHANGED <<issued, issuedTo>>

\* UPDATE ... SET revoked_at, by prefix.
Revoke(k, n) ==
  /\ ActiveRow(k) /\ keys[k].prefix = n
  /\ keys' = [keys EXCEPT ![k] = RevokedRow(@)]

CliRevokeKey(n) ==
  \E k \in KeyIds :
     /\ Revoke(k, n)
     /\ Retire(n)
     /\ UNCHANGED <<issued, issuedTo>>

\* find_active_by_prefix: the key whose active row has prefix n, or NULL.
FindActiveByPrefix(n) ==
  IF \E k \in KeyIds : ActiveRow(k) /\ keys[k].prefix = n
  THEN CHOOSE k \in KeyIds : ActiveRow(k) /\ keys[k].prefix = n
  ELSE NULL

\* A touch that finds its row by the id of the key the credential was issued for.
TouchedKeys_ById(n) ==
  [k \in KeyIds |-> IF keys[k] # NULL /\ issuedTo[n].id = k
                    THEN [keys[k] EXCEPT !.used = TRUE] ELSE keys[k]]

\* touch_last_used, by prefix, whether or not the row is still active.
TouchedKeys(n) ==
  [k \in KeyIds |-> IF keys[k] # NULL /\ keys[k].prefix = n
                    THEN [keys[k] EXCEPT !.used = TRUE] ELSE keys[k]]

\* What a listing shows of key k.
KeyView(k) ==
  [id |-> k, tier |-> keys[k].tier, prefix |-> keys[k].prefix,
   status |-> IF keys[k].revoked THEN "revoked" ELSE "active",
   used |-> keys[k].used]

ListAll == {k \in KeyIds : keys[k] # NULL}
ListForUser(u) == {k \in ListAll : keys[k].user_id = u}

ListKeys(u) == {KeyView(k) : k \in ListForUser(u)}
CliListKeys == {KeyView(k) : k \in ListAll}

ManageKeys ==
  \/ \E u \in Users, t \in Tiers : CreateKey(u, t) \/ CliCreateKey(u, t)
  \/ \E u \in Users, k \in KeyIds : RotateKey(u, k) \/ RevokeKey(u, k)
  \/ \E n \in Credentials : CliRevokeKey(n)

=============================================================================
