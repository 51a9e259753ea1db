------------------------------ MODULE ApiKeys ------------------------------
(***************************************************************************)
(* API keys: the table api_key_metadata behind auth.SQLStore, the checks   *)
(* of auth.Service and the `keys` commands, each a process of its own.     *)
(* HashKey is deterministic and, for the keys of a run, injective, so a    *)
(* row is found under its raw key.                                         *)
(***************************************************************************)
EXTENDS Naturals

CONSTANTS
  Raws,        \* raw keys with the prefix, generated or configured
  Configured,  \* server.webhook_api_keys
  Foreign,     \* other strings that requests carry: none, or without prefix
  Grants,      \* the sets of scopes that `keys create` is given
  Revokers     \* processes that run `keys revoke`

\* NormalizeScopes accepts these, at least one of them.
Scopes == {"webhook", "admin"}

ASSUME ApiKeysAssumption ==
  /\ Configured \subseteq Raws
  /\ Raws \cap Foreign = {}
  /\ "none" \notin Raws
  /\ Grants \subseteq (SUBSET Scopes) \ {{}}

VARIABLES
  keys,        \* api_key_metadata: a function on the raw keys with a row
  revoker,     \* the key each `keys revoke` has found, or "none"
  withdrawn    \* keys whose revocation some command has reported

keyVars == <<keys, revoker, withdrawn>>

Stored == DOMAIN keys

KeysInit ==
  /\ keys = [raw \in {} |-> [scopes |-> {"webhook"}, revoked |-> FALSE]]
  /\ revoker = [c \in Revokers |-> "none"]
  /\ withdrawn = {}

Insert(raw, scopes) ==
  keys' = [r \in Stored \cup {raw} |->
             IF r = raw THEN [scopes |-> scopes, revoked |-> FALSE] ELSE keys[r]]

-----------------------------------------------------------------------------
\* HasScope: admin grants every scope.
HasScope(scopes, required) == "admin" \in scopes \/ required \in scopes

\* ValidateKey, which reads the row once: the prefix, the hash, the
\* revocation and the scope, in this order.
ValidateKey(raw, required) ==
  IF raw \notin Stored THEN "invalid"
  ELSE IF keys[raw].revoked THEN "revoked"
  ELSE IF ~HasScope(keys[raw].scopes, required) THEN "forbidden"
  ELSE "valid"

\* `keys create`: NormalizeScopes, a new random key, one INSERT.
CreateKey(raw) ==
  /\ raw \notin Stored \cup Configured
  /\ \E scopes \in Grants : Insert(raw, scopes)
  /\ UNCHANGED <<revoker, withdrawn>>

\* Mutant of CreateIfNotExists: INSERT OR REPLACE.
CreateOrReplace(raw) == Insert(raw, {"webhook"}) /\ UNCHANGED <<revoker, withdrawn>>

\* keyService, for one configured key: ON CONFLICT(hash) DO NOTHING.
CreateIfNotExists(raw) ==
  /\ IF raw \in Stored THEN UNCHANGED keys ELSE Insert(raw, {"webhook"})
  /\ UNCHANGED <<revoker, withdrawn>>

\* `keys revoke`, RevokeByHash: FindByHash, then UPDATE without a transaction.
\* A key without a row, or a foreign string, ends the command instead.
RevokeFind(c) ==
  /\ revoker[c] = "none"
  /\ \E raw \in Stored : revoker' = [revoker EXCEPT ![c] = raw]
  /\ UNCHANGED <<keys, withdrawn>>

RevokeUpdate(c) ==
  /\ revoker[c] # "none"
  /\ keys' = [keys EXCEPT ![revoker[c]].revoked = TRUE]
  /\ revoker' = [revoker EXCEPT ![c] = "none"]
  /\ withdrawn' = withdrawn \cup {revoker[c]}

\* The command dies, or its second statement is refused.
RevokeFails(c) ==
  /\ revoker[c] # "none"
  /\ revoker' = [revoker EXCEPT ![c] = "none"]
  /\ UNCHANGED <<keys, withdrawn>>

KeyCommands ==
  \/ \E raw \in Raws : CreateKey(raw)
  \/ \E c \in Revokers : RevokeFind(c) \/ RevokeUpdate(c) \/ RevokeFails(c)

=============================================================================
