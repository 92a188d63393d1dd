------------------------------- MODULE Gateway -------------------------------
(***************************************************************************)
(* The way of a request into the service: auth_middleware, the rate        *)
(* limiter and a handler (main.py), with the key store and the admin API   *)
(* (auth/keystore.py, auth/router.py) behind them.                         *)
(*                                                                         *)
(* Each middleware awaits call_next, which runs the rest of the stack in a *)
(* task of its own: other requests are served between authentication and   *)
(* limiter, and between limiter and handler, so each of the three is a     *)
(* step.                                                                   *)
(*                                                                         *)
(* A request that is turned away at once (401), exempt paths and handlers  *)
(* that only read the key store change nothing.  A request is turned away  *)
(* after the limiter (403, 404, 413, 503) or served by a handler of        *)
(* another component in one and the same way here.  Names, hashes,         *)
(* last_used_at and rows of another hash_scheme are left out.              *)
(***************************************************************************)
EXTENDS RateLimiter

CONSTANTS
    Key,      \* key_ids the store may hand out
    Client,   \* client addresses
    Request   \* requests that may be in flight at the same time

ASSUME PrincipalsAssumption == Principal = Key \cup Client \cup {"admin", "legacy"}
ASSUME KindsAssumption == Key \cap Client = {} /\ {"admin", "legacy"} \cap (Key \cup Client) = {}

VARIABLES
    mode,      \* what the environment configures: "keys" (an admin key), "legacy"
               \* (only one shared api_key) or "open" (neither)
    api_keys,  \* the api_keys table, a file: key_id -> its row
    requests   \* where each request in flight is, and its api_key_principal

vars == <<limiterVars, mode, api_keys, requests>>

-----------------------------------------------------------------------------
Mode == {"keys", "legacy", "open"}

NoRequest == [at |-> "nowhere", principal |-> "none"]

InFlight(p) == \E r \in Request : requests[r] # NoRequest /\ requests[r].principal = p

\* Mutant: SELECT ... WHERE key_hash = ?, whether or not the key is active.
authenticate_Revoked == {k \in Key : api_keys[k] # "absent"}

\* The keys that KeyStore.authenticate knows.
authenticate == {k \in Key : api_keys[k] = "active"}

\* Mutant: what the header holds is taken for the principal.
Accepted_Unchecked ==
    CASE mode = "keys" -> Key \cup {"admin"}
      [] mode = "legacy" -> {"legacy"}
      [] mode = "open" -> Client

\* The principals a request may get from auth_middleware.  In mode "open" it
\* gets none, and the limiter falls back to the address of the client.
Accepted ==
    CASE mode = "keys" -> authenticate \cup {"admin"}
      [] mode = "legacy" -> {"legacy"}
      [] mode = "open" -> Client

\* Mutant: every authenticated request is the admin's.
_check_admin_key_Authenticated(r) == mode = "keys"

\* The header must hold the admin key, which must be configured.
_check_admin_key(r) == mode = "keys" /\ requests[r].principal = "admin"

-----------------------------------------------------------------------------
Init ==
    /\ LimiterInit
    /\ mode \in Mode
    /\ api_keys = [k \in Key |-> "absent"]
    /\ requests = [r \in Request |-> NoRequest]

Authenticate(r) ==
    /\ requests[r] = NoRequest
    /\ \E p \in Accepted :
          requests' = [requests EXCEPT ![r] = [at |-> "limiter", principal |-> p]]
    /\ UNCHANGED <<limiterVars, mode, api_keys>>

Charge(r) ==
    /\ requests[r].at = "limiter"
    /\ \/ /\ Admit(requests[r].principal)
          /\ requests' = [requests EXCEPT ![r].at = "handler"]
       \/ /\ Refuse(requests[r].principal)
          /\ requests' = [requests EXCEPT ![r] = NoRequest]
    /\ UNCHANGED <<mode, api_keys>>

Leaves(r) ==
    /\ requests[r].at = "handler"
    /\ requests' = [requests EXCEPT ![r] = NoRequest]
    /\ UNCHANGED <<limiterVars, mode>>

\* POST /v1/admin/keys: INSERT a row for a new key.
create_key(r) ==
    /\ Leaves(r)
    /\ _check_admin_key(r)
    /\ \E k \in Key :
          /\ api_keys[k] = "absent"
          /\ api_keys' = [api_keys EXCEPT ![k] = "active"]

\* DELETE /v1/admin/keys/{key_id}: UPDATE ... SET is_active = 0.
revoke_key(r) ==
    /\ Leaves(r)
    /\ _check_admin_key(r)
    /\ \E k \in Key :
          /\ api_keys[k] = "active"
          /\ api_keys' = [api_keys EXCEPT ![k] = "revoked"]

\* Any other handler, or none.
OtherHandler(r) == Leaves(r) /\ UNCHANGED api_keys

\* The process ends and starts again, perhaps with another environment: the
\* limiter and the requests are gone, the key store is a file.
Restart ==
    /\ rate_limit_buckets' = [q \in Principal |-> <<>>]
    /\ rate_limit_counter' = 0
    /\ admitted' = [q \in Principal |-> <<>>]
    /\ mode' \in Mode
    /\ requests' = [r \in Request |-> NoRequest]
    /\ UNCHANGED <<now, api_keys>>

Next ==
    \/ \E r \in Request :
          \/ Authenticate(r)
          \/ Charge(r)
          \/ create_key(r)
          \/ revoke_key(r)
          \/ OtherHandler(r)
    \/ Tick /\ UNCHANGED <<mode, api_keys, requests>>
    \/ Restart

Spec == Init /\ [][Next]_vars

-----------------------------------------------------------------------------
TypeOK ==
    /\ LimiterTypeOK
    /\ mode \in Mode
    /\ api_keys \in [Key -> {"absent", "active", "revoked"}]
    /\ requests \in [Request -> [at: {"limiter", "handler"}, principal: Principal] \cup {NoRequest}]

(* Only who was let in is charged: the limiter knows no principal but those  *)
(* the configured way to authenticate can produce, and no key that was never *)
(* handed out, so a flood of bad credentials cannot fill its table (the      *)
(* order of the middleware, main.py 125-134).                                *)
ChargedWereLetIn ==
    \A q \in Tracked(rate_limit_buckets) :
        /\ q \in Client <=> mode = "open"
        /\ q = "legacy" <=> mode = "legacy"
        /\ q \in Key => api_keys[q] # "absent"

(* A revoked key is cut off: once the requests it had in flight are through, *)
(* nothing it sends is charged or handled again, whatever is restarted or    *)
(* reconfigured in between, and the key does not come back.                  *)
RevokedIsCutOff ==
    [][\A k \in Key : api_keys[k] = "revoked" /\ ~InFlight(k) =>
          /\ api_keys'[k] = "revoked"
          /\ ~InFlight(k)'
          /\ admitted'[k] \in {admitted[k], <<>>}]_vars

(* A data-plane key never grants admin access (auth/router.py 28-34): every  *)
(* change of the key table is made by a request that carried the admin key   *)
(* and was charged for, and moves a key from absent to active to revoked.    *)
KeysChangeByAdminOnly ==
    [][\A k \in Key : api_keys'[k] # api_keys[k] =>
          /\ <<api_keys[k], api_keys'[k]>> \in {<<"absent", "active">>, <<"active", "revoked">>}
          /\ \E r \in Request : requests[r] = [at |-> "handler", principal |-> "admin"]]_vars

-----------------------------------------------------------------------------
(* What the limiter promises, as a specification of its own. *)
Promise == INSTANCE SlidingWindow WITH granted <- admitted

(* With other requests between authentication, limiter and handler, with     *)
(* sweeps, evictions and restarts, the service does what SlidingWindow says: *)
(* it serves and denies exactly by the grants of the last window, a denied   *)
(* request takes nobody's place, and the count that an eviction drops is     *)
(* that of the principal seen longest ago in a full table (main.py 231-256). *)
ImplementsWindow == Promise!Spec
=============================================================================
