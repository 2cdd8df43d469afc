--------------------------- MODULE Authorization ---------------------------
(***************************************************************************)
(* The OAuth client: AuthorizationManager (auth/lifecycle.hpp) and the     *)
(* flow OAuthClientOrchestrator drives with it.  The class has no lock, so *)
(* its calls come one after the other, in any order and with any time      *)
(* between them; a call is a step.                                         *)
(*                                                                         *)
(* Token endpoint, registration endpoint and stores belong to the          *)
(* application and may fail at every call.  A call that returns an error   *)
(* before it has changed anything is a stuttering step.                    *)
(***************************************************************************)
EXTENDS Integers

CONSTANTS Clients,      \* client ids
          Resources, Uris, Scopes,
          Metadata,     \* [issuer, documents, registration, offline]: what a server advertises
          States,       \* values of the state parameter
          Tokens,       \* refresh tokens
          Lifetimes,    \* of an access token; NotGiven for none
          Offline,      \* the scope offline_access
          NotGiven, Empty,
          Ttl,          \* authorization_state_ttl_
          Skew,         \* refresh_skew
          MaxAttempts,  \* max_upgrade_attempts; 0 without auto_upgrade
          Horizon       \* bound on the clock

VARIABLES
  resource_, metadata_,
  client_,              \* [id, redirect_uri]
  state_store_,         \* state -> [created_at, requested_scopes]
  credential_store_,    \* key -> [refresh_token, expires_at, granted_scopes]
  state_, current_scopes_, scope_upgrade_attempts_,
  clock,
  started, exchanged,   \* state -> how often it was stored, and sent with a code
  newest,               \* key -> the refresh token received last
  unsaved,              \* keys whose newest refresh token could not be saved
  last                  \* [key, saved]: the token response received last

settings == <<resource_, metadata_, client_>>
pending == <<state_store_, started>>
grants == <<credential_store_, current_scopes_, newest, unsaved, last>>
vars == <<settings, pending, grants, state_, scope_upgrade_attempts_, clock, exchanged>>

Key(r, m, c) == <<r, m.issuer, c.id>>
Put(f, x, v) == [y \in DOMAIN f \cup {x} |-> IF y = x THEN v ELSE f[y]]
Without(f, x) == [y \in DOMAIN f \ {x} |-> f[y]]

Init ==
  /\ resource_ \in Resources /\ metadata_ \in Metadata
  /\ client_ = [id |-> NotGiven, redirect_uri |-> NotGiven]
  /\ state_store_ = [s \in {} |-> 0] /\ credential_store_ = [k \in {} |-> 0]
  /\ state_ = "unauthorized" /\ current_scopes_ = {} /\ scope_upgrade_attempts_ = 0
  /\ clock = 0
  /\ started = [s \in States |-> 0] /\ exchanged = [s \in States |-> 0]
  /\ newest = [k \in {} |-> 0] /\ unsaved = {}
  /\ last = [key |-> NotGiven, saved |-> FALSE]

-----------------------------------------------------------------------------
(* Choosing the client.                                                    *)

\* The configurations a call may end with; none when it refuses.
configure_client_id(id, uri) ==
  {[id |-> id, redirect_uri |-> u] :
     u \in {IF uri = NotGiven THEN client_.redirect_uri ELSE uri} \ {NotGiven}}

register_client(m, uri) ==
  IF m.registration /\ uri # NotGiven THEN [id : Clients, redirect_uri : {uri}] ELSE {}

configure_client_for_authorization(m, url, uri) ==
  IF url # NotGiven /\ m.documents THEN configure_client_id(url, uri) ELSE register_client(m, uri)

Configure ==
  /\ \/ \E id \in Clients, uri \in Uris \cup {NotGiven} : client_' \in configure_client_id(id, uri)
     \/ \E url \in Clients \cup {NotGiven}, uri \in Uris \cup {NotGiven} :
          client_' \in configure_client_for_authorization(metadata_, url, uri)
  /\ UNCHANGED <<resource_, metadata_, pending, grants, state_, scope_upgrade_attempts_, clock,
                 exchanged>>

set_authorization_server_metadata ==
  /\ resource_' \in Resources /\ metadata_' \in Metadata
  /\ UNCHANGED <<client_, pending, grants, state_, scope_upgrade_attempts_, clock, exchanged>>

-----------------------------------------------------------------------------
(* Asking for authorization.                                               *)

add_offline_access_if_supported(m, scopes) ==
  scopes \cup (IF scopes # {} /\ m.offline THEN {Offline} ELSE {})

\* The URL needs a client; that the addresses are well-formed and secure is left to
\* the second alternative of start_authorization.
build_authorization_url(c) == c.id # NotGiven /\ c.redirect_uri # NotGiven

\* The second alternative: no URL can be built, or the store fails.
start_authorization(m, c, scopes, s) ==
  \/ /\ build_authorization_url(c)
     /\ state_store_' = Put(state_store_, s,
          [created_at |-> clock,
           requested_scopes |-> add_offline_access_if_supported(m, scopes)])
     /\ started' = [started EXCEPT ![s] = @ + 1]
     /\ state_' = "pending"
  \/ UNCHANGED <<pending, state_>>

start_session(url, uri, scopes, s) ==
  /\ IF client_.id = NotGiven \/ client_.redirect_uri # uri
     THEN /\ client_' \in configure_client_for_authorization(metadata_, url, uri)
          /\ start_authorization(metadata_, client_', scopes, s)
     ELSE UNCHANGED client_ /\ start_authorization(metadata_, client_, scopes, s)
  /\ UNCHANGED <<resource_, metadata_, grants, scope_upgrade_attempts_, clock, exchanged>>

can_attempt_scope_upgrade == scope_upgrade_attempts_ < MaxAttempts

\* An attempt counts although the URL cannot be built or stored.
request_scope_upgrade(required, s) ==
  /\ can_attempt_scope_upgrade
  /\ scope_upgrade_attempts_' = scope_upgrade_attempts_ + 1
  /\ start_authorization(metadata_, client_, current_scopes_ \cup required, s)
  /\ UNCHANGED <<settings, grants, clock, exchanged>>

\* OAuthClientOrchestrator::authorize up to the callback, which exchanges the code.
\* Each call registers anew unless a client id is configured.
authorize(id, uri, scopes, s) ==
  /\ resource_' \in Resources /\ metadata_' \in Metadata
  /\ LET chosen == IF id # NotGiven THEN configure_client_id(id, uri)
                   ELSE register_client(metadata_', uri)
     IN \/ client_' \in chosen /\ start_authorization(metadata_', client_', scopes, s)
        \/ UNCHANGED <<client_, pending, state_>>
  /\ UNCHANGED <<grants, scope_upgrade_attempts_, clock, exchanged>>

-----------------------------------------------------------------------------
(* Tokens.                                                                 *)

Responses == [refresh_token : Tokens \cup {NotGiven, Empty}, lifetime : Lifetimes,
              scopes : SUBSET Scopes]

\* A token response is taken over; old is what a refresh answers with when the
\* response has no refresh token.  Scopes are set before the store is asked to save.
Received(key, response, old, scopes) ==
  LET fresh == response.refresh_token # NotGiven
      token == IF fresh THEN response.refresh_token ELSE old
  IN
  /\ current_scopes_' = IF response.scopes = {} THEN scopes ELSE response.scopes
  /\ newest' = IF fresh THEN Put(newest, key, token) ELSE newest
  /\ \/ /\ credential_store_' = Put(credential_store_, key,
             [refresh_token |-> token, granted_scopes |-> current_scopes_',
              expires_at |-> IF response.lifetime = NotGiven THEN NotGiven
                             ELSE clock + response.lifetime])
        /\ unsaved' = IF fresh THEN unsaved \ {key} ELSE unsaved
        /\ last' = [key |-> key, saved |-> TRUE]
        /\ state_' = "authorized"
     \/ /\ unsaved' = IF fresh THEN unsaved \cup {key} ELSE unsaved
        /\ last' = [key |-> key, saved |-> FALSE]
        /\ UNCHANGED <<credential_store_, state_>>

Expired(s) == Ttl <= 0 \/ state_store_[s].created_at + Ttl <= clock

\* The state is removed first: an expired one, and a code the endpoint refuses,
\* have spent it.
exchange_authorization_code(s) ==
  /\ s \in DOMAIN state_store_
  /\ state_store_' = Without(state_store_, s)
  /\ \/ Expired(s) /\ UNCHANGED <<exchanged, grants, state_, scope_upgrade_attempts_>>
     \/ /\ ~Expired(s)
        /\ exchanged' = [exchanged EXCEPT ![s] = @ + 1]
        /\ \/ UNCHANGED <<grants, state_, scope_upgrade_attempts_>>
           \/ /\ \E response \in Responses :
                   Received(Key(resource_, metadata_, client_), response, NotGiven,
                            state_store_[s].requested_scopes)
              /\ scope_upgrade_attempts_' = 0
  /\ UNCHANGED <<settings, started, clock>>

refresh_access_token ==
  LET key == Key(resource_, metadata_, client_) IN
  /\ key \in DOMAIN credential_store_
  /\ credential_store_[key].refresh_token \notin {NotGiven, Empty}
  /\ \E response \in Responses :
       Received(key, response, credential_store_[key].refresh_token,
                credential_store_[key].granted_scopes)
  /\ UNCHANGED <<settings, pending, scope_upgrade_attempts_, clock, exchanged>>

get_access_token ==
  LET key == Key(resource_, metadata_, client_) IN
  /\ key \in DOMAIN credential_store_
  /\ credential_store_[key].expires_at # NotGiven
  /\ credential_store_[key].expires_at <= clock + Skew
  /\ refresh_access_token

\* What a response with this status and WWW-Authenticate header asks of the client.
analyze_auth_response(status, header) ==
  CASE status \notin {401, 403} -> "proceed"
    [] status \in {401, 403} /\ header = "malformed" -> "error"
    [] status \in {401, 403} /\ header = "bearer" -> "authorize"
    [] status \in {401, 403} /\ header = "insufficient_scope" -> "upgrade"
    [] OTHER -> IF status = 401 THEN "authorize" ELSE "upgrade"

refresh_after_unauthorized_response(status, header) ==
  /\ status = 401 /\ analyze_auth_response(status, header) = "authorize"
  /\ refresh_access_token

authenticate_client_credentials(id, r, scopes) ==
  LET c == [client_ EXCEPT !.id = id] IN
  /\ client_' = c /\ resource_' = r /\ UNCHANGED metadata_
  /\ \E response \in Responses :
       Received(Key(r, metadata_, c), response, NotGiven,
                add_offline_access_if_supported(metadata_, scopes))
  /\ scope_upgrade_attempts_' = 0
  /\ UNCHANGED <<pending, clock, exchanged>>

-----------------------------------------------------------------------------
Tick ==
  /\ clock < Horizon /\ clock' = clock + 1
  /\ UNCHANGED <<settings, pending, grants, state_, scope_upgrade_attempts_, exchanged>>

Asks(s) ==
  \E scopes \in SUBSET Scopes :
    \/ \E id \in Clients \cup {NotGiven}, uri \in Uris \cup {NotGiven} :
         start_session(id, uri, scopes, s) \/ authorize(id, uri, scopes, s)
    \/ request_scope_upgrade(scopes, s)

Next ==
  \/ Tick \/ Configure \/ set_authorization_server_metadata
  \/ \E s \in States : Asks(s) \/ exchange_authorization_code(s)
  \/ refresh_access_token \/ get_access_token
  \/ \E status \in {200, 401, 403}, header \in {"none", "bearer", "insufficient_scope"} :
       refresh_after_unauthorized_response(status, header)
  \/ \E id \in Clients, r \in Resources, scopes \in SUBSET Scopes :
       authenticate_client_credentials(id, r, scopes)

Spec == Init /\ [][Next]_vars

-----------------------------------------------------------------------------
(* What the manager promises: one-time state consumption, refresh-token    *)
(* rotation and credential bookkeeping (docs/auth_design.md:237).          *)

\* A code is sent to the token endpoint at most once for every time its state was
\* stored, whatever calls come in between, fail or are repeated.
StateSpentOnce == \A s \in States : exchanged[s] <= started[s]

\* The refresh token in the store is the newest one received for its resource,
\* issuer and client, also after responses that carried none and after the manager
\* was used with other clients; unless the store failed to save it.
RefreshTokenIsNewest ==
  \A k \in DOMAIN credential_store_ :
    credential_store_[k].refresh_token # NotGiven /\ k \notin unsaved =>
      k \in DOMAIN newest /\ credential_store_[k].refresh_token = newest[k]

\* The scopes an upgrade starts from are those stored with the tokens received
\* last; unless the store failed to save them.
ScopesAreStored ==
  last.saved =>
    /\ last.key \in DOMAIN credential_store_
    /\ credential_store_[last.key].granted_scopes = current_scopes_
=============================================================================
