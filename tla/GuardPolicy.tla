---------------------------- MODULE GuardPolicy ----------------------------
(***************************************************************************)
(* How a bearer token and a tool's required scope become a decision, in    *)
(* the three places that decide:                                           *)
(*                                                                         *)
(*   gateway/guard.ts           the proxy, and the chat agent's pre-check  *)
(*   servers/flight/guard.py    the flight server's own guard              *)
(*                                                                         *)
(* A scope is the sequence of its parts: <<"flights", "read">>,            *)
(* <<"flights", "*">>, <<"*">>.  A token is what was signed: by the        *)
(* identity provider or with the demo key, for our API or for none, with   *)
(* the issuer's claim as the provider spells it, and a record of the       *)
(* claims that are present (an absent claim is not in its domain).         *)
(***************************************************************************)
EXTENDS Naturals, Sequences

CONSTANTS
  Policy,    \* the registered tools, and the scope each requires
  NoToken    \* a request without an Authorization: Bearer header

ASSUME PolicyAssumption == \A tool \in DOMAIN Policy : Policy[tool] # <<>>

Signers == {"idp", "demo", "stranger"}

(* Auth0 ends its issuer with a slash, Entra does not.                     *)
Issuers == {"slash", "bare", "none"}

(* How a token names the client it was issued to, if it does.              *)
ClientClaims == {"client_id", "azp", "sub@clients"}

ScopeClaims == <<"scope", "scopes", "scp">>

----------------------------------------------------------------------------
(* Scopes                                                                  *)

Wildcard(required) == <<Head(required), "*">>

(* guard.ts hasScope.                                                      *)
HasScope(scopes, required) ==
  scopes \cap {required, Wildcard(required), <<"*">>} # {}

(* guard.py has_scope.                                                     *)
FlightHasScope(scopes, required) ==
  scopes \cap {required, Wildcard(required), <<"*">>} # {}

Claim(token, name) ==
  IF name \in DOMAIN token.claims THEN token.claims[name] ELSE {}

(* The first of the scope claims that is among those that count, if any.   *)
FirstScopeClaim(token, counting) ==
  LET found == {i \in DOMAIN ScopeClaims : ScopeClaims[i] \in counting} IN
  IF found = {} THEN {}
  ELSE Claim(token, ScopeClaims[CHOOSE i \in found : \A j \in found : i <= j])

NotEmpty(token) == {name \in DOMAIN token.claims : token.claims[name] # {}}

(* guard.ts extractScopes: "??" takes the first claim that is present.     *)
ExtractScopes(token) ==
  FirstScopeClaim(token, DOMAIN token.claims)
    \cup Claim(token, "permissions") \cup Claim(token, "roles")

(* Variant: the permissions claim, which carries what Auth0 grants to a    *)
(* person, is not read.                                                    *)
FlightExtractScopes_NoPermissions(token) ==
  FirstScopeClaim(token, NotEmpty(token)) \cup Claim(token, "roles")

(* guard.py extract_scopes: "or" takes the first that is not empty.        *)
FlightExtractScopes(token) ==
  FirstScopeClaim(token, NotEmpty(token))
    \cup Claim(token, "permissions") \cup Claim(token, "roles")

----------------------------------------------------------------------------
(* Tokens                                                                  *)

(* clientIdFromPayload: azp counts only where no scp says that a person    *)
(* signed in.                                                              *)
NamesClient(token) ==
  \/ token.names \cap {"client_id", "sub@clients"} # {}
  \/ "azp" \in token.names /\ "scp" \notin DOMAIN token.claims

(* isM2mLikeToken.                                                         *)
IsM2mLike(token) == NamesClient(token) \/ token.gty

(* assertActiveM2mAgent; active is what the store said of the client, and  *)
(* it is asked only where revocation is switched on.                       *)
PassesRevocation(token, revocation, active) ==
  IsM2mLike(token) => NamesClient(token) /\ (revocation => active)

(* validateToken: a token whose issuer is the provider's is verified with  *)
(* the provider's keys, as the issuer it names, any other with the demo    *)
(* key.                                                                    *)
ValidateToken(token, trust, revocation, active) ==
  /\ token # NoToken
  /\ token.fresh
  /\ IF trust /\ token.iss # "none"
     THEN token.by = "idp" /\ token.ours
          /\ PassesRevocation(token, revocation, active)
     ELSE token.by = "demo"

(* validate_token: the same, but the issuer has to end with a slash, and   *)
(* nobody is asked about revocation.                                       *)
FlightValidateToken(token, trust) ==
  /\ token # NoToken
  /\ token.fresh
  /\ IF trust /\ token.iss # "none"
     THEN token.by = "idp" /\ token.ours /\ token.iss = "slash"
     ELSE token.by = "demo"

----------------------------------------------------------------------------
(* Decisions                                                               *)

(* checkScope on the scopes of a token.                                    *)
CheckScope(tool, scopes) ==
  IF tool \notin DOMAIN Policy THEN "unknownTool"
  ELSE IF HasScope(scopes, Policy[tool]) THEN "allowed" ELSE "missingScope"

(* authorize: whatever goes wrong with the token is a refusal.             *)
Authorize(tool, token, trust, revocation, active) ==
  IF ValidateToken(token, trust, revocation, active)
  THEN CheckScope(tool, ExtractScopes(token))
  ELSE "invalidToken"

(* guard.py authorize.                                                     *)
FlightAuthorize(tool, token, trust) ==
  /\ FlightValidateToken(token, trust)
  /\ tool \in DOMAIN Policy
  /\ FlightHasScope(FlightExtractScopes(token), Policy[tool])
=============================================================================
