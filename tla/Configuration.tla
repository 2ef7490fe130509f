---------------------------- MODULE Configuration ----------------------------
(***************************************************************************)
(* What serve reads from the environment and refuses to start with         *)
(* (security/auth.rs, AuthConfig::from_env and validate_auth_policy;       *)
(* security/oidc.rs, OidcConfig::from_values and the checks of its URLs).  *)
(* A URL is what the checks tell apart; one that does not parse is NoUrl.  *)
(***************************************************************************)
EXTENDS FiniteSets

Url ==
  [scheme : {"https", "http", "other"}, loopback : BOOLEAN,
   userinfo : BOOLEAN, fragment : BOOLEAN, query : BOOLEAN, callbackPath : BOOLEAN]
NoUrl == [scheme |-> "none"]

OidcVariable == {"issuer", "clientId", "clientSecret", "redirectUrl"}

\* The variables that are set, and the URLs in them.  A malformed hash is a text that is not
\* blank and that verify_password matches with no password.
Environment ==
  [passwordHash : {"unset", "malformed", "usable"}, authDisabled : BOOLEAN,
   oidc : SUBSET OidcVariable, issuer : Url \cup {NoUrl}, redirectUrl : Url \cup {NoUrl},
   bindParses : BOOLEAN]
----
SecureOrLoopback(url) == url.scheme = "https" \/ (url.scheme = "http" /\ url.loopback)

\* validate_service_endpoint, for what discovery returns.
ServiceEndpointOK(url) == ~url.userinfo /\ ~url.fragment /\ SecureOrLoopback(url)

\* validate_oidc_url.
OidcUrlOK(url, callback) ==
  /\ url # NoUrl
  /\ ServiceEndpointOK(url)
  /\ ~url.query
  /\ callback => url.callbackPath

\* OidcConfig::from_values: nothing is set, or everything and well.
OidcOff(env) == env.oidc = {}
OidcOn(env) ==
  /\ env.oidc = OidcVariable
  /\ OidcUrlOK(env.issuer, FALSE)
  /\ OidcUrlOK(env.redirectUrl, TRUE)

\* password_hash.is_some(): nobody looks at the form of the hash before a login does.
HashSet(env) == env.passwordHash # "unset"

\* validate_auth_policy.
AuthPolicyOK(env) ==
  /\ OidcOn(env) => ~env.authDisabled /\ HashSet(env)
  /\ HashSet(env) \/ env.authDisabled

\* Config::from_env returns a configuration.
Accepted(env) == (OidcOff(env) \/ OidcOn(env)) /\ AuthPolicyOK(env)
=============================================================================
