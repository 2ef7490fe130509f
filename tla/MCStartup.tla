------------------------------ MODULE MCStartup ------------------------------
(* Startup for TLC: environments that are right, or wrong in one place.    *)
EXTENDS Startup

Https == [scheme |-> "https", loopback |-> FALSE, userinfo |-> FALSE, fragment |-> FALSE,
          query |-> FALSE, callbackPath |-> TRUE]
Local == [passwordHash |-> "usable", authDisabled |-> FALSE, oidc |-> {}, issuer |-> NoUrl,
          redirectUrl |-> NoUrl, bindParses |-> TRUE]
Managed == [Local EXCEPT !.oidc = OidcVariable, !.issuer = Https, !.redirectUrl = Https]

Environments ==
  {Local, Managed,
   [Local EXCEPT !.passwordHash = "unset"],
   [Local EXCEPT !.passwordHash = "unset", !.authDisabled = TRUE],
   [Local EXCEPT !.bindParses = FALSE],
   [Local EXCEPT !.passwordHash = "malformed"],
   [Managed EXCEPT !.passwordHash = "unset"],
   [Managed EXCEPT !.authDisabled = TRUE],
   [Managed EXCEPT !.oidc = @ \ {"clientSecret"}],
   [Managed EXCEPT !.issuer.scheme = "http"],
   [Managed EXCEPT !.issuer.scheme = "http", !.issuer.loopback = TRUE],
   [Managed EXCEPT !.redirectUrl.callbackPath = FALSE],
   [Managed EXCEPT !.redirectUrl.query = TRUE]}
=============================================================================
