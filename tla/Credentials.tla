---------------------------- MODULE Credentials ----------------------------
(***************************************************************************)
(* Who a call speaks for.  The server side (grpcserver/auth.go and         *)
(* internal.go) reads the authorization metadata of a call; the client     *)
(* side (grpcclient/token.go, service.go, interceptors.go) writes it.      *)
(*                                                                         *)
(* Metadata "authorization" is a sequence of header values.  A header is   *)
(* one of: "scheme" (not Bearer), "blank" (Bearer and nothing), or a       *)
(* bearer token named by what its signature and claims say.                *)
(***************************************************************************)
EXTENDS Sequences, ErrorMapping

\* Access tokens by their subject; "bad" is expired, foreign or garbage.
AccessTokens == {"user", "admin", "service"}
BearerTokens == AccessTokens \cup {"refresh", "bad"}
Headers == BearerTokens \cup {"scheme", "blank"}

\* What an absent value is written as: no header, no request id, no claims.
Absent == "absent"

RoleService == "service"
Roles(subject) == CASE subject = "admin"   -> {"admin"}
                    [] subject = "service" -> {RoleService}
                    [] OTHER               -> {}
HasRole(claims, role) == role \in Roles(claims)

\* The verdict of a check: the claims to go on with, or the error to return.
Granted(claims) == [claims |-> claims, err |-> NoError]
Denied(err) == [claims |-> Absent, err |-> err]

\* metadataValue: the first value, "" when there is none.
MetadataValue(values) == IF values = <<>> THEN Absent ELSE Head(values)

\* BearerToken: the raw token, or why there is none.
BearerToken(values) ==
  LET header == MetadataValue(values)
  IN  IF header \in BearerTokens
        THEN [raw |-> header, err |-> NoError]
        ELSE [raw |-> Absent, err |-> Status("Unauthenticated")]

\* Manager.ParseAccess: signature, issuer, audience, expiry, then the type.
ParseAccess(raw) == raw \in AccessTokens

-----------------------------------------------------------------------------
\* Slip: an optional check that lets a token through that does not parse.
AuthenticateLax(claims, values, configured, optional) ==
  LET bearer == BearerToken(values)
  IN  IF ~configured THEN Denied(Status("Internal"))
      ELSE IF ParseAccess(bearer.raw) THEN Granted(bearer.raw)
      ELSE IF optional THEN Granted(claims)
      ELSE Denied(Status("Unauthenticated"))

\* authenticate with TokenAuthenticator: optional forgives a missing token only.
Authenticate(claims, values, configured, optional) ==
  LET bearer == BearerToken(values)
  IN  IF ~configured THEN Denied(Status("Internal"))
      ELSE IF bearer.err # NoError
             THEN IF optional THEN Granted(claims) ELSE Denied(bearer.err)
      ELSE IF ~ParseAccess(bearer.raw) THEN Denied(Status("Unauthenticated"))
      ELSE Granted(bearer.raw)

\* InternalAuthUnaryInterceptor on one of its methods.
InternalAuth(claims, values, configured) ==
  LET bearer == BearerToken(values)
  IN  IF ~configured THEN Denied(Status("Internal"))
      ELSE IF bearer.err # NoError THEN Denied(bearer.err)
      ELSE IF ~ParseAccess(bearer.raw) THEN Denied(Status("Unauthenticated"))
      ELSE IF ~HasRole(bearer.raw, RoleService) THEN Denied(Status("PermissionDenied"))
      ELSE Granted(bearer.raw)

\* RequireRole: the claims some earlier interceptor put into the context.
RequireRole(claims, roles) ==
  CASE claims = Absent -> Denied(Status("Unauthenticated"))
    [] \E role \in roles : HasRole(claims, role) -> Granted(claims)
    [] OTHER -> Denied(Status("PermissionDenied"))

-----------------------------------------------------------------------------
\* incomingBearer: the bearer token the calling handler was itself called with.
IncomingBearer(incoming) == BearerToken(incoming).raw

\* Slip: the token of the caller wins over the one the handler chose.
ForwardedTokenFirst(outgoing, explicit, incoming) ==
  LET raw == IncomingBearer(incoming)
      chosen == IF raw = Absent THEN explicit ELSE raw
  IN  IF outgoing # <<>> \/ chosen = Absent THEN outgoing ELSE Append(outgoing, chosen)

\* withForwardedToken: metadata already set wins, then WithToken, then the token of
\* the incoming call.
WithForwardedToken(outgoing, explicit, incoming) ==
  LET chosen == IF explicit # Absent THEN explicit ELSE IncomingBearer(incoming)
  IN  IF outgoing # <<>> \/ chosen = Absent THEN outgoing ELSE Append(outgoing, chosen)

\* Slip: the header added to what is there.
ServiceTokenAdded(outgoing) == Append(outgoing, "service")

\* ServiceTokenUnaryInterceptor sets the header, StaticTokenInterceptor appends one.
ServiceToken(outgoing) == <<"service">>
StaticToken(outgoing) == Append(outgoing, "service")
=============================================================================
