------------------------------ MODULE RpcProofs ------------------------------
(***************************************************************************)
(* Proofs about Rpc, for any configurations, requests, handlers' errors    *)
(* and number of attempts, and for chains of any length with the user's    *)
(* interceptors in any order.                                              *)
(***************************************************************************)
EXTENDS Rpc, FiniteSetTheorems, SequenceTheorems, TLAPS

-------------------------------------------------------------------------------
(* Chains and stacks *)

\* The place of ErrorMapping in the chain.
MapAt == IF cfg.registry THEN 5 ELSE 4

Interceptors == UserInterceptors \cup {"recovery", "requestid", "logging", "metrics", "mapping"}

\* The interceptors newGRPCServer puts first stand where they should, and behind
\* them stand only those of the user.
LEMMA ChainShape ==
  ASSUME cfg \in Configs, NEW c \in Calls
  PROVE  /\ Chain(c) \in Seq(Interceptors) /\ Len(Chain(c)) \in Nat
         /\ MapAt \in {4, 5} /\ MapAt <= Len(Chain(c))
         /\ Len(Chain(c)) = MapAt + Len(cfg.chain[ServiceOf(c)])
         /\ Len(cfg.chain[ServiceOf(c)]) \in Nat
         /\ cfg.registry \in BOOLEAN
         /\ \A i \in 1 .. Len(Chain(c)) :
              Chain(c)[i] = IF i = 1 THEN "recovery" ELSE IF i = 2 THEN "requestid"
                            ELSE IF i = 3 THEN "logging"
                            ELSE IF i = MapAt THEN "mapping"
                            ELSE IF i < MapAt THEN "metrics"
                            ELSE cfg.chain[ServiceOf(c)][i - MapAt]
         /\ \A i \in 1 .. Len(Chain(c)) : i > MapAt => Chain(c)[i] \in UserInterceptors
<1> DEFINE u == cfg.chain[ServiceOf(c)]
<1>1. u \in Seq(UserInterceptors) /\ cfg.registry \in BOOLEAN
  <2>1. ServiceOf(c) \in Services
    BY DEF ServiceOf, Services
  <2>2. \A S : S = UserInterceptors \/ S = {"auth"} => Seq(S) \subseteq Seq(UserInterceptors)
    BY DEF UserInterceptors
  <2>3. cfg.chain \in [Services -> Seq(IF cfg.kind = "unary" THEN UserInterceptors ELSE {"auth"})]
    BY RpcAssumption
  <2> QED BY <2>1, <2>2, <2>3, RpcAssumption
<1>2. u \in Seq(Interceptors)
  BY <1>1 DEF Interceptors
<1>3. Standard \in Seq(Interceptors) /\ Len(Standard) = MapAt
      /\ \A i \in 1 .. MapAt :
           Standard[i] = IF i = 1 THEN "recovery" ELSE IF i = 2 THEN "requestid"
                         ELSE IF i = 3 THEN "logging"
                         ELSE IF i = MapAt THEN "mapping" ELSE "metrics"
  <2> DEFINE first == <<"recovery", "requestid", "logging">>
             metrics == IF cfg.registry THEN <<"metrics">> ELSE <<>>
             last == <<"mapping">>
  <2>1. /\ first \in Seq(Interceptors) /\ Len(first) = 3
        /\ first[1] = "recovery" /\ first[2] = "requestid" /\ first[3] = "logging"
    BY DEF Interceptors
  <2>2. /\ metrics \in Seq(Interceptors) /\ Len(metrics) = MapAt - 4
        /\ cfg.registry => metrics[1] = "metrics"
    <3>1. CASE cfg.registry
      BY <3>1 DEF MapAt, Interceptors
    <3>2. CASE ~ cfg.registry
      BY <3>2 DEF MapAt
    <3> QED BY <3>1, <3>2
  <2>3. last \in Seq(Interceptors) /\ Len(last) = 1 /\ last[1] = "mapping"
    BY DEF Interceptors
  <2>4. MapAt = IF cfg.registry THEN 5 ELSE 4
    BY DEF MapAt
  <2>5. Standard = (first \o metrics) \o last
    BY DEF Standard
  <2> HIDE DEF first, metrics, last
  <2>6. /\ first \o metrics \in Seq(Interceptors) /\ Len(first \o metrics) = MapAt - 1
        /\ \A i \in 1 .. MapAt - 1 :
             (first \o metrics)[i] = IF i <= 3 THEN first[i] ELSE metrics[i - 3]
    <3>1. /\ first \o metrics \in Seq(Interceptors)
          /\ Len(first \o metrics) = Len(first) + Len(metrics)
          /\ \A i \in 1 .. Len(first) + Len(metrics) :
               (first \o metrics)[i] = IF i <= Len(first) THEN first[i]
                                                         ELSE metrics[i - Len(first)]
      BY <2>1, <2>2, ConcatProperties
    <3> QED BY <3>1, <2>1, <2>2, <2>4
  <2>7. /\ Standard \in Seq(Interceptors) /\ Len(Standard) = MapAt
        /\ \A i \in 1 .. MapAt :
             Standard[i] = IF i <= MapAt - 1 THEN (first \o metrics)[i]
                                             ELSE last[i - (MapAt - 1)]
    <3> DEFINE begin == first \o metrics
    <3>1. begin \in Seq(Interceptors)
      BY <2>6
    <3>2. Standard = begin \o last
      BY <2>5
    <3> HIDE DEF begin
    <3>3. /\ Standard \in Seq(Interceptors)
          /\ Len(Standard) = Len(begin) + Len(last)
          /\ \A i \in 1 .. Len(begin) + Len(last) :
               Standard[i] = IF i <= Len(begin) THEN begin[i] ELSE last[i - Len(begin)]
      BY <3>1, <3>2, <2>3, ConcatProperties
    <3> QED BY <3>3, <2>3, <2>4, <2>6 DEF begin
  <2>8. CASE cfg.registry
    BY <2>1, <2>2, <2>3, <2>4, <2>6, <2>7, <2>8
  <2>9. CASE ~ cfg.registry
    BY <2>1, <2>3, <2>4, <2>6, <2>7, <2>9
  <2> QED BY <2>8, <2>9
<1> HIDE DEF u
<1>4. MapAt \in {4, 5}
  BY DEF MapAt
<1>5. /\ Chain(c) \in Seq(Interceptors) /\ Len(Chain(c)) = MapAt + Len(u)
      /\ \A i \in 1 .. Len(Chain(c)) :
           Chain(c)[i] = IF i <= MapAt THEN Standard[i] ELSE u[i - MapAt]
  <2>1. Chain(c) = Standard \o u
    BY DEF Chain, u
  <2> QED BY <2>1, <1>2, <1>3, <1>4, ConcatProperties
<1>6. Len(u) \in Nat /\ \A i \in 1 .. Len(u) : u[i] \in UserInterceptors
  BY <1>1
<1>7. \A i \in 1 .. Len(Chain(c)) : i > MapAt => Chain(c)[i] \in UserInterceptors
  BY <1>4, <1>5, <1>6
<1>8. \A i \in 1 .. Len(Chain(c)) :
              Chain(c)[i] = IF i = 1 THEN "recovery" ELSE IF i = 2 THEN "requestid"
                            ELSE IF i = 3 THEN "logging"
                            ELSE IF i = MapAt THEN "mapping"
                            ELSE IF i < MapAt THEN "metrics"
                            ELSE u[i - MapAt]
  BY <1>3, <1>4, <1>5, <1>6
<1> QED BY <1>1, <1>4, <1>5, <1>6, <1>7, <1>8 DEF u

\* Every call has a stack that fits its chain; one that has not been delivered has
\* left no trace; the edge handler waits in the client while its call is under way.
FlowInv ==
    /\ cfg \in Configs
    /\ req \in [Calls -> Envelope]
    /\ stack \in [Calls -> Seq(Context)]
    /\ dir \in [Calls -> {"idle", "in", "out", "panic", "done"}]
    /\ err \in [Calls -> Error]
    /\ ctxDone \in [Calls -> BOOLEAN]
    /\ outcome \in [Calls -> Error \cup {Unfinished, Panicked}]
    /\ header \in [Calls -> RequestIds]
    /\ inFlight \in [Services -> Int]
    /\ counted \in [Calls -> Codes \cup {Absent}]
    /\ down \in [state : {"none", "sending", "waiting", "over"}, call : Calls, result : Error]
    /\ \A c \in Calls :
         /\ dir[c] \in {"idle", "done"} <=> stack[c] = <<>>
         /\ Depth(c) <= Len(Chain(c)) + 1
         /\ dir[c] \in {"out", "panic"} => Depth(c) <= Len(Chain(c))
         /\ dir[c] = "idle" => /\ c # Edge /\ outcome[c] = Unfinished
                               /\ \A line \in log : line.call # c
    /\ down.state \in {"sending", "waiting"} => down.call \in Attempts /\ InHandler(Edge)
    /\ down.state = "none" => down.call = Edge
    /\ \A c \in Attempts :
         c > down.call \/ (c = down.call /\ down.state = "sending") => dir[c] = "idle"

-------------------------------------------------------------------------------
(* What a step of a call does, whichever interceptor takes it *)

Presented(c) == MetadataValue(req[c].authorization)

\* What it tells of a call that an interceptor lets it pass on.
Admits(c, name, ctx) ==
    /\ name = "internal" /\ req[c].method \in InternalMethods =>
         cfg.configured /\ Presented(c) = "service"
    /\ name = "auth" /\ req[c].method \notin PublicMethods =>
         /\ cfg.configured
         /\ Presented(c) \in AccessTokens \/ (cfg.optional /\ Presented(c) \notin BearerTokens)
    /\ name = "role" => \E role \in RequiredRoles : HasRole(Top(c).claims, role)
    /\ ctx.claims \in {Top(c).claims, Presented(c)}

\* The log gains at most one line, about the call and in its context.
Notes(c, topics) ==
    \/ log' = log
    \/ \E line \in log' :
         /\ log' = log \cup {line}
         /\ line.call = c /\ line.what \in topics /\ line.id = Top(c).id

Metered(c) == cfg.registry /\ Depth(c) = 4

Enters(c) ==
    /\ dir[c] = "in" /\ Depth(c) \in 1 .. Len(Chain(c))
    /\ \E ctx \in Context :
         /\ Pass(c, ctx)
         /\ ctx.id = IF Depth(c) = 2 THEN RequestIdOf(c) ELSE Top(c).id
         /\ Admits(c, Chain(c)[Depth(c)], ctx)
    /\ header' = IF Depth(c) = 2 THEN [header EXCEPT ![c] = RequestIdOf(c)] ELSE header
    /\ inFlight' = IF Metered(c) THEN [inFlight EXCEPT ![ServiceOf(c)] = @ + 1] ELSE inFlight
    /\ log' = log \/ (Depth(c) > MapAt /\ Notes(c, {"limiter"}))
    /\ UNCHANGED <<cfg, req, ctxDone, outcome, counted, down>>

\* A call is turned away for its credentials only with a role that is not there or
\* without the token of a service.
Refuses(c) ==
    /\ dir[c] = "in" /\ Depth(c) \in MapAt + 1 .. Len(Chain(c))
    /\ \E code \in Codes \ {"OK", "Unknown"} :
         /\ Return(c, Status(code))
         /\ code \in {"Unauthenticated", "PermissionDenied"} =>
              Chain(c)[Depth(c)] = "role" \/ Presented(c) # "service"
    /\ Notes(c, {"auth", "internal", "limit"})
    /\ UNCHANGED <<cfg, req, ctxDone, outcome, header, inFlight, counted, down>>

Returns(c) ==
    /\ dir[c] = "out" /\ Depth(c) \in 1 .. Len(Chain(c))
    /\ Return(c, IF Depth(c) = MapAt THEN MapError(err[c]) ELSE err[c])
    /\ counted' = IF Metered(c) THEN [counted EXCEPT ![c] = StatusCode(err[c])] ELSE counted
    /\ inFlight' = IF Metered(c) THEN [inFlight EXCEPT ![ServiceOf(c)] = @ - 1] ELSE inFlight
    /\ log' = log \/ (Depth(c) = 3 /\ log' = log \cup {Line(c, "request", Top(c), err[c])})
    /\ UNCHANGED <<cfg, req, ctxDone, outcome, header, down>>

Unwinds(c) ==
    /\ dir[c] = "panic" /\ Depth(c) \in 2 .. Len(Chain(c))
    /\ Unwind(c)
    /\ inFlight' = IF Metered(c) THEN [inFlight EXCEPT ![ServiceOf(c)] = @ - 1] ELSE inFlight
    /\ UNCHANGED <<cfg, req, ctxDone, outcome, header, counted, log, down>>

Catches(c) ==
    /\ dir[c] = "panic" /\ Depth(c) = 1
    /\ Return(c, Status("Internal"))
    /\ Notes(c, {"panic"})
    /\ UNCHANGED <<cfg, req, ctxDone, outcome, header, inFlight, counted, down>>

\* Where an interceptor stands that is at work.
LEMMA Places ==
  ASSUME FlowInv, NEW c \in Calls, NEW name, NEW d, At(c, name, d)
  PROVE  /\ dir[c] = d /\ Depth(c) \in 1 .. Len(Chain(c)) /\ Chain(c)[Depth(c)] = name
         /\ name = "recovery" <=> Depth(c) = 1
         /\ name = "requestid" <=> Depth(c) = 2
         /\ name = "logging" <=> Depth(c) = 3
         /\ name = "metrics" <=> Metered(c)
         /\ name = "mapping" <=> Depth(c) = MapAt
         /\ name \in UserInterceptors <=> Depth(c) > MapAt
<1>1. cfg \in Configs
  BY DEF FlowInv
<1>2. dir[c] = d /\ Depth(c) \in 1 .. Len(Chain(c)) /\ Chain(c)[Depth(c)] = name
  BY DEF At
<1>3. MapAt = IF cfg.registry THEN 5 ELSE 4
  BY DEF MapAt
<1>4. "recovery" \notin UserInterceptors /\ "requestid" \notin UserInterceptors
      /\ "logging" \notin UserInterceptors /\ "metrics" \notin UserInterceptors
      /\ "mapping" \notin UserInterceptors
  BY DEF UserInterceptors
<1>5. /\ MapAt <= Len(Chain(c)) /\ Len(Chain(c)) \in Nat /\ cfg.registry \in BOOLEAN
      /\ \A i \in 1 .. Len(Chain(c)) :
           /\ i = 1 => Chain(c)[i] = "recovery"
           /\ i = 2 => Chain(c)[i] = "requestid"
           /\ i = 3 => Chain(c)[i] = "logging"
           /\ 3 < i /\ i < MapAt => Chain(c)[i] = "metrics"
           /\ i = MapAt => Chain(c)[i] = "mapping"
           /\ i > MapAt => Chain(c)[i] \in UserInterceptors
  <2>1. /\ \A i \in 1 .. Len(Chain(c)) :
             Chain(c)[i] = IF i = 1 THEN "recovery" ELSE IF i = 2 THEN "requestid"
                           ELSE IF i = 3 THEN "logging"
                           ELSE IF i = MapAt THEN "mapping"
                           ELSE IF i < MapAt THEN "metrics"
                           ELSE cfg.chain[ServiceOf(c)][i - MapAt]
        /\ \A i \in 1 .. Len(Chain(c)) : i > MapAt => Chain(c)[i] \in UserInterceptors
        /\ MapAt <= Len(Chain(c)) /\ Len(Chain(c)) \in Nat /\ MapAt \in {4, 5}
    BY <1>1, ChainShape
  <2>2. cfg.registry \in BOOLEAN
    BY <1>1, RpcAssumption
  <2> QED BY <2>1, <2>2
<1> QED BY <1>2, <1>3, <1>4, <1>5 DEF Metered

\* A stack that an interceptor passes on to, or that a function leaves.
LEMMA StackMoves ==
  ASSUME FlowInv, NEW c \in Calls
  PROVE  /\ Depth(c) \in Nat
         /\ \A i \in 1 .. Depth(c) : stack[c][i] \in Context
         /\ \A ctx \in Context :
              /\ Append(stack[c], ctx) \in Seq(Context)
              /\ Len(Append(stack[c], ctx)) = Depth(c) + 1
              /\ Append(stack[c], ctx) # <<>>
              /\ \A i \in 1 .. Depth(c) : Append(stack[c], ctx)[i] = stack[c][i]
              /\ Append(stack[c], ctx)[Depth(c) + 1] = ctx
         /\ Depth(c) > 0 =>
              /\ Popped(c) \in Seq(Context) /\ Len(Popped(c)) = Depth(c) - 1
              /\ Popped(c) = <<>> <=> Depth(c) = 1
              /\ \A i \in 1 .. Depth(c) - 1 : Popped(c)[i] = stack[c][i]
         /\ Depth(c) > 0 => Top(c) \in Context
<1> DEFINE st == stack[c]
<1>1. st \in Seq(Context)
  BY DEF FlowInv
<1>2. Depth(c) = Len(st) /\ Len(st) \in Nat /\ \A i \in 1 .. Len(st) : st[i] \in Context
  BY <1>1 DEF Depth
<1> HIDE DEF st
<1>3. ASSUME NEW ctx \in Context
      PROVE  /\ Append(st, ctx) \in Seq(Context)
             /\ Len(Append(st, ctx)) = Len(st) + 1
             /\ Append(st, ctx) # <<>>
             /\ \A i \in 1 .. Len(st) : Append(st, ctx)[i] = st[i]
             /\ Append(st, ctx)[Len(st) + 1] = ctx
  BY <1>1, <1>2, AppendProperties
<1>4. ASSUME Len(st) > 0
      PROVE  /\ SubSeq(st, 1, Len(st) - 1) \in Seq(Context)
             /\ Len(SubSeq(st, 1, Len(st) - 1)) = Len(st) - 1
             /\ SubSeq(st, 1, Len(st) - 1) = <<>> <=> Len(st) = 1
             /\ \A i \in 1 .. Len(st) - 1 : SubSeq(st, 1, Len(st) - 1)[i] = st[i]
  <2> DEFINE q == SubSeq(st, 1, Len(st) - 1)
  <2>1. /\ q \in Seq(Context) /\ Len(q) = Len(st) - 1
        /\ \A i \in 1 .. Len(st) - 1 : q[i] = st[i]
    BY <1>1, <1>2, <1>4
  <2>2. q = <<>> <=> Len(q) = 0
    <3> HIDE DEF q
    <3> QED BY <2>1, EmptySeq
  <2> QED BY <2>1, <2>2, <1>2
<1> QED BY <1>2, <1>3, <1>4 DEF st, Popped, Top

\* The facts about tokens and verdicts that the two checks of a token need.
LEMMA Bearers ==
  /\ \A values :
       IF MetadataValue(values) \in BearerTokens
       THEN BearerToken(values).raw = MetadataValue(values) /\ BearerToken(values).err = NoError
       ELSE BearerToken(values).err = Status("Unauthenticated")
  /\ \A code : Status(code) # NoError
  /\ AccessTokens \subseteq BearerTokens /\ "service" \in AccessTokens
  /\ \A x : Granted(x).err = NoError /\ Granted(x).claims = x
  /\ \A e : Denied(e).err = e
  /\ \A x \in AccessTokens : HasRole(x, RoleService) <=> x = "service"
<1>1. \A code : Status(code) # NoError
  BY DEF Status, NoError
<1>2. AccessTokens \subseteq BearerTokens /\ "service" \in AccessTokens
  BY DEF AccessTokens, BearerTokens
<1>3. /\ \A x : Granted(x).err = NoError /\ Granted(x).claims = x
      /\ \A e : Denied(e).err = e
  BY DEF Granted, Denied
<1>4. \A x \in AccessTokens : HasRole(x, RoleService) <=> x = "service"
  BY DEF AccessTokens, HasRole, Roles, RoleService
<1> QED BY <1>1, <1>2, <1>3, <1>4 DEF BearerToken

\* authenticate, by the header the call came with.
LEMMA AuthVerdict ==
  ASSUME NEW claims, NEW values, NEW configured \in BOOLEAN, NEW optional \in BOOLEAN
  PROVE  LET presented == MetadataValue(values)
             verdict == Authenticate(claims, values, configured, optional)
         IN  /\ verdict.err = NoError =>
                  /\ configured
                  /\ presented \in AccessTokens \/ (optional /\ presented \notin BearerTokens)
                  /\ \/ verdict.claims = claims
                     \/ verdict.claims = presented /\ presented \in AccessTokens
             /\ verdict.err # NoError =>
                  \E code \in {"Internal", "Unauthenticated"} :
                    verdict.err = Status(code) /\ (code # "Internal" => presented # "service")
<1> DEFINE presented == MetadataValue(values)
<1>1. Authenticate(claims, values, configured, optional) =
        IF ~ configured THEN Denied(Status("Internal"))
        ELSE IF presented \notin BearerTokens
             THEN IF optional THEN Granted(claims) ELSE Denied(Status("Unauthenticated"))
        ELSE IF presented \notin AccessTokens THEN Denied(Status("Unauthenticated"))
        ELSE Granted(presented)
  BY Bearers DEF Authenticate, ParseAccess
<1> HIDE DEF presented
<1> QED BY <1>1, Bearers DEF presented

\* InternalAuthUnaryInterceptor, by the header the call came with.
LEMMA InternalVerdict ==
  ASSUME NEW claims, NEW values, NEW configured \in BOOLEAN
  PROVE  LET presented == MetadataValue(values)
             verdict == InternalAuth(claims, values, configured)
         IN  /\ verdict.err = NoError =>
                  configured /\ presented = "service" /\ verdict.claims = presented
             /\ verdict.err # NoError =>
                  \E code \in {"Internal", "Unauthenticated", "PermissionDenied"} :
                    verdict.err = Status(code) /\ (code # "Internal" => presented # "service")
<1> DEFINE presented == MetadataValue(values)
<1>1. InternalAuth(claims, values, configured) =
        IF ~ configured THEN Denied(Status("Internal"))
        ELSE IF presented \notin AccessTokens THEN Denied(Status("Unauthenticated"))
        ELSE IF presented # "service" THEN Denied(Status("PermissionDenied"))
        ELSE Granted(presented)
  BY Bearers DEF InternalAuth, ParseAccess
<1> HIDE DEF presented
<1> QED BY <1>1, Bearers DEF presented

\* The auth and internal interceptors.
LEMMA FollowShape ==
  ASSUME FlowInv, NEW c \in Calls, NEW name \in {"auth", "internal"}, At(c, name, "in"),
         NEW verdict, Follow(c, verdict, name),
         verdict.err = NoError =>
           /\ Admits(c, name, [Top(c) EXCEPT !.claims = verdict.claims])
           /\ verdict.claims \in {Top(c).claims} \cup AccessTokens,
         verdict.err # NoError =>
           \E code \in {"Internal", "Unauthenticated", "PermissionDenied"} :
             verdict.err = Status(code) /\ (code # "Internal" => Presented(c) # "service")
  PROVE  Enters(c) \/ Refuses(c)
<1>1. name \in UserInterceptors
  BY DEF UserInterceptors
<1>2. /\ dir[c] = "in" /\ Depth(c) \in 1 .. Len(Chain(c)) /\ Chain(c)[Depth(c)] = name
      /\ Depth(c) > MapAt /\ MapAt \in {4, 5} /\ ~ Metered(c)
  BY <1>1, Places, ChainShape DEF FlowInv, Metered, UserInterceptors
<1>3. UNCHANGED <<cfg, req, ctxDone, outcome, header, inFlight, counted, down>>
  BY DEF Follow, told
<1>4. Top(c) \in Context
  BY <1>2, StackMoves
<1>5. CASE verdict.err = NoError
  <2> DEFINE ctx == [Top(c) EXCEPT !.claims = verdict.claims]
  <2>1. ctx \in Context /\ ctx.id = Top(c).id
    BY <1>4, <1>5 DEF Context
  <2>2. Pass(c, ctx) /\ log' = log /\ Admits(c, name, ctx)
    BY <1>5 DEF Follow
  <2> HIDE DEF ctx
  <2> QED BY <1>2, <1>3, <2>1, <2>2 DEF Enters
<1>6. CASE verdict.err # NoError
  <2>1. PICK code \in {"Internal", "Unauthenticated", "PermissionDenied"} :
          verdict.err = Status(code) /\ (code # "Internal" => Presented(c) # "service")
    BY <1>6
  <2>2. Return(c, Status(code))
    BY <1>6, <2>1 DEF Follow
  <2>3. Notes(c, {"auth", "internal", "limit"})
    <3> DEFINE line == Line(c, name, Top(c), [verdict.err EXCEPT !.text = "raw"])
    <3>1. log' = log \/ log' = log \cup {line}
      BY <1>6 DEF Follow
    <3>2. line.call = c /\ line.what = name /\ line.id = Top(c).id
      BY DEF Line
    <3> HIDE DEF line
    <3> QED BY <3>1, <3>2 DEF Notes
  <2>4. code \in Codes \ {"OK", "Unknown"}
    BY DEF Codes
  <2> QED BY <1>2, <1>3, <2>1, <2>2, <2>3, <2>4 DEF Refuses
<1> QED BY <1>5, <1>6

\* Whatever an interceptor does is one of five things.
LEMMA Shapes ==
  ASSUME FlowInv, NEW c \in Calls, Intercept(c)
  PROVE  Enters(c) \/ Refuses(c) \/ Returns(c) \/ Unwinds(c) \/ Catches(c)
<1>0. cfg \in Configs /\ MapAt \in {4, 5} /\ cfg.configured \in BOOLEAN /\ cfg.optional \in BOOLEAN
  BY RpcAssumption DEF FlowInv, MapAt
<1>1. ASSUME NEW name, At(c, name, "in"), name \in Interceptors, NEW ctx \in Context, Pass(c, ctx),
             name # "requestid" => ctx.id = Top(c).id,
             name = "requestid" => ctx.id = RequestIdOf(c),
             Admits(c, name, ctx),
             header' = IF name = "requestid" THEN [header EXCEPT ![c] = RequestIdOf(c)] ELSE header,
             inFlight' = IF name = "metrics" THEN [inFlight EXCEPT ![ServiceOf(c)] = @ + 1] ELSE inFlight,
             log' = log \/ (name \in UserInterceptors /\ Notes(c, {"limiter"})),
             UNCHANGED <<cfg, req, ctxDone, outcome, counted, down>>
      PROVE  Enters(c)
  BY <1>1, Places DEF Enters
<1>2. ASSUME NEW name \in {"role", "validation", "ratelimit"}, At(c, name, "in"),
             NEW code \in {"Internal", "InvalidArgument", "ResourceExhausted",
                           "Unauthenticated", "PermissionDenied"},
             Return(c, Status(code)),
             code \in {"Unauthenticated", "PermissionDenied"} => name = "role",
             Notes(c, {"auth", "internal", "limit"}),
             UNCHANGED <<cfg, req, ctxDone, outcome, header, inFlight, counted, down>>
      PROVE  Refuses(c)
  <2>1. name \in UserInterceptors /\ code \in Codes \ {"OK", "Unknown"}
    BY DEF UserInterceptors, Codes
  <2>2. Depth(c) \in MapAt + 1 .. Len(Chain(c)) /\ dir[c] = "in" /\ Chain(c)[Depth(c)] = name
    BY <1>0, <1>2, <2>1, Places
  <2> QED BY <1>2, <2>1, <2>2 DEF Refuses
<1>3. \A name \in (UserInterceptors \ {"auth", "internal", "role"})
                   \cup {"recovery", "logging", "mapping", "requestid", "metrics"} :
        \A ctx : ctx.claims = Top(c).claims => Admits(c, name, ctx)
  BY DEF Admits, UserInterceptors
<1>4. \A name, d : At(c, name, d) => Top(c) \in Context
  BY StackMoves, Places
<1>5. CASE PassThrough(c)
  <2>1. PICK name \in {"recovery", "logging", "mapping"} : At(c, name, "in")
    BY <1>5 DEF PassThrough
  <2>2. Top(c) \in Context /\ Admits(c, name, Top(c))
    BY <1>3, <1>4, <2>1
  <2> QED BY <1>1, <1>5, <2>1, <2>2 DEF PassThrough, told, Interceptors
<1>6. CASE RequestIDEnter(c)
  <2> DEFINE ctx == [Top(c) EXCEPT !.id = RequestIdOf(c)]
  <2>1. RequestIdOf(c) \in RequestIds
    BY DEF RequestIdOf, RequestIds, FlowInv, Envelope
  <2>2. ctx \in Context /\ ctx.id = RequestIdOf(c) /\ ctx.claims = Top(c).claims
    BY <1>4, <1>6, <2>1 DEF Context, RequestIDEnter
  <2>3. Admits(c, "requestid", ctx)
    BY <1>3, <2>2
  <2>4. Pass(c, ctx)
    BY <1>6 DEF RequestIDEnter
  <2> HIDE DEF ctx
  <2> QED BY <1>1, <1>6, <2>2, <2>3, <2>4 DEF RequestIDEnter, told, Interceptors
<1>7. CASE MetricsEnter(c)
  <2>1. Top(c) \in Context /\ Admits(c, "metrics", Top(c))
    BY <1>3, <1>4, <1>7 DEF MetricsEnter
  <2> QED BY <1>1, <1>7, <2>1 DEF MetricsEnter, Interceptors
<1>8. CASE AuthEnter(c)
  <2> DEFINE verdict == IF req[c].method \in PublicMethods THEN Granted(Top(c).claims)
                        ELSE Authenticate(Top(c).claims, req[c].authorization, cfg.configured, cfg.optional)
  <2>1. At(c, "auth", "in") /\ Follow(c, verdict, "auth")
    BY <1>8 DEF AuthEnter
  <2>2. Top(c) \in Context
    BY <1>4, <2>1
  <2>3. CASE req[c].method \in PublicMethods
    <3>1. verdict.err = NoError /\ verdict.claims = Top(c).claims
      BY <2>3 DEF Granted
    <3> HIDE DEF verdict
    <3>2. Admits(c, "auth", [Top(c) EXCEPT !.claims = verdict.claims])
      BY <2>2, <2>3, <3>1 DEF Admits, Context
    <3> QED BY <2>1, <3>1, <3>2, FollowShape
  <2>4. CASE req[c].method \notin PublicMethods
    <3>1. verdict = Authenticate(Top(c).claims, req[c].authorization, cfg.configured, cfg.optional)
      BY <2>4
    <3> HIDE DEF verdict
    <3>2. /\ verdict.err = NoError =>
               /\ cfg.configured
               /\ Presented(c) \in AccessTokens \/ (cfg.optional /\ Presented(c) \notin BearerTokens)
               /\ verdict.claims = Top(c).claims
                  \/ (verdict.claims = Presented(c) /\ Presented(c) \in AccessTokens)
          /\ verdict.err # NoError =>
               \E code \in {"Internal", "Unauthenticated"} :
                 verdict.err = Status(code) /\ (code # "Internal" => Presented(c) # "service")
      BY <1>0, <3>1, AuthVerdict DEF Presented
    <3>3. verdict.err = NoError => Admits(c, "auth", [Top(c) EXCEPT !.claims = verdict.claims])
      BY <2>2, <3>2 DEF Admits, Context
    <3> QED BY <2>1, <3>2, <3>3, FollowShape
  <2> QED BY <2>3, <2>4
<1>9. CASE InternalAuthEnter(c)
  <2> DEFINE verdict == IF req[c].method \notin InternalMethods THEN Granted(Top(c).claims)
                        ELSE InternalAuth(Top(c).claims, req[c].authorization, cfg.configured)
  <2>1. At(c, "internal", "in") /\ Follow(c, verdict, "internal")
    BY <1>9 DEF InternalAuthEnter
  <2>2. Top(c) \in Context
    BY <1>4, <2>1
  <2>3. CASE req[c].method \notin InternalMethods
    <3>1. verdict.err = NoError /\ verdict.claims = Top(c).claims
      BY <2>3 DEF Granted
    <3> HIDE DEF verdict
    <3>2. Admits(c, "internal", [Top(c) EXCEPT !.claims = verdict.claims])
      BY <2>2, <2>3, <3>1 DEF Admits, Context
    <3> QED BY <2>1, <3>1, <3>2, FollowShape
  <2>4. CASE req[c].method \in InternalMethods
    <3>1. verdict = InternalAuth(Top(c).claims, req[c].authorization, cfg.configured)
      BY <2>4
    <3> HIDE DEF verdict
    <3>2. /\ verdict.err = NoError =>
               /\ cfg.configured /\ Presented(c) = "service"
               /\ verdict.claims = Presented(c)
          /\ verdict.err # NoError =>
               \E code \in {"Internal", "Unauthenticated", "PermissionDenied"} :
                 verdict.err = Status(code) /\ (code # "Internal" => Presented(c) # "service")
      BY <1>0, <3>1, InternalVerdict DEF Presented
    <3>3. verdict.err = NoError => /\ Admits(c, "internal", [Top(c) EXCEPT !.claims = verdict.claims])
                                  /\ verdict.claims \in AccessTokens
      BY <2>2, <3>2 DEF Admits, Context, AccessTokens
    <3> QED BY <2>1, <3>2, <3>3, FollowShape
  <2> QED BY <2>3, <2>4
<1>10. CASE RequireRoleEnter(c)
  <2> DEFINE verdict == RequireRole(Top(c).claims, RequiredRoles)
  <2>1. At(c, "role", "in") /\ Top(c) \in Context
    BY <1>4, <1>10 DEF RequireRoleEnter
  <2>2. \A code : Status(code) # NoError
    BY DEF Status, NoError
  <2>3. \A role : ~ HasRole(Absent, role)
    BY DEF HasRole, Roles, Absent
  <2>4. \/ verdict.err = NoError /\ \E role \in RequiredRoles : HasRole(Top(c).claims, role)
        \/ verdict.err = Status("Unauthenticated") \/ verdict.err = Status("PermissionDenied")
    BY <2>3 DEF RequireRole, Granted, Denied
  <2> HIDE DEF verdict
  <2>5. CASE verdict.err = NoError
    <3>1. Admits(c, "role", Top(c))
      BY <2>2, <2>4, <2>5 DEF Admits
    <3> QED BY <1>1, <1>10, <2>1, <2>5, <3>1 DEF RequireRoleEnter, verdict, told, Interceptors,
               UserInterceptors
  <2>6. CASE verdict.err # NoError
    BY <1>2, <1>10, <2>1, <2>4, <2>6 DEF RequireRoleEnter, verdict, told, Notes
  <2> QED BY <2>5, <2>6
<1>11. CASE ValidationEnter(c)
  <2>1. At(c, "validation", "in") /\ Top(c) \in Context /\ Admits(c, "validation", Top(c))
    BY <1>3, <1>4, <1>11 DEF ValidationEnter, UserInterceptors
  <2>2. CASE Pass(c, Top(c))
    BY <1>1, <1>11, <2>1, <2>2 DEF ValidationEnter, told, Interceptors, UserInterceptors
  <2>3. CASE \E code \in {"InvalidArgument", "Internal"} : Return(c, Status(code))
    BY <1>2, <1>11, <2>1, <2>3 DEF ValidationEnter, told, Notes
  <2> QED BY <1>11, <2>2, <2>3 DEF ValidationEnter
<1>12. CASE RateLimitPass(c)
  <2>1. At(c, "ratelimit", "in") /\ Top(c) \in Context /\ Admits(c, "ratelimit", Top(c))
    BY <1>3, <1>4, <1>12 DEF RateLimitPass, UserInterceptors
  <2>2. Notes(c, {"limiter"})
    BY <1>12 DEF RateLimitPass, Notes, Line
  <2> QED BY <1>1, <1>12, <2>1, <2>2 DEF RateLimitPass, told, Interceptors, UserInterceptors
<1>13. CASE RateLimitRefuse(c)
  <2>1. Notes(c, {"auth", "internal", "limit"})
    BY <1>13 DEF RateLimitRefuse, Notes, Line
  <2> QED BY <1>2, <1>13, <2>1 DEF RateLimitRefuse, told
<1>14. CASE TimeoutEnter(c)
  <2> DEFINE ctx == [Top(c) EXCEPT !.deadline = TRUE]
  <2>1. At(c, "timeout", "in") /\ Pass(c, ctx)
    BY <1>14 DEF TimeoutEnter
  <2>2. ctx \in Context /\ ctx.id = Top(c).id /\ ctx.claims = Top(c).claims
    BY <1>4, <2>1 DEF Context
  <2> HIDE DEF ctx
  <2>3. Admits(c, "timeout", ctx)
    BY <1>3, <2>2 DEF UserInterceptors
  <2> QED BY <1>1, <1>14, <2>1, <2>2, <2>3 DEF TimeoutEnter, told, Interceptors, UserInterceptors
<1>15. CASE MetricsReturn(c)
  <2>1. Metered(c) /\ Depth(c) # MapAt /\ dir[c] = "out" /\ Depth(c) \in 1 .. Len(Chain(c))
    BY <1>0, <1>15, Places DEF MetricsReturn, Metered, MapAt
  <2> QED BY <1>15, <2>1 DEF MetricsReturn, Returns
<1>16. CASE LoggingReturn(c)
  <2>1. ~ Metered(c) /\ Depth(c) = 3 /\ Depth(c) # MapAt /\ dir[c] = "out" /\ Depth(c) \in 1 .. Len(Chain(c))
    BY <1>0, <1>16, Places DEF LoggingReturn, Metered
  <2> QED BY <1>16, <2>1 DEF LoggingReturn, Returns, told
<1>17. CASE ErrorMappingReturn(c)
  <2>1. ~ Metered(c) /\ Depth(c) = MapAt /\ dir[c] = "out" /\ Depth(c) \in 1 .. Len(Chain(c))
    BY <1>17, Places DEF ErrorMappingReturn, Metered, MapAt
  <2> QED BY <1>17, <2>1 DEF ErrorMappingReturn, Returns, told
<1>18. CASE ReturnThrough(c)
  <2>1. PICK name \in UserInterceptors \cup {"recovery", "requestid"} : At(c, name, "out")
    BY <1>18 DEF ReturnThrough
  <2>2. ~ Metered(c) /\ Depth(c) # MapAt /\ dir[c] = "out" /\ Depth(c) \in 1 .. Len(Chain(c))
    BY <1>0, <2>1, Places DEF Metered, UserInterceptors
  <2> QED BY <1>18, <2>2 DEF ReturnThrough, Returns, told
<1>19. CASE MetricsUnwind(c)
  <2>1. Metered(c) /\ dir[c] = "panic" /\ Depth(c) \in 2 .. Len(Chain(c))
    BY <1>19, Places DEF MetricsUnwind, Metered
  <2> QED BY <1>19, <2>1 DEF MetricsUnwind, Unwinds
<1>20. CASE UnwindThrough(c)
  <2>1. dir[c] = "panic" /\ Depth(c) \in 1 .. Len(Chain(c))
    <3>1. stack[c] # <<>> /\ stack[c] \in Seq(Context) /\ Depth(c) <= Len(Chain(c))
      BY <1>20 DEF UnwindThrough, FlowInv
    <3> QED BY <1>0, <1>20, <3>1, ChainShape DEF UnwindThrough, Depth
  <2>2. At(c, Chain(c)[Depth(c)], "panic")
    BY <2>1 DEF At
  <2>3. ~ Metered(c) /\ Depth(c) # 1
    BY <1>20, <2>1, <2>2, Places DEF UnwindThrough
  <2> QED BY <1>20, <2>1, <2>3 DEF UnwindThrough, Unwinds, told
<1>21. CASE RecoveryCatch(c)
  <2>1. dir[c] = "panic" /\ Depth(c) = 1
    BY <1>21, Places DEF RecoveryCatch
  <2>2. Notes(c, {"panic"})
    BY <1>21 DEF RecoveryCatch, Notes, Line
  <2> QED BY <1>21, <2>1, <2>2 DEF RecoveryCatch, Catches, told
<1> QED BY <1>5, <1>6, <1>7, <1>8, <1>9, <1>10, <1>11, <1>12, <1>13, <1>14, <1>15, <1>16,
           <1>17, <1>18, <1>19, <1>20, <1>21 DEF Intercept

-------------------------------------------------------------------------------
(* Stacks, chains and the client's call keep fitting each other *)

\* What the packages make of errors are errors.
LEMMA ErrorsAreErrors ==
  /\ NoError \in Error /\ Plain \in Error
  /\ ContextCanceled \in Error /\ ContextDeadlineExceeded \in Error
  /\ \A code \in Codes \ {"OK"} :
       Status(code) \in Error /\ [Status(code) EXCEPT !.text = "raw"] \in Error
  /\ \A e \in Error : /\ Wrapped(e) \in Error /\ StatusCode(e) \in Codes
                      /\ e # Unfinished /\ e # Panicked
  /\ Unfinished # Panicked
<1>1. \A code \in Codes \ {"OK"} :
        Status(code) \in Error /\ [Status(code) EXCEPT !.text = "raw"] \in Error
  BY DEF Status, Error
<1>2. \A e \in Error : e.class \in {"none", "status", "app", "canceled", "deadline", "plain"}
  BY DEF Error
<1>3. \A e \in Error : e # Unfinished /\ e # Panicked
  BY <1>2 DEF Unfinished, Panicked
<1>4. Unfinished # Panicked
  BY DEF Unfinished, Panicked
<1>5. ASSUME NEW e \in Error PROVE Wrapped(e) \in Error
  <2>1. CASE e.class = "none"
    BY <2>1 DEF Wrapped
  <2>2. CASE e.class # "none"
    BY <2>2 DEF Wrapped, Error
  <2> QED BY <2>1, <2>2
<1>6. \A e \in Error : StatusCode(e) \in Codes
  BY DEF Error, StatusCode, Codes
<1>7. /\ NoError \in Error /\ Plain \in Error
      /\ ContextCanceled \in Error /\ ContextDeadlineExceeded \in Error
  BY DEF NoError, Plain, ContextCanceled, ContextDeadlineExceeded, Error
<1> QED BY <1>1, <1>3, <1>4, <1>5, <1>6, <1>7

\* MapError lets a status through and gives nothing else away than its code; it
\* answers Unknown only when a handler did.
LEMMA Mapping ==
  /\ \A e \in Error :
       /\ MapError(e) \in Error
       /\ MapError(e).class \in {"none", "status"}
       /\ MapError(e).code = "Unknown" => MapError(e) = e
       /\ MapError(e).text = "raw" => e.class = "status"
       /\ StatusCode(MapError(e)) = MapError(e).code
       /\ MapError(MapError(e)) = MapError(e)
  /\ \A code : MapError(Status(code)) = Status(code)
<1>1. \A code : MapError(Status(code)) = Status(code)
  BY DEF MapError, Status
<1>2. \A kind \in Kinds : CodeOf(kind) \in Codes \ {"OK", "Unknown"}
  BY DEF Kinds, CodeOf, Codes
<1>3. ASSUME NEW e \in Error
      PROVE  /\ MapError(e) \in Error
             /\ MapError(e).class \in {"none", "status"}
             /\ MapError(e).code = "Unknown" => MapError(e) = e
             /\ MapError(e).text = "raw" => e.class = "status"
             /\ MapError(MapError(e)) = MapError(e)
  <2>1. CASE e.class \in {"none", "status"}
    <3>1. MapError(e) = e
      BY <2>1 DEF MapError
    <3>2. e.class = "none" => e.text = "public"
      BY DEF Error
    <3> QED BY <2>1, <3>1, <3>2
  <2>2. ASSUME NEW code \in Codes \ {"OK", "Unknown"}, MapError(e) = Status(code)
        PROVE  /\ MapError(e) \in Error
               /\ MapError(e).class \in {"none", "status"}
               /\ MapError(e).code = "Unknown" => MapError(e) = e
               /\ MapError(e).text = "raw" => e.class = "status"
               /\ MapError(MapError(e)) = MapError(e)
    <3>1. Status(code) \in Error
      BY ErrorsAreErrors
    <3>2. Status(code).class = "status" /\ Status(code).text = "public" /\ Status(code).code = code
      BY DEF Status
    <3> QED BY <2>2, <3>1, <3>2, <1>1
  <2>3. CASE e.class = "app"
    <3>1. e.code \in Kinds
      BY <2>3 DEF Error
    <3>2. MapError(e) = Status(CodeOf(e.code))
      BY <2>3 DEF MapError
    <3> QED BY <1>2, <2>2, <3>1, <3>2
  <2>4. CASE e.class \in {"canceled", "deadline", "plain"}
    <3>1. MapError(e) \in {Status("Canceled"), Status("DeadlineExceeded"), Status("Internal")}
      BY <2>4 DEF MapError
    <3> QED BY <2>2, <3>1 DEF Codes
  <2> QED BY <2>1, <2>3, <2>4 DEF Error
<1>4. \A e : e.class \in {"none", "status"} => StatusCode(e) = e.code
  BY DEF StatusCode
<1> QED BY <1>1, <1>3, <1>4

\* The chain and the depth of a call, after a step that leaves the configuration.
LEMMA Unmoved ==
  ASSUME cfg' = cfg
  PROVE  /\ MapAt' = MapAt
         /\ \A c \in Calls : Chain(c)' = Chain(c)
         /\ \A c \in Calls : Depth(c)' = Len(stack'[c])
  BY DEF MapAt, Chain, Standard, Depth

\* A step of the function at the top of call c, which is not blocked in the client:
\* the stack becomes q, and control flows in direction d.
Moves(c, q, d) ==
    /\ dir[c] \in {"in", "out", "panic"}
    /\ c = Edge => down.state \notin {"sending", "waiting"}
    /\ q \in Seq(Context) /\ stack' = [stack EXCEPT ![c] = q]
    /\ d \in {"in", "out", "panic", "done"} /\ dir' = [dir EXCEPT ![c] = d]
    /\ d = "done" <=> q = <<>>
    /\ Len(q) <= Len(Chain(c)) + 1
    /\ d \in {"out", "panic"} => Len(q) <= Len(Chain(c))
    /\ err' \in [Calls -> Error]
    /\ outcome' \in [Calls -> Error \cup {Unfinished, Panicked}]
    /\ \A k \in Calls \ {c} : outcome'[k] = outcome[k]
    /\ header' \in [Calls -> RequestIds]
    /\ inFlight' \in [Services -> Int]
    /\ counted' \in [Calls -> Codes \cup {Absent}]
    /\ \A line \in log' : line \in log \/ line.call = c
    /\ UNCHANGED <<cfg, req, ctxDone, down>>

\* Such a step leaves everything fitting.
LEMMA CallMoves ==
  ASSUME FlowInv, NEW c \in Calls, NEW q, NEW d, Moves(c, q, d)
  PROVE  FlowInv'
<1> USE DEF Moves
<1>1. /\ \A k \in Calls : Chain(k)' = Chain(k)
      /\ \A k \in Calls : Depth(k)' = Len(stack'[k])
      /\ Len(Chain(c)) \in Nat
  BY Unmoved, ChainShape DEF FlowInv
<1>2. /\ stack' \in [Calls -> Seq(Context)] /\ stack'[c] = q
      /\ dir' \in [Calls -> {"idle", "in", "out", "panic", "done"}] /\ dir'[c] = d
      /\ \A k \in Calls \ {c} : stack'[k] = stack[k] /\ dir'[k] = dir[k]
  BY DEF FlowInv
<1>3. Edge \in Calls /\ Attempts \subseteq Calls /\ Edge \notin Attempts
  BY DEF Calls, Edge, Attempts
<1>4. ASSUME NEW k \in Calls
      PROVE  /\ dir'[k] \in {"idle", "done"} <=> stack'[k] = <<>>
             /\ Len(stack'[k]) <= Len(Chain(k)) + 1
             /\ dir'[k] \in {"out", "panic"} => Len(stack'[k]) <= Len(Chain(k))
             /\ dir'[k] = "idle" => /\ k # Edge /\ outcome'[k] = Unfinished
                                    /\ \A line \in log' : line.call # k
  <2>1. CASE k = c
    BY <1>1, <1>2, <2>1
  <2>2. CASE k # c
    BY <1>2, <2>2 DEF FlowInv, Depth
  <2> QED BY <2>1, <2>2
<1>5. down.state \in {"sending", "waiting"} => InHandler(Edge)'
  <2> SUFFICES ASSUME down.state \in {"sending", "waiting"} PROVE InHandler(Edge)'
    OBVIOUS
  <2>1. InHandler(Edge) /\ Edge # c
    BY DEF FlowInv
  <2>2. stack'[Edge] = stack[Edge] /\ dir'[Edge] = dir[Edge] /\ Chain(Edge)' = Chain(Edge)
    BY <1>1, <1>2, <1>3, <2>1
  <2>3. Depth(Edge)' = Depth(Edge)
    BY <2>2 DEF Depth
  <2> QED BY <2>1, <2>2, <2>3 DEF InHandler
<1>6. \A k \in Attempts :
        k > down.call \/ (k = down.call /\ down.state = "sending") => dir'[k] = "idle"
  BY <1>2, <1>3 DEF FlowInv
<1> QED BY <1>1, <1>2, <1>4, <1>5, <1>6 DEF FlowInv

\* The steps of the interceptors.
LEMMA InterceptFlow ==
  ASSUME FlowInv, NEW c \in Calls, Intercept(c)
  PROVE  FlowInv'
<1>0. /\ cfg \in Configs /\ Depth(c) \in Nat /\ Len(Chain(c)) \in Nat /\ MapAt \in {4, 5}
      /\ MapAt <= Len(Chain(c)) /\ ServiceOf(c) \in Services /\ Edge \in Calls
      /\ err \in [Calls -> Error] /\ counted \in [Calls -> Codes \cup {Absent}]
      /\ outcome \in [Calls -> Error \cup {Unfinished, Panicked}]
      /\ header \in [Calls -> RequestIds] /\ inFlight \in [Services -> Int]
  BY StackMoves, ChainShape DEF FlowInv, ServiceOf, Services, Calls
<1>1. ASSUME NEW m \in {-1, 0, 1},
             inFlight' = [inFlight EXCEPT ![ServiceOf(c)] = @ + m] \/ inFlight' = inFlight
      PROVE  inFlight' \in [Services -> Int]
  BY <1>0, <1>1
<1>3. ~ InHandler(c) => (c = Edge => down.state \notin {"sending", "waiting"})
  BY DEF FlowInv
<1>4. Depth(c) \in 1 .. Len(Chain(c)) => ~ InHandler(c)
  BY <1>0 DEF InHandler
<1>5. \A topics : Notes(c, topics) => \A line \in log' : line \in log \/ line.call = c
  BY DEF Notes
<1>7. CASE Enters(c)
  <2>1. PICK ctx \in Context : Pass(c, ctx)
    BY <1>7 DEF Enters
  <2>2. /\ Append(stack[c], ctx) \in Seq(Context) /\ Append(stack[c], ctx) # <<>>
        /\ Len(Append(stack[c], ctx)) = Depth(c) + 1
    BY StackMoves
  <2>3. /\ stack' = [stack EXCEPT ![c] = Append(stack[c], ctx)] /\ err' = err
        /\ dir[c] = "in" /\ Depth(c) \in 1 .. Len(Chain(c)) /\ dir' = dir
    BY <1>7, <2>1 DEF Pass, Enters
  <2>8. dir' = [dir EXCEPT ![c] = "in"]
    <3>1. dir \in [Calls -> {"idle", "in", "out", "panic", "done"}]
      BY DEF FlowInv
    <3> QED BY <2>3, <3>1
  <2>4. header' \in [Calls -> RequestIds]
    <3>1. RequestIdOf(c) \in RequestIds
      BY DEF RequestIdOf, RequestIds, FlowInv, Envelope
    <3> QED BY <1>0, <1>7, <3>1 DEF Enters
  <2>5. /\ inFlight' \in [Services -> Int] /\ UNCHANGED <<cfg, req, ctxDone, down, outcome, counted>>
        /\ \A line \in log' : line \in log \/ line.call = c
    BY <1>1, <1>5, <1>7 DEF Enters
  <2>6. c = Edge => down.state \notin {"sending", "waiting"}
    BY <1>3, <1>4, <2>3
  <2> DEFINE q == Append(stack[c], ctx)
  <2>7. q \in Seq(Context) /\ q # <<>> /\ Len(q) = Depth(c) + 1 /\ stack' = [stack EXCEPT ![c] = q]
    BY <2>2, <2>3
  <2> HIDE DEF q
  <2>9. Len(q) <= Len(Chain(c)) + 1
    BY <1>0, <2>3, <2>7
  <2>10. Moves(c, q, "in")
    <3>1. UNCHANGED <<cfg, req, ctxDone, down>>
      BY <2>5
    <3>2. /\ err' \in [Calls -> Error] /\ counted' \in [Calls -> Codes \cup {Absent}]
          /\ outcome' \in [Calls -> Error \cup {Unfinished, Panicked}] /\ outcome' = outcome
      BY <1>0, <2>3, <2>5
    <3> QED BY <2>3, <2>4, <2>5, <2>6, <2>7, <2>8, <2>9, <3>1, <3>2 DEF Moves
  <2> QED BY <2>10, CallMoves
<1>8. ASSUME NEW e \in Error, Return(c, e), Depth(c) \in 1 .. Len(Chain(c)),
             dir[c] \in {"in", "out", "panic"},
             UNCHANGED <<cfg, req, ctxDone, down, outcome, header>>,
             inFlight' \in [Services -> Int],
             counted' \in [Calls -> Codes \cup {Absent}],
             \A line \in log' : line \in log \/ line.call = c
      PROVE  FlowInv'
  <2> DEFINE d == IF Depth(c) = 1 THEN "done" ELSE "out"
             q == Popped(c)
  <2>1. /\ q \in Seq(Context) /\ Len(q) = Depth(c) - 1
        /\ q = <<>> <=> Depth(c) = 1
    BY <1>8, StackMoves
  <2>2. /\ stack' = [stack EXCEPT ![c] = q] /\ dir' = [dir EXCEPT ![c] = d]
        /\ err' \in [Calls -> Error]
    BY <1>0, <1>8 DEF Return
  <2>3. d \in {"in", "out", "panic", "done"} /\ (d = "done" <=> Depth(c) = 1)
    OBVIOUS
  <2>4. c = Edge => down.state \notin {"sending", "waiting"}
    BY <1>3, <1>4, <1>8
  <2> HIDE DEF d, q
  <2>5. Moves(c, q, d)
    BY <1>0, <1>8, <2>1, <2>2, <2>3, <2>4 DEF Moves
  <2> QED BY <2>5, CallMoves
<1>9. CASE Refuses(c)
  <2>1. PICK code \in Codes \ {"OK", "Unknown"} : Return(c, Status(code))
    BY <1>9 DEF Refuses
  <2>2. Status(code) \in Error
    BY ErrorsAreErrors
  <2> QED BY <1>0, <1>5, <1>8, <1>9, <2>1, <2>2 DEF Refuses
<1>10. CASE Returns(c)
  <2>1. (IF Depth(c) = MapAt THEN MapError(err[c]) ELSE err[c]) \in Error
    BY <1>0, Mapping
  <2>2. counted' \in [Calls -> Codes \cup {Absent}]
    BY <1>0, <1>10, ErrorsAreErrors DEF Returns
  <2>3. inFlight' \in [Services -> Int]
    BY <1>0, <1>10 DEF Returns
  <2>4. \A line \in log' : line \in log \/ line.call = c
    BY <1>10 DEF Returns, Line
  <2> QED BY <1>8, <1>10, <2>1, <2>2, <2>3, <2>4 DEF Returns
<1>11. CASE Unwinds(c)
  <2>1. /\ Popped(c) \in Seq(Context) /\ Len(Popped(c)) = Depth(c) - 1
        /\ Popped(c) # <<>>
    BY <1>11, StackMoves DEF Unwinds
  <2>2. inFlight' \in [Services -> Int]
    BY <1>0, <1>11 DEF Unwinds
  <2>3. /\ stack' = [stack EXCEPT ![c] = Popped(c)] /\ dir' = [dir EXCEPT ![c] = "panic"]
        /\ UNCHANGED <<cfg, req, ctxDone, down, err, outcome, header, counted, log>>
        /\ dir[c] = "panic" /\ Depth(c) \in 1 .. Len(Chain(c))
    BY <1>11 DEF Unwinds, Unwind
  <2> DEFINE q == Popped(c)
  <2>4. q \in Seq(Context) /\ Len(q) = Depth(c) - 1 /\ q # <<>> /\ stack' = [stack EXCEPT ![c] = q]
    BY <2>1, <2>3
  <2> HIDE DEF q
  <2>5. Moves(c, q, "panic")
    <3>1. Len(q) <= Len(Chain(c)) /\ Len(q) <= Len(Chain(c)) + 1
      BY <1>0, <2>3, <2>4
    <3>2. UNCHANGED <<cfg, req, ctxDone, down>> /\ UNCHANGED log
      BY <2>3
    <3>3. /\ err' \in [Calls -> Error] /\ counted' \in [Calls -> Codes \cup {Absent}]
          /\ outcome' \in [Calls -> Error \cup {Unfinished, Panicked}] /\ outcome' = outcome
          /\ header' \in [Calls -> RequestIds]
      BY <1>0, <2>3
    <3>4. c = Edge => down.state \notin {"sending", "waiting"}
      BY <1>3, <1>4, <2>3
    <3> QED BY <2>2, <2>3, <2>4, <3>1, <3>2, <3>3, <3>4 DEF Moves
  <2> QED BY <2>5, CallMoves
<1>12. CASE Catches(c)
  <2>1. Status("Internal") \in Error /\ Depth(c) \in 1 .. Len(Chain(c))
    <3>1. "Internal" \in Codes \ {"OK"}
      BY DEF Codes
    <3>2. Status("Internal") \in Error
      BY <3>1, ErrorsAreErrors
    <3> QED BY <1>0, <1>12, <3>2 DEF Catches
  <2> QED BY <1>0, <1>5, <1>8, <1>12, <2>1 DEF Catches
<1> QED BY <1>7, <1>9, <1>10, <1>11, <1>12, Shapes

\* The steps of the handlers.
LEMMA HandlerFlow ==
  ASSUME FlowInv, NEW c \in Calls, Handle(c)
  PROVE  /\ FlowInv'
         /\ HandlerReturn(c) => outcome'[c] \in Error
<1>0. /\ cfg \in Configs /\ Len(Chain(c)) \in Nat /\ MapAt \in {4, 5} /\ MapAt <= Len(Chain(c))
      /\ err \in [Calls -> Error] /\ counted \in [Calls -> Codes \cup {Absent}]
      /\ outcome \in [Calls -> Error \cup {Unfinished, Panicked}]
      /\ header \in [Calls -> RequestIds] /\ inFlight \in [Services -> Int]
  BY ChainShape DEF FlowInv
<1>1. /\ dir[c] = "in" /\ Depth(c) = Len(Chain(c)) + 1
      /\ c = Edge => down.state \notin {"sending", "waiting"}
  BY DEF Handle, HandlerReturn, HandlerPanic, Free, InHandler
<1> DEFINE q == Popped(c)
<1>2. q \in Seq(Context) /\ Len(q) = Len(Chain(c)) /\ q # <<>>
  BY <1>0, <1>1, StackMoves
<1>3. ASSUME NEW d \in {"out", "panic"}, stack' = [stack EXCEPT ![c] = q],
             dir' = [dir EXCEPT ![c] = d], err' \in [Calls -> Error],
             NEW o \in Error \cup {Panicked}, outcome' = [outcome EXCEPT ![c] = o],
             UNCHANGED <<cfg, req, ctxDone, down>>, UNCHANGED <<header, inFlight, counted, log>>
      PROVE  FlowInv'
  <2> HIDE DEF q
  <2>1. Len(q) <= Len(Chain(c)) /\ Len(q) <= Len(Chain(c)) + 1
    BY <1>0, <1>2
  <2>2. /\ outcome' \in [Calls -> Error \cup {Unfinished, Panicked}]
        /\ \A k \in Calls \ {c} : outcome'[k] = outcome[k]
    BY <1>0, <1>3
  <2>3. /\ header' \in [Calls -> RequestIds] /\ inFlight' \in [Services -> Int]
        /\ counted' \in [Calls -> Codes \cup {Absent}] /\ log' = log
    BY <1>0, <1>3
  <2>4. Moves(c, q, d)
    BY <1>1, <1>2, <1>3, <2>1, <2>2, <2>3 DEF Moves
  <2> QED BY <2>4, CallMoves
<1>4. CASE HandlerReturn(c)
  <2>1. PICK e \in HandlerErrors(c) : Return(c, e) /\ outcome' = [outcome EXCEPT ![c] = e]
    BY <1>4 DEF HandlerReturn
  <2>2. e \in Error
    <3>1. down.result \in Error
      BY DEF FlowInv
    <3>2. EdgeFailures \cup InnerFailures \subseteq Error
      BY RpcAssumption
    <3>3. \/ e \in {NoError, ContextCanceled, ContextDeadlineExceeded}
          \/ e \in EdgeFailures \cup InnerFailures
          \/ e \in {down.result, Wrapped(down.result)}
      BY <2>1 DEF HandlerErrors
    <3> QED BY <3>1, <3>2, <3>3, ErrorsAreErrors
  <2>3. /\ stack' = [stack EXCEPT ![c] = q] /\ dir' = [dir EXCEPT ![c] = "out"]
        /\ err' \in [Calls -> Error]
    <3>1. Depth(c) # 1
      BY <1>0, <1>1
    <3>2. err' \in [Calls -> Error]
      BY <1>0, <2>1, <2>2 DEF Return
    <3> QED BY <2>1, <3>1, <3>2 DEF Return
  <2>4. outcome'[c] \in Error
    BY <1>0, <2>1, <2>2
  <2>5. UNCHANGED <<cfg, req, ctxDone, down>> /\ UNCHANGED <<header, inFlight, counted, log>>
    BY <1>4 DEF HandlerReturn, told
  <2> QED BY <1>3, <2>1, <2>2, <2>3, <2>4, <2>5
<1>5. CASE HandlerPanic(c)
  <2>1. /\ stack' = [stack EXCEPT ![c] = q] /\ dir' = [dir EXCEPT ![c] = "panic"]
        /\ err' \in [Calls -> Error] /\ outcome' = [outcome EXCEPT ![c] = Panicked]
        /\ UNCHANGED <<cfg, req, ctxDone, down>> /\ UNCHANGED <<header, inFlight, counted, log>>
    BY <1>0, <1>5 DEF HandlerPanic, Unwind, told
  <2>2. ~ HandlerReturn(c)
    <3>1. dir'[c] = "panic"
      BY <2>1 DEF FlowInv
    <3>2. HandlerReturn(c) => dir'[c] = "out"
      BY <1>0, <1>1 DEF HandlerReturn, Return, FlowInv
    <3> QED BY <3>1, <3>2
  <2> QED BY <1>3, <2>1, <2>2
<1> QED BY <1>4, <1>5 DEF Handle

\* The steps of the client and of time, but for the delivery of an attempt.
ClientMoves ==
    /\ UNCHANGED <<cfg, stack, dir, err, outcome, header, inFlight, counted>>
    /\ req' \in [Calls -> Envelope] /\ req'[Edge] = req[Edge]
    /\ \A c \in Calls : dir[c] # "idle" => req'[c] = req[c]
    /\ ctxDone' \in [Calls -> BOOLEAN]
    /\ down' \in [state : {"none", "sending", "waiting", "over"}, call : Calls, result : Error]
    /\ \A line \in log' : \/ line \in log
                          \/ /\ InHandler(Edge)
                             /\ line.call = Edge /\ line.what = "call" /\ line.id = Top(Edge).id
    /\ down'.state \in {"sending", "waiting"} => down'.call \in Attempts /\ InHandler(Edge)
    /\ down'.state = "none" => down'.call = Edge
    /\ down'.state = "waiting" =>
         down.state = "waiting" /\ down'.call = down.call /\ req' = req
    /\ \A c \in Attempts :
         c > down'.call \/ (c = down'.call /\ down'.state = "sending") => dir[c] = "idle"
    /\ \A c \in Attempts :
         c = down'.call /\ down'.state = "sending" =>
           \/ c = down.call /\ down.state = "sending" /\ req'[c] = req[c]
           \/ InHandler(Edge) /\ req'[c].id = OutgoingId(Top(Edge))
                              /\ req'[c].authorization = OutgoingAuthorization
           \/ /\ down.call \in Attempts /\ down.state \in {"sending", "waiting"}
              /\ req'[c] = req[down.call]

\* They leave everything fitting.
LEMMA ClientFlow == FlowInv /\ ClientMoves => FlowInv'
<1> SUFFICES ASSUME FlowInv, ClientMoves PROVE FlowInv'
  OBVIOUS
<1>1. /\ cfg' = cfg /\ stack' = stack /\ dir' = dir /\ outcome' = outcome
      /\ \A c \in Calls : Chain(c)' = Chain(c) /\ Depth(c)' = Depth(c)
  BY Unmoved DEF ClientMoves, Depth
<1>2. Edge \in Calls
  BY DEF Calls
<1>3. InHandler(Edge)' <=> InHandler(Edge)
  BY <1>1, <1>2 DEF InHandler
<1>4. \A c \in Calls : dir[c] = "idle" => \A line \in log' : line.call # c
  BY DEF ClientMoves, FlowInv
<1>5. /\ req' \in [Calls -> Envelope] /\ stack' \in [Calls -> Seq(Context)]
      /\ dir' \in [Calls -> {"idle", "in", "out", "panic", "done"}] /\ err' \in [Calls -> Error]
      /\ ctxDone' \in [Calls -> BOOLEAN]
      /\ outcome' \in [Calls -> Error \cup {Unfinished, Panicked}]
      /\ header' \in [Calls -> RequestIds] /\ inFlight' \in [Services -> Int]
      /\ counted' \in [Calls -> Codes \cup {Absent}]
      /\ down' \in [state : {"none", "sending", "waiting", "over"}, call : Calls, result : Error]
  BY DEF FlowInv, ClientMoves
<1>6. \A c \in Calls :
         /\ dir'[c] \in {"idle", "done"} <=> stack'[c] = <<>>
         /\ Depth(c)' <= Len(Chain(c)') + 1
         /\ dir'[c] \in {"out", "panic"} => Depth(c)' <= Len(Chain(c)')
         /\ dir'[c] = "idle" => /\ c # Edge /\ outcome'[c] = Unfinished
                                /\ \A line \in log' : line.call # c
  BY <1>1, <1>4 DEF FlowInv
<1>7. /\ down'.state \in {"sending", "waiting"} => down'.call \in Attempts /\ InHandler(Edge)'
      /\ down'.state = "none" => down'.call = Edge
      /\ \A c \in Attempts :
           c > down'.call \/ (c = down'.call /\ down'.state = "sending") => dir'[c] = "idle"
  BY <1>1, <1>3 DEF ClientMoves
<1> QED BY <1>1, <1>5, <1>6, <1>7 DEF FlowInv

\* The credentials and the id of the inner call are what its server can read.
LEMMA OutgoingType ==
  ASSUME FlowInv, InHandler(Edge), NEW method \in InnerMethods
  PROVE  /\ [method |-> method, authorization |-> OutgoingAuthorization,
             id |-> OutgoingId(Top(Edge)), deadline |-> CallDeadline(Top(Edge))] \in Envelope
<1>1. Edge \in Calls /\ cfg \in Configs /\ Len(Chain(Edge)) \in Nat
  BY ChainShape DEF FlowInv, Calls
<1>2. Top(Edge) \in Context
  BY <1>1, StackMoves DEF InHandler
<1>3. OutgoingId(Top(Edge)) \in RequestIds
  BY <1>2 DEF OutgoingId, Context
<1>4. CallDeadline(Top(Edge)) \in BOOLEAN
  BY <1>2 DEF CallDeadline, Context
<1>5. \A values : IncomingBearer(values) \in BearerTokens \cup {Absent}
  BY DEF IncomingBearer, BearerToken
<1>6. BearerTokens \subseteq Headers /\ Absent \notin Headers /\ ChosenToken \in BearerTokens
      /\ "service" \in BearerTokens
  BY DEF BearerTokens, Headers, AccessTokens, ChosenToken, Absent
<1>7. <<>> \in Seq(Headers) /\ <<ChosenToken>> \in Seq(Headers) /\ <<"service">> \in Seq(Headers)
      /\ \A values \in Seq(Headers) : \A h \in Headers : Append(values, h) \in Seq(Headers)
  BY <1>6
<1>8. \A outgoing \in Seq(Headers), explicit \in {ChosenToken, Absent} : \A incoming :
        WithForwardedToken(outgoing, explicit, incoming) \in Seq(Headers)
  BY <1>5, <1>6, <1>7 DEF WithForwardedToken
<1>9. OutgoingAuthorization \in Seq(Headers)
  BY <1>6, <1>7, <1>8 DEF OutgoingAuthorization, ServiceToken, StaticToken
<1>10. method \in Methods
  BY DEF Methods
<1> QED BY <1>3, <1>4, <1>9, <1>10 DEF Envelope

\* Every step of the client is of the form above.
LEMMA ClientShapes ==
  ASSUME FlowInv,
         Invoke \/ InvokeWithoutToken \/ Answered \/ ConnectionLost \/ Abandon
         \/ \E c \in Calls : ContextEnds(c)
  PROVE  ClientMoves
<1>0. /\ Edge = 1 /\ Edge \in Calls /\ Attempts \subseteq Calls /\ Edge \notin Attempts
      /\ 2 \in Attempts /\ 2 \in Calls /\ Attempts \subseteq Nat /\ \A c \in Attempts : c >= 2
      /\ Calls \subseteq Nat
  BY RpcAssumption DEF Edge, Calls, Attempts
<1>1. /\ req \in [Calls -> Envelope] /\ ctxDone \in [Calls -> BOOLEAN] /\ err \in [Calls -> Error]
      /\ down \in [state : {"none", "sending", "waiting", "over"}, call : Calls, result : Error]
      /\ dir[Edge] # "idle"
  BY <1>0 DEF FlowInv
<1>2. /\ down.state \in {"sending", "waiting"} => down.call \in Attempts /\ InHandler(Edge)
      /\ down.state = "none" => down.call = Edge
      /\ \A c \in Attempts :
           c > down.call \/ (c = down.call /\ down.state = "sending") => dir[c] = "idle"
  BY DEF FlowInv
<1>3. ASSUME NEW result \in Error, CallOver(result), InHandler(Edge), req' = req,
             UNCHANGED <<cfg, stack, dir, err, outcome, header, inFlight, counted>>,
             ctxDone' \in [Calls -> BOOLEAN]
      PROVE  ClientMoves
  <2>1. down'.state = "over" /\ down'.call = down.call
        /\ down' \in [state : {"none", "sending", "waiting", "over"}, call : Calls, result : Error]
    BY <1>1, <1>3 DEF CallOver
  <2>2. \A line \in log' : line \in log \/ (line.call = Edge /\ line.what = "call" /\ line.id = Top(Edge).id)
    BY <1>3 DEF CallOver, LogCall, Line
  <2>3. \A c \in Attempts : c > down'.call => dir[c] = "idle"
    BY <1>2, <2>1
  <2> QED BY <1>1, <1>3, <2>1, <2>2, <2>3 DEF ClientMoves
<1>4. ASSUME NEW result \in Error, AttemptOver(result), down.state \in {"sending", "waiting"},
             UNCHANGED <<cfg, stack, dir, err, outcome, header, inFlight, counted>>,
             ctxDone' \in [Calls -> BOOLEAN]
      PROVE  ClientMoves
  <2>1. CASE CallOver(result) /\ UNCHANGED req
    BY <1>2, <1>3, <1>4, <2>1
  <2>2. CASE ~ (CallOver(result) /\ UNCHANGED req)
    <3> DEFINE k == down.call + 1
    <3>1. /\ k \in Attempts /\ log' = log
          /\ down' = [down EXCEPT !.state = "sending", !.call = k]
          /\ req' = [req EXCEPT ![k] = req[down.call]]
      BY <1>4, <2>2 DEF AttemptOver
    <3>2. down.call \in Attempts /\ InHandler(Edge) /\ down.call \in Nat /\ k > down.call
      <4>1. down.call \in Attempts /\ InHandler(Edge)
        BY <1>2, <1>4
      <4>2. down.call \in Nat
        BY <1>0, <4>1
      <4> QED BY <4>1, <4>2
    <3>3. dir[k] = "idle" /\ k \in Calls /\ k # Edge /\ k # down.call
      BY <1>0, <1>2, <3>1, <3>2
    <3> HIDE DEF k
    <3>4. /\ down'.state = "sending" /\ down'.call = k
          /\ down' \in [state : {"none", "sending", "waiting", "over"}, call : Calls, result : Error]
      BY <1>1, <3>1, <3>3
    <3>5. /\ req' \in [Calls -> Envelope] /\ req'[Edge] = req[Edge] /\ req'[k] = req[down.call]
          /\ \A c \in Calls : dir[c] # "idle" => req'[c] = req[c]
      BY <1>0, <1>1, <3>1, <3>2, <3>3
    <3>6. \A c \in Attempts : c > k \/ c = k => dir[c] = "idle"
      BY <1>0, <1>2, <3>1, <3>2, <3>3
    <3> QED BY <1>4, <3>1, <3>2, <3>4, <3>5, <3>6 DEF ClientMoves
  <2> QED BY <2>1, <2>2
<1>5. CASE Invoke
  <2>1. InHandler(Edge) /\ down.state = "none" /\ down.call = Edge
    BY <1>2, <1>5 DEF Invoke, Free
  <2>2. PICK method \in InnerMethods :
          req' = [req EXCEPT ![2] = [method |-> method, authorization |-> OutgoingAuthorization,
                                     id |-> OutgoingId(Top(Edge)),
                                     deadline |-> CallDeadline(Top(Edge))]]
    BY <1>5 DEF Invoke
  <2> DEFINE sent == [method |-> method, authorization |-> OutgoingAuthorization,
                      id |-> OutgoingId(Top(Edge)), deadline |-> CallDeadline(Top(Edge))]
  <2>3. /\ sent \in Envelope /\ sent.id = OutgoingId(Top(Edge))
        /\ sent.authorization = OutgoingAuthorization
    BY <2>1, OutgoingType
  <2>4. req' = [req EXCEPT ![2] = sent]
    BY <2>2
  <2> HIDE DEF sent
  <2>5. dir[2] = "idle" /\ \A c \in Attempts : dir[c] = "idle"
    BY <1>0, <1>2, <2>1
  <2>6. /\ req' \in [Calls -> Envelope] /\ req'[Edge] = req[Edge] /\ req'[2] = sent
        /\ \A c \in Calls : dir[c] # "idle" => req'[c] = req[c]
    BY <1>0, <1>1, <2>3, <2>4, <2>5
  <2>7. /\ down'.state = "sending" /\ down'.call = 2
        /\ down' \in [state : {"none", "sending", "waiting", "over"}, call : Calls, result : Error]
    BY <1>0, <1>1, <1>5 DEF Invoke
  <2>8. /\ UNCHANGED <<cfg, stack, dir, err, outcome, header, inFlight, counted>>
        /\ log' = log /\ ctxDone' = ctxDone
    BY <1>5 DEF Invoke, flow, told
  <2> QED BY <1>0, <1>1, <2>1, <2>3, <2>5, <2>6, <2>7, <2>8 DEF ClientMoves
<1>6. CASE InvokeWithoutToken
  <2> DEFINE result == IF cfg.mode = "service" THEN Plain
                       ELSE [Status("Unauthenticated") EXCEPT !.text = "raw"]
  <2>1. result \in Error
    <3>1. "Unauthenticated" \in Codes \ {"OK"}
      BY DEF Codes
    <3> QED BY <3>1, ErrorsAreErrors
  <2>2. CallOver(result) /\ InHandler(Edge) /\ req' = req /\ ctxDone' = ctxDone
        /\ UNCHANGED <<cfg, stack, dir, err, outcome, header, inFlight, counted>>
    BY <1>6 DEF InvokeWithoutToken, Free, flow, told
  <2> HIDE DEF result
  <2> QED BY <1>1, <1>3, <2>1, <2>2
<1>7. CASE Answered
  <2>1. err[down.call] \in Error
    BY <1>1
  <2> QED BY <1>1, <1>4, <1>7, <2>1 DEF Answered, flow, told
<1>8. CASE ConnectionLost
  <2>1. [Status("Unavailable") EXCEPT !.text = "raw"] \in Error
    <3>1. "Unavailable" \in Codes \ {"OK"}
      BY DEF Codes
    <3> QED BY <3>1, ErrorsAreErrors
  <2>2. ctxDone' \in [Calls -> BOOLEAN]
    BY <1>1, <1>8 DEF ConnectionLost
  <2> QED BY <1>4, <1>8, <2>1, <2>2 DEF ConnectionLost, flow, told
<1>9. CASE Abandon
  <2>1. Status("DeadlineExceeded") \in Error /\ Status("Canceled") \in Error
    <3>1. {"DeadlineExceeded", "Canceled"} \subseteq Codes \ {"OK"}
      BY DEF Codes
    <3> QED BY <3>1, ErrorsAreErrors
  <2>2. ctxDone' \in [Calls -> BOOLEAN]
    BY <1>1, <1>9 DEF Abandon
  <2>3. PICK result \in Error : CallOver(result)
    BY <1>9, <2>1 DEF Abandon
  <2> QED BY <1>2, <1>3, <1>9, <2>2, <2>3 DEF Abandon, flow, told
<1>10. CASE \E c \in Calls : ContextEnds(c)
  <2>1. /\ UNCHANGED <<cfg, stack, dir, err, outcome, header, inFlight, counted>>
        /\ UNCHANGED <<req, log, down>> /\ ctxDone' \in [Calls -> BOOLEAN]
    BY <1>1, <1>10 DEF ContextEnds, flow, told
  <2> QED BY <1>1, <1>2, <2>1 DEF ClientMoves
<1> QED BY <1>5, <1>6, <1>7, <1>8, <1>9, <1>10

\* An attempt reaches the inner service.
LEMMA DeliverFlow ==
  ASSUME FlowInv, Deliver
  PROVE  /\ FlowInv'
         /\ down.call \in Attempts /\ dir[down.call] = "idle" /\ down.state = "sending"
         /\ down'.state = "waiting" /\ down'.call = down.call
         /\ stack' = [stack EXCEPT ![down.call] = <<Background(req[down.call])>>]
         /\ dir' = [dir EXCEPT ![down.call] = "in"]
         /\ UNCHANGED <<cfg, req, err, ctxDone, outcome, header, inFlight, counted>>
         /\ InHandler(Edge)
         /\ \A line \in log' :
              \/ line \in log
              \/ line.call = Edge /\ line.what = "call" /\ line.id = Top(Edge).id
<1>0. /\ Edge = 1 /\ Edge \in Calls /\ Attempts \subseteq Calls /\ Edge \notin Attempts
      /\ Attempts \subseteq Nat
  BY RpcAssumption DEF Edge, Calls, Attempts
<1> DEFINE k == down.call
           q == <<Background(req[k])>>
<1>1. /\ k \in Attempts /\ k \in Calls /\ dir[k] = "idle" /\ down.state = "sending"
      /\ k # Edge /\ InHandler(Edge)
  BY <1>0 DEF Deliver, FlowInv
<1>2. /\ down' = [down EXCEPT !.state = "waiting"]
      /\ stack' = [stack EXCEPT ![k] = q] /\ dir' = [dir EXCEPT ![k] = "in"]
      /\ UNCHANGED <<cfg, req, err, ctxDone, outcome, header, inFlight, counted>>
      /\ \A line \in log' :
           \/ line \in log
           \/ line.call = Edge /\ line.what = "call" /\ line.id = Top(Edge).id
  BY DEF Deliver, LogCall, Line, told
<1>3. down'.state = "waiting" /\ down'.call = k
      /\ down' \in [state : {"none", "sending", "waiting", "over"}, call : Calls, result : Error]
  BY <1>2 DEF FlowInv
<1>4. Background(req[k]) \in Context
  <2>1. req[k].deadline \in BOOLEAN
    BY <1>1 DEF FlowInv, Envelope
  <2>2. Absent \in RequestIds
    BY DEF RequestIds
  <2> QED BY <2>1, <2>2 DEF Background, Context
<1>5. q \in Seq(Context) /\ Len(q) = 1 /\ q # <<>>
  BY <1>4
<1> HIDE DEF k, q
<1>6. /\ stack' \in [Calls -> Seq(Context)] /\ stack'[k] = q
      /\ dir' \in [Calls -> {"idle", "in", "out", "panic", "done"}] /\ dir'[k] = "in"
      /\ \A c \in Calls \ {k} : stack'[c] = stack[c] /\ dir'[c] = dir[c]
  BY <1>1, <1>2, <1>5 DEF FlowInv
<1>7. /\ \A c \in Calls : Chain(c)' = Chain(c) /\ Len(Chain(c)) \in Nat
      /\ \A c \in Calls : Depth(c)' = Len(stack'[c])
  BY <1>2, Unmoved, ChainShape DEF FlowInv
<1>8. ASSUME NEW c \in Calls
      PROVE  /\ dir'[c] \in {"idle", "done"} <=> stack'[c] = <<>>
             /\ Len(stack'[c]) <= Len(Chain(c)) + 1
             /\ dir'[c] \in {"out", "panic"} => Len(stack'[c]) <= Len(Chain(c))
             /\ dir'[c] = "idle" => /\ c # Edge /\ outcome'[c] = Unfinished
                                    /\ \A line \in log' : line.call # c
  <2>1. CASE c = k
    <3>1. Len(Chain(c)) \in Nat
      BY <1>7
    <3>2. stack'[c] = q /\ dir'[c] = "in"
      BY <1>6, <2>1
    <3>3. Len(q) <= Len(Chain(c)) + 1
      BY <1>5, <3>1
    <3>4. ~ (dir'[c] \in {"idle", "done"}) /\ stack'[c] # <<>>
      BY <1>5, <3>2
    <3>5. ~ (dir'[c] \in {"out", "panic"}) /\ dir'[c] # "idle"
      BY <3>2
    <3> QED BY <3>2, <3>3, <3>4, <3>5
  <2>2. CASE c # k
    BY <1>2, <1>6, <2>2 DEF FlowInv, Depth
  <2> QED BY <2>1, <2>2
<1>9. InHandler(Edge)'
  <2>1. stack'[Edge] = stack[Edge] /\ dir'[Edge] = dir[Edge] /\ Chain(Edge)' = Chain(Edge)
        /\ Depth(Edge)' = Depth(Edge)
    BY <1>0, <1>1, <1>6, <1>7 DEF Depth
  <2> QED BY <1>1, <2>1 DEF InHandler
<1>10. \A c \in Attempts : c > k => dir'[c] = "idle"
  <2>1. \A c \in Attempts : c > k => dir[c] = "idle" /\ c # k /\ c \in Calls
    BY <1>0, <1>1 DEF FlowInv, k
  <2> QED BY <1>6, <2>1
<1>11. FlowInv'
  <2>1. /\ cfg' \in Configs /\ req' \in [Calls -> Envelope] /\ err' \in [Calls -> Error]
        /\ ctxDone' \in [Calls -> BOOLEAN]
        /\ outcome' \in [Calls -> Error \cup {Unfinished, Panicked}]
        /\ header' \in [Calls -> RequestIds] /\ inFlight' \in [Services -> Int]
        /\ counted' \in [Calls -> Codes \cup {Absent}]
    BY <1>2 DEF FlowInv
  <2> QED BY <1>1, <1>3, <1>6, <1>7, <1>8, <1>9, <1>10, <2>1 DEF FlowInv
<1> QED BY <1>1, <1>2, <1>3, <1>11 DEF k, q

\* A request has just reached the edge service.
LEMMA InitFlow == Init => FlowInv
<1> SUFFICES ASSUME Init PROVE FlowInv
  OBVIOUS
<1>0. /\ Edge = 1 /\ Edge \in Calls /\ Attempts \subseteq Calls /\ Edge \notin Attempts
      /\ Attempts \subseteq Nat
  BY RpcAssumption DEF Edge, Calls, Attempts
<1>1. PICK first \in Requests :
        /\ req = [c \in Calls |-> IF c = Edge THEN first ELSE NoRequest]
        /\ stack = [c \in Calls |-> IF c = Edge THEN <<Background(first)>> ELSE <<>>]
  BY DEF Init
<1>2. first \in Envelope /\ NoRequest \in Envelope
  <2>1. Absent \in Methods /\ Absent \in RequestIds /\ <<>> \in Seq(Headers)
    BY DEF Methods, RequestIds
  <2> QED BY <2>1, RpcAssumption DEF NoRequest, Envelope
<1>3. Background(first) \in Context
  <2>1. Absent \in RequestIds
    BY DEF RequestIds
  <2> QED BY <1>2, <2>1 DEF Background, Context, Envelope
<1> DEFINE q == <<Background(first)>>
<1>4. q \in Seq(Context) /\ Len(q) = 1 /\ q # <<>>
  BY <1>3
<1>5. <<>> \in Seq(Context) /\ Len(<<>>) = 0
  OBVIOUS
<1>6. stack = [c \in Calls |-> IF c = Edge THEN q ELSE <<>>]
  BY <1>1
<1> HIDE DEF q
<1>7. req \in [Calls -> Envelope] /\ stack \in [Calls -> Seq(Context)]
  BY <1>1, <1>2, <1>4, <1>5, <1>6
<1>8. /\ cfg \in Configs /\ dir = [c \in Calls |-> IF c = Edge THEN "in" ELSE "idle"]
      /\ dir \in [Calls -> {"idle", "in", "out", "panic", "done"}]
      /\ err \in [Calls -> Error] /\ ctxDone \in [Calls -> BOOLEAN]
      /\ outcome = [c \in Calls |-> Unfinished]
      /\ outcome \in [Calls -> Error \cup {Unfinished, Panicked}]
      /\ inFlight \in [Services -> Int]
      /\ counted \in [Calls -> Codes \cup {Absent}]
      /\ log = {} /\ down = NoDown
  BY ErrorsAreErrors DEF Init
<1>9. header \in [Calls -> RequestIds]
  BY DEF Init, RequestIds
<1>10. /\ down \in [state : {"none", "sending", "waiting", "over"}, call : Calls, result : Error]
       /\ down.state = "none" /\ down.call = Edge
  BY <1>0, <1>8, ErrorsAreErrors DEF NoDown
<1>11. \A c \in Calls :
         /\ dir[c] \in {"idle", "done"} <=> stack[c] = <<>>
         /\ Depth(c) <= Len(Chain(c)) + 1
         /\ dir[c] \in {"out", "panic"} => Depth(c) <= Len(Chain(c))
         /\ dir[c] = "idle" => /\ c # Edge /\ outcome[c] = Unfinished
                               /\ \A line \in log : line.call # c
  <2> TAKE c \in Calls
  <2>1. Len(Chain(c)) \in Nat
    BY <1>8, ChainShape
  <2>2. /\ c = Edge => stack[c] = q /\ dir[c] = "in"
        /\ c # Edge => stack[c] = <<>> /\ dir[c] = "idle"
        /\ outcome[c] = Unfinished
    BY <1>6, <1>8
  <2>3. Depth(c) <= Len(Chain(c)) + 1
    <3>1. Depth(c) \in {0, 1}
      BY <1>4, <1>5, <2>2 DEF Depth
    <3>2. \A n \in Nat : \A m \in {0, 1} : m <= n + 1
      OBVIOUS
    <3> QED BY <2>1, <3>1, <3>2
  <2>4. /\ dir[c] \in {"idle", "done"} <=> stack[c] = <<>>
        /\ dir[c] \notin {"out", "panic"} /\ (dir[c] = "idle" => c # Edge)
    BY <1>4, <2>2
  <2> QED BY <1>8, <2>2, <2>3, <2>4
<1>12. \A c \in Attempts : dir[c] = "idle"
  BY <1>0, <1>8
<1> QED BY <1>7, <1>8, <1>9, <1>10, <1>11, <1>12 DEF FlowInv

\* What every step is: of an interceptor, of a handler, of the client, or a stutter.
LEMMA Steps ==
  ASSUME FlowInv, [Next]_vars
  PROVE  /\ FlowInv'
         /\ \/ \E c \in Calls : Enters(c) \/ Refuses(c) \/ Returns(c) \/ Unwinds(c) \/ Catches(c)
            \/ \E c \in Calls : Handle(c)
            \/ Deliver
            \/ ClientMoves
<1>1. CASE \E c \in Calls : Turn(c) /\ Intercept(c)
  BY <1>1, InterceptFlow, Shapes
<1>2. CASE \E c \in Calls : Handle(c)
  BY <1>2, HandlerFlow
<1>3. CASE Deliver
  BY <1>3, DeliverFlow
<1>4. CASE \/ Invoke \/ InvokeWithoutToken \/ Answered \/ ConnectionLost \/ Abandon
           \/ \E c \in Calls : ContextEnds(c)
  BY <1>4, ClientShapes, ClientFlow
<1>5. CASE UNCHANGED vars
  <2>1. ClientMoves
    <3>1. Edge \in Calls
      BY DEF Calls
    <3> QED BY <1>5, <3>1 DEF FlowInv, ClientMoves, vars
  <2> QED BY <2>1, ClientFlow
<1> QED BY <1>1, <1>2, <1>3, <1>4, <1>5 DEF Next, Client, Quiet

\* What the three moves of a stack do, call by call.
LEMMA PassEffect ==
  ASSUME FlowInv, NEW c \in Calls, NEW ctx \in Context, Pass(c, ctx)
  PROVE  /\ Len(stack'[c]) = Depth(c) + 1
         /\ \A i \in 1 .. Depth(c) : stack'[c][i] = stack[c][i]
         /\ stack'[c][Depth(c) + 1] = ctx
         /\ dir' = dir /\ err' = err
         /\ \A k \in Calls \ {c} : stack'[k] = stack[k]
<1>1. /\ stack' = [stack EXCEPT ![c] = Append(stack[c], ctx)] /\ dir' = dir /\ err' = err
  BY DEF Pass
<1>2. stack'[c] = Append(stack[c], ctx) /\ \A k \in Calls \ {c} : stack'[k] = stack[k]
  BY <1>1 DEF FlowInv
<1> QED BY <1>1, <1>2, StackMoves

\* A function returns.
LEMMA ReturnEffect ==
  ASSUME FlowInv, NEW c \in Calls, NEW e, Return(c, e), Depth(c) > 0
  PROVE  /\ Len(stack'[c]) = Depth(c) - 1
         /\ \A i \in 1 .. Depth(c) - 1 : stack'[c][i] = stack[c][i]
         /\ dir'[c] = IF Depth(c) = 1 THEN "done" ELSE "out"
         /\ err'[c] = e
         /\ \A k \in Calls \ {c} : stack'[k] = stack[k] /\ dir'[k] = dir[k] /\ err'[k] = err[k]
<1>1. /\ stack'[c] = Popped(c) /\ err'[c] = e
      /\ dir'[c] = IF Depth(c) = 1 THEN "done" ELSE "out"
      /\ \A k \in Calls \ {c} : stack'[k] = stack[k] /\ dir'[k] = dir[k] /\ err'[k] = err[k]
  BY DEF FlowInv, Return
<1>2. Len(Popped(c)) = Depth(c) - 1 /\ \A i \in 1 .. Depth(c) - 1 : Popped(c)[i] = stack[c][i]
  BY StackMoves
<1> QED BY <1>1, <1>2

\* A panic unwinds a function.
LEMMA UnwindEffect ==
  ASSUME FlowInv, NEW c \in Calls, Unwind(c), Depth(c) > 0
  PROVE  /\ Len(stack'[c]) = Depth(c) - 1
         /\ \A i \in 1 .. Depth(c) - 1 : stack'[c][i] = stack[c][i]
         /\ dir'[c] = "panic" /\ err' = err
         /\ \A k \in Calls \ {c} : stack'[k] = stack[k] /\ dir'[k] = dir[k]
<1>1. /\ stack'[c] = Popped(c) /\ err' = err /\ dir'[c] = "panic"
      /\ \A k \in Calls \ {c} : stack'[k] = stack[k] /\ dir'[k] = dir[k]
  BY DEF FlowInv, Unwind
<1>2. Len(Popped(c)) = Depth(c) - 1 /\ \A i \in 1 .. Depth(c) - 1 : Popped(c)[i] = stack[c][i]
  BY StackMoves
<1> QED BY <1>1, <1>2

-------------------------------------------------------------------------------
(* Errors on their way out *)

\* The call is on its way to an answer that no panic decided.
Told(c) == dir[c] \in {"out", "done"} /\ outcome[c] # Panicked

\* What is on its way out of a call is what its handler returned, mapped once it has
\* passed ErrorMapping, or the status of an interceptor; the counter and the log have
\* got the code that is still on its way.
Reported(c) ==
    /\ dir[c] = "in" => outcome[c] = Unfinished
    /\ dir[c] = "panic" => outcome[c] = Panicked
    /\ dir[c] \in {"out", "done"} =>
         \/ outcome[c] = Panicked /\ dir[c] = "done" /\ err[c] = Status("Internal")
         \/ /\ outcome[c] = Unfinished
            /\ \E code \in Codes \ {"OK", "Unknown"} : err[c] = Status(code)
         \/ /\ outcome[c] \in Error
            /\ err[c] = IF Depth(c) >= MapAt THEN outcome[c] ELSE MapError(outcome[c])
    /\ cfg.registry /\ Told(c) /\ Depth(c) < 4 => counted[c] = err[c].code
    /\ \A line \in log : line.call = c /\ line.what = "request" =>
         Told(c) /\ Depth(c) < 3 /\ line.code = err[c].code

\* A step of another call changes nothing of it.
LEMMA ReportedStays ==
  ASSUME NEW c \in Calls, Reported(c), cfg' = cfg, stack'[c] = stack[c], dir'[c] = dir[c],
         err'[c] = err[c], outcome'[c] = outcome[c], counted'[c] = counted[c],
         \A line \in log' : line.call = c /\ line.what = "request" => line \in log
  PROVE  Reported(c)'
<1>1. Depth(c)' = Depth(c) /\ MapAt' = MapAt /\ (Told(c)' <=> Told(c))
  BY DEF Depth, MapAt, Told
<1> QED BY <1>1 DEF Reported

\* What has passed ErrorMapping is a status, and its code is the one the log and the
\* metrics see.
LEMMA MappedCode ==
  ASSUME FlowInv, NEW c \in Calls, Reported(c), Told(c), Depth(c) < MapAt
  PROVE  StatusCode(err[c]) = err[c].code /\ MapError(err[c]) = err[c]
<1>1. Depth(c) \in Nat /\ MapAt \in {4, 5}
  BY StackMoves DEF MapAt
<1>2. CASE outcome[c] = Unfinished
  <2>1. PICK code \in Codes : err[c] = Status(code)
    BY <1>2, ErrorsAreErrors DEF Reported, Told
  <2>2. Status(code).class = "status"
    BY DEF Status
  <2> QED BY <2>1, <2>2, Mapping DEF StatusCode
<1>3. CASE outcome[c] \in Error
  <2>1. err[c] = MapError(outcome[c])
    BY <1>1, <1>3, ErrorsAreErrors DEF Reported, Told
  <2> QED BY <1>3, <2>1, Mapping
<1> QED BY <1>2, <1>3 DEF FlowInv, Told

\* Every step preserves it.
LEMMA StepReported ==
  ASSUME FlowInv, \A c \in Calls : Reported(c), [Next]_vars
  PROVE  \A c \in Calls : Reported(c)'
<1>0. /\ cfg \in Configs /\ MapAt \in {4, 5} /\ MapAt = IF cfg.registry THEN 5 ELSE 4
      /\ \A c \in Calls : Depth(c) \in Nat /\ Len(Chain(c)) \in Nat /\ MapAt <= Len(Chain(c))
  BY StackMoves, ChainShape DEF FlowInv, MapAt
<1>1. ASSUME NEW c \in Calls, cfg' = cfg, Reported(c)',
             \A k \in Calls \ {c} :
               /\ stack'[k] = stack[k] /\ dir'[k] = dir[k] /\ err'[k] = err[k]
               /\ outcome'[k] = outcome[k] /\ counted'[k] = counted[k],
             \A line \in log' : line \in log \/ line.call = c
      PROVE  \A k \in Calls : Reported(k)'
  BY <1>1, ReportedStays
<1>2. \A c \in Calls : \A topics :
        Notes(c, topics) /\ "request" \notin topics =>
          \A line \in log' : line \in log \/ (line.call = c /\ line.what # "request")
  BY DEF Notes
<1>3. ASSUME NEW c \in Calls, Enters(c) PROVE \A k \in Calls : Reported(k)'
  <2>1. PICK ctx \in Context : Pass(c, ctx)
    BY <1>3 DEF Enters
  <2>2. /\ dir' = dir /\ err' = err /\ \A k \in Calls \ {c} : stack'[k] = stack[k]
    BY <2>1, PassEffect
  <2>3. /\ cfg' = cfg /\ outcome' = outcome /\ counted' = counted /\ dir[c] = "in"
        /\ \A line \in log' : line \in log \/ (line.call = c /\ line.what # "request")
    BY <1>2, <1>3 DEF Enters
  <2>4. Reported(c)'
    BY <2>2, <2>3 DEF Reported, Told
  <2> QED BY <1>1, <2>2, <2>3, <2>4
<1>4. ASSUME NEW c \in Calls, Refuses(c) PROVE \A k \in Calls : Reported(k)'
  <2>1. PICK code \in Codes \ {"OK", "Unknown"} : Return(c, Status(code))
    BY <1>4 DEF Refuses
  <2>2. /\ cfg' = cfg /\ outcome' = outcome /\ counted' = counted /\ dir[c] = "in"
        /\ Depth(c) > MapAt
        /\ \A line \in log' : line \in log \/ (line.call = c /\ line.what # "request")
    BY <1>0, <1>2, <1>4 DEF Refuses
  <2>3. /\ Len(stack'[c]) = Depth(c) - 1 /\ dir'[c] = "out" /\ err'[c] = Status(code)
        /\ \A k \in Calls \ {c} : stack'[k] = stack[k] /\ dir'[k] = dir[k] /\ err'[k] = err[k]
    BY <1>0, <2>1, <2>2, ReturnEffect
  <2>4. Depth(c)' >= 4
    BY <1>0, <2>2, <2>3 DEF Depth
  <2>5. outcome'[c] = Unfinished /\ \A line \in log' : ~ (line.call = c /\ line.what = "request")
    BY <2>2 DEF Reported, Told
  <2>6. Depth(c)' \in Nat /\ ~ (Depth(c)' < 4)
    BY <1>0, <2>2, <2>3, <2>4 DEF Depth
  <2>7. Reported(c)'
    BY <2>3, <2>5, <2>6 DEF Reported, Told
  <2> QED BY <1>1, <2>2, <2>3, <2>7
<1>5. ASSUME NEW c \in Calls, Returns(c) PROVE \A k \in Calls : Reported(k)'
  <2> DEFINE e == IF Depth(c) = MapAt THEN MapError(err[c]) ELSE err[c]
  <2>1. /\ cfg' = cfg /\ outcome' = outcome /\ dir[c] = "out" /\ Depth(c) > 0 /\ Return(c, e)
        /\ counted' = IF Metered(c) THEN [counted EXCEPT ![c] = StatusCode(err[c])] ELSE counted
        /\ log' = log \/ (Depth(c) = 3 /\ log' = log \cup {Line(c, "request", Top(c), err[c])})
    BY <1>0, <1>5 DEF Returns
  <2>2. /\ Len(stack'[c]) = Depth(c) - 1 /\ err'[c] = e
        /\ dir'[c] \in {"out", "done"}
        /\ \A k \in Calls \ {c} : stack'[k] = stack[k] /\ dir'[k] = dir[k] /\ err'[k] = err[k]
    BY <2>1, ReturnEffect
  <2>3. /\ Depth(c)' = Depth(c) - 1 /\ MapAt' = MapAt /\ Depth(c) \in Nat
        /\ outcome'[c] = outcome[c] /\ outcome[c] # Panicked /\ Told(c) /\ Told(c)'
    <3>1. outcome[c] # Panicked
      <4>1. Reported(c) /\ dir[c] \in {"out", "done"} /\ dir[c] # "done"
        BY <2>1
      <4>2. outcome[c] = Unfinished \/ outcome[c] \in Error
        BY <4>1 DEF Reported
      <4> QED BY <4>2, ErrorsAreErrors
    <3> QED BY <1>0, <2>1, <2>2, <3>1 DEF Depth, MapAt, Told
  <2>4. Reported(c)
    OBVIOUS
  <2>5. Depth(c) < MapAt => StatusCode(err[c]) = err[c].code
    BY <2>3, <2>4, MappedCode
  <2> HIDE DEF e
  <2>6. \/ outcome[c] = Unfinished /\ \E code \in Codes \ {"OK", "Unknown"} : e = Status(code)
        \/ outcome[c] \in Error /\ e = IF Depth(c)' >= MapAt THEN outcome[c] ELSE MapError(outcome[c])
    <3>1. CASE outcome[c] = Unfinished
      <4>1. PICK code \in Codes \ {"OK", "Unknown"} : err[c] = Status(code)
        BY <2>1, <2>3, <2>4, <3>1, ErrorsAreErrors DEF Reported
      <4>2. e = Status(code)
        BY <4>1, Mapping DEF e
      <4> QED BY <3>1, <4>2
    <3>2. CASE outcome[c] # Unfinished
      <4>1. /\ outcome[c] \in Error
            /\ err[c] = IF Depth(c) >= MapAt THEN outcome[c] ELSE MapError(outcome[c])
        BY <2>1, <2>3, <2>4, <3>2 DEF Reported
      <4>2. CASE Depth(c) > MapAt
        BY <1>0, <2>3, <4>1, <4>2 DEF e
      <4>3. CASE Depth(c) = MapAt
        BY <1>0, <2>3, <4>1, <4>3 DEF e
      <4>4. CASE Depth(c) < MapAt
        BY <1>0, <2>3, <4>1, <4>4 DEF e
      <4> QED BY <1>0, <2>3, <4>2, <4>3, <4>4
    <3> QED BY <3>1, <3>2
  <2>7. cfg.registry /\ Depth(c)' < 4 => counted'[c] = err'[c].code
    <3> SUFFICES ASSUME cfg.registry, Depth(c)' < 4 PROVE counted'[c] = err'[c].code
      OBVIOUS
    <3>1. MapAt = 5 /\ Depth(c) <= 4 /\ Depth(c) # MapAt /\ Depth(c) < MapAt
      BY <1>0, <2>3
    <3>2. err'[c] = err[c] /\ StatusCode(err[c]) = err[c].code
      BY <2>2, <2>5, <3>1 DEF e
    <3>3. CASE Depth(c) = 4
      BY <2>1, <3>2, <3>3 DEF Metered, FlowInv
    <3>4. CASE Depth(c) # 4
      <4>1. Depth(c) < 4 /\ counted' = counted
        BY <2>1, <2>3, <3>1, <3>4 DEF Metered
      <4> QED BY <2>3, <2>4, <3>2, <4>1 DEF Reported
    <3> QED BY <3>3, <3>4
  <2>8. \A line \in log' : line.call = c /\ line.what = "request" =>
          Depth(c)' < 3 /\ line.code = err'[c].code
    <3> SUFFICES ASSUME NEW line \in log', line.call = c, line.what = "request"
                 PROVE  Depth(c)' < 3 /\ line.code = err'[c].code
      OBVIOUS
    <3>1. CASE line \in log
      <4>1. Depth(c) < 3 /\ line.code = err[c].code
        BY <2>4, <3>1 DEF Reported
      <4> QED BY <1>0, <2>2, <2>3, <4>1 DEF e
    <3>2. CASE line \notin log
      <4>1. Depth(c) = 3 /\ line = Line(c, "request", Top(c), err[c])
        BY <2>1, <3>2
      <4>2. line.code = StatusCode(err[c])
        BY <4>1 DEF Line
      <4>3. e = err[c] /\ StatusCode(err[c]) = err[c].code
        BY <1>0, <2>5, <4>1 DEF e
      <4> QED BY <2>2, <2>3, <4>1, <4>2, <4>3
    <3> QED BY <3>1, <3>2
  <2>9. Reported(c)'
    <3>1. dir'[c] # "in" /\ dir'[c] # "panic"
      BY <2>2
    <3> QED BY <2>1, <2>2, <2>3, <2>6, <2>7, <2>8, <3>1 DEF Reported
  <2>10. /\ \A k \in Calls \ {c} : counted'[k] = counted[k]
         /\ \A line \in log' : line \in log \/ line.call = c
    BY <2>1 DEF FlowInv, Line
  <2> QED BY <1>1, <2>1, <2>2, <2>9, <2>10
<1>6. ASSUME NEW c \in Calls, Unwinds(c) PROVE \A k \in Calls : Reported(k)'
  <2>1. /\ cfg' = cfg /\ outcome' = outcome /\ counted' = counted /\ log' = log
        /\ dir[c] = "panic" /\ Depth(c) > 0 /\ Unwind(c)
    BY <1>0, <1>6 DEF Unwinds
  <2>2. /\ dir'[c] = "panic" /\ err' = err
        /\ \A k \in Calls \ {c} : stack'[k] = stack[k] /\ dir'[k] = dir[k]
    BY <2>1, UnwindEffect
  <2>3. Reported(c)'
    BY <2>1, <2>2 DEF Reported, Told
  <2> QED BY <1>1, <2>1, <2>2, <2>3
<1>7. ASSUME NEW c \in Calls, Catches(c) PROVE \A k \in Calls : Reported(k)'
  <2>1. /\ cfg' = cfg /\ outcome' = outcome /\ counted' = counted
        /\ dir[c] = "panic" /\ Depth(c) = 1 /\ Return(c, Status("Internal"))
        /\ \A line \in log' : line \in log \/ (line.call = c /\ line.what # "request")
    BY <1>2, <1>7 DEF Catches
  <2>2. /\ dir'[c] = "done" /\ err'[c] = Status("Internal")
        /\ \A k \in Calls \ {c} : stack'[k] = stack[k] /\ dir'[k] = dir[k] /\ err'[k] = err[k]
    BY <2>1, ReturnEffect
  <2>3. outcome'[c] = Panicked /\ \A line \in log' : ~ (line.call = c /\ line.what = "request")
    BY <2>1 DEF Reported, Told
  <2>4. Reported(c)'
    BY <2>1, <2>2, <2>3 DEF Reported, Told
  <2> QED BY <1>1, <2>1, <2>2, <2>4
<1>8. ASSUME NEW c \in Calls, Handle(c) PROVE \A k \in Calls : Reported(k)'
  <2>1. /\ dir[c] = "in" /\ Depth(c) = Len(Chain(c)) + 1 /\ Depth(c) > MapAt /\ Depth(c) > 0
        /\ Depth(c) # 1
        /\ cfg' = cfg /\ counted' = counted /\ log' = log
    BY <1>0, <1>8 DEF Handle, HandlerReturn, HandlerPanic, Free, InHandler, told
  <2>2. \A line \in log' : ~ (line.call = c /\ line.what = "request")
    BY <2>1 DEF Reported, Told
  <2>3. CASE HandlerReturn(c)
    <3>1. PICK e \in HandlerErrors(c) : Return(c, e) /\ outcome' = [outcome EXCEPT ![c] = e]
      BY <2>3 DEF HandlerReturn
    <3>2. /\ Len(stack'[c]) = Depth(c) - 1 /\ dir'[c] = "out" /\ err'[c] = e
          /\ \A k \in Calls \ {c} : stack'[k] = stack[k] /\ dir'[k] = dir[k] /\ err'[k] = err[k]
      BY <2>1, <3>1, ReturnEffect
    <3>3. outcome'[c] = e /\ e \in Error /\ \A k \in Calls \ {c} : outcome'[k] = outcome[k]
      BY <1>8, <2>3, <3>1, HandlerFlow DEF FlowInv
    <3>4. Depth(c)' = Len(Chain(c)) /\ Depth(c)' >= MapAt /\ MapAt' = MapAt /\ ~ (Depth(c)' < 4)
      BY <1>0, <2>1, <3>2 DEF Depth, MapAt
    <3>5. Reported(c)'
      BY <2>2, <3>2, <3>3, <3>4 DEF Reported
    <3> QED BY <1>1, <2>1, <3>2, <3>3, <3>5
  <2>4. CASE HandlerPanic(c)
    <3>1. Unwind(c) /\ outcome' = [outcome EXCEPT ![c] = Panicked]
      BY <2>4 DEF HandlerPanic
    <3>2. /\ dir'[c] = "panic" /\ err' = err
          /\ \A k \in Calls \ {c} : stack'[k] = stack[k] /\ dir'[k] = dir[k]
      BY <2>1, <3>1, UnwindEffect
    <3>3. outcome'[c] = Panicked /\ \A k \in Calls \ {c} : outcome'[k] = outcome[k]
      BY <3>1 DEF FlowInv
    <3>4. Reported(c)'
      BY <2>2, <3>2, <3>3 DEF Reported, Told
    <3> QED BY <1>1, <2>1, <3>2, <3>3, <3>4
  <2> QED BY <1>8, <2>3, <2>4 DEF Handle
<1>9. CASE Deliver
  <2>0. PICK c \in Calls : c = down.call /\ c # Edge
    BY <1>9, DeliverFlow, RpcAssumption DEF Calls, Attempts, Edge
  <2>1. /\ dir[c] = "idle"
        /\ stack' = [stack EXCEPT ![c] = <<Background(req[c])>>]
        /\ dir' = [dir EXCEPT ![c] = "in"]
        /\ UNCHANGED <<cfg, err, outcome, counted>>
        /\ \A line \in log' : line \in log \/ (line.call = Edge /\ line.what = "call")
    BY <1>9, <2>0, DeliverFlow
  <2>2. /\ dir'[c] = "in"
        /\ \A k \in Calls \ {c} : stack'[k] = stack[k] /\ dir'[k] = dir[k]
    BY <2>0, <2>1 DEF FlowInv
  <2>3. outcome'[c] = Unfinished /\ \A line \in log' : line.call # c
    BY <2>0, <2>1 DEF FlowInv
  <2>4. Reported(c)'
    BY <2>2, <2>3 DEF Reported, Told
  <2>5. ASSUME NEW k \in Calls \ {c} PROVE Reported(k)'
    BY <2>1, <2>2, <2>5, ReportedStays
  <2> QED BY <2>4, <2>5
<1>10. CASE ClientMoves
  <2>1. /\ UNCHANGED <<cfg, stack, dir, err, outcome, counted>>
        /\ \A line \in log' : line \in log \/ line.what = "call"
    BY <1>10 DEF ClientMoves
  <2> QED BY <2>1, ReportedStays
<1> QED BY <1>3, <1>4, <1>5, <1>6, <1>7, <1>8, <1>9, <1>10, Steps

\* Nothing has been told yet.
LEMMA InitReported == Init => \A c \in Calls : Reported(c)
  BY DEF Init, Reported, Told

\* Codes and texts, once a call is over.
LEMMA ReportedIsTrue ==
  ASSUME FlowInv, \A c \in Calls : Reported(c)
  PROVE  CodesAgree /\ CauseStaysInside
<1> SUFFICES ASSUME NEW c \in Calls, dir[c] = "done"
             PROVE  /\ outcome[c] = Panicked => err[c] = Status("Internal")
                    /\ outcome[c] # Panicked =>
                         /\ err[c].class \in {"none", "status"}
                         /\ err[c].code = "Unknown" => outcome[c] = err[c]
                         /\ cfg.registry => counted[c] = err[c].code
                         /\ \A line \in log : line.call = c /\ line.what = "request" =>
                              line.code = err[c].code
                    /\ err[c].text = "raw" =>
                         outcome[c] \notin {Unfinished, Panicked} /\ outcome[c].class = "status"
  BY DEF CodesAgree, CauseStaysInside
<1>1. Reported(c) /\ Depth(c) = 0 /\ MapAt \in {4, 5}
  BY DEF FlowInv, Depth, MapAt
<1>2. CASE outcome[c] = Panicked
  <2>1. err[c] = Status("Internal") /\ err[c].text = "public"
    BY <1>1, <1>2, ErrorsAreErrors DEF Reported, Status
  <2> QED BY <1>2, <2>1
<1>3. CASE outcome[c] # Panicked
  <2>1. /\ cfg.registry => counted[c] = err[c].code
        /\ \A line \in log : line.call = c /\ line.what = "request" => line.code = err[c].code
    BY <1>1, <1>3 DEF Reported, Told
  <2>2. CASE outcome[c] = Unfinished
    <3>1. PICK code \in Codes \ {"OK", "Unknown"} : err[c] = Status(code)
      BY <1>1, <1>3, <2>2, ErrorsAreErrors DEF Reported
    <3>2. err[c].class = "status" /\ err[c].code = code /\ err[c].text = "public"
      BY <3>1 DEF Status
    <3> QED BY <1>3, <2>1, <3>2
  <2>3. CASE outcome[c] # Unfinished
    <3>1. outcome[c] \in Error /\ err[c] = MapError(outcome[c])
      BY <1>1, <1>3, <2>3 DEF Reported
    <3>2. /\ err[c].class \in {"none", "status"}
          /\ err[c].code = "Unknown" => outcome[c] = err[c]
          /\ err[c].text = "raw" => outcome[c].class = "status"
      BY <3>1, Mapping
    <3> QED BY <1>3, <2>1, <2>3, <3>2
  <2> QED BY <2>2, <2>3
<1> QED BY <1>2, <1>3

\* The log, the counter and the caller are told the same code for every call, whatever
\* interceptors a service adds and however its handlers end (interceptors.go,
\* metrics.go, errors.go).
THEOREM EveryoneIsToldTheSame == Spec => []CodesAgree
<1>1. Init => FlowInv /\ \A c \in Calls : Reported(c)
  BY InitFlow, InitReported
<1>2. FlowInv /\ (\A c \in Calls : Reported(c)) /\ [Next]_vars
        => FlowInv' /\ (\A c \in Calls : Reported(c))'
  BY Steps, StepReported
<1>3. FlowInv /\ (\A c \in Calls : Reported(c)) => CodesAgree
  BY ReportedIsTrue
<1> QED BY <1>1, <1>2, <1>3, PTL DEF Spec

\* The text of a cause leaves a service only inside a status its handler returned
\* (errors.go).
THEOREM CausesAreKept == Spec => []CauseStaysInside
<1>1. Init => FlowInv /\ \A c \in Calls : Reported(c)
  BY InitFlow, InitReported
<1>2. FlowInv /\ (\A c \in Calls : Reported(c)) /\ [Next]_vars
        => FlowInv' /\ (\A c \in Calls : Reported(c))'
  BY Steps, StepReported
<1>3. FlowInv /\ (\A c \in Calls : Reported(c)) => CauseStaysInside
  BY ReportedIsTrue
<1> QED BY <1>1, <1>2, <1>3, PTL DEF Spec
-------------------------------------------------------------------------------
(* The gauge *)

\* The call is inside the metrics interceptor.
Metering(c) == cfg.registry /\ Depth(c) >= IF dir[c] = "in" THEN 5 ELSE 4
MeteredCalls(s) == {c \in Calls : ServiceOf(c) = s /\ Metering(c)}

\* A step of call c moves the gauge of its service as it moves the call.
GaugeMoves(c) ==
    /\ \A k \in Calls \ {c} : Metering(k)' <=> Metering(k)
    /\ \/ inFlight' = inFlight /\ (Metering(c)' <=> Metering(c))
       \/ /\ inFlight' = [inFlight EXCEPT ![ServiceOf(c)] = @ + 1]
          /\ Metering(c)' /\ ~ Metering(c)
       \/ /\ inFlight' = [inFlight EXCEPT ![ServiceOf(c)] = @ - 1]
          /\ ~ Metering(c)' /\ Metering(c)

\* There are finitely many calls.
LEMMA CallsFinite == IsFiniteSet(Calls)
<1>1. IsFiniteSet(2 .. MaxAttempts + 1)
  <2>1. 2 \in Int /\ MaxAttempts + 1 \in Int
    BY RpcAssumption
  <2> QED BY <2>1, FS_Interval
<1>2. IsFiniteSet({Edge})
  BY FS_Singleton
<1> QED BY <1>1, <1>2, FS_Union DEF Calls, Attempts

\* So the metered ones are.
LEMMA GaugeFinite == \A s : IsFiniteSet(MeteredCalls(s)) /\ IsFiniteSet(MeteredCalls(s)')
  BY CallsFinite, FS_Subset DEF MeteredCalls

\* The gauge stays exact.
LEMMA GaugeStaysExact ==
  ASSUME FlowInv, GaugeExact, NEW c \in Calls, GaugeMoves(c)
  PROVE  GaugeExact'
<1>1. \A s \in Services : inFlight[s] = Cardinality(MeteredCalls(s))
  BY DEF GaugeExact, MeteredCalls, Metering
<1>2. inFlight \in [Services -> Int] /\ ServiceOf(c) \in Services
  BY DEF FlowInv, ServiceOf, Services
<1>3. ASSUME NEW s \in Services PROVE inFlight'[s] = Cardinality(MeteredCalls(s)')
  <2>1. CASE s # ServiceOf(c)
    <3>1. MeteredCalls(s)' = MeteredCalls(s)
      BY <2>1 DEF MeteredCalls, GaugeMoves
    <3>2. inFlight'[s] = inFlight[s]
      BY <1>2, <2>1 DEF GaugeMoves
    <3> QED BY <1>1, <3>1, <3>2
  <2>2. CASE s = ServiceOf(c) /\ inFlight' = inFlight /\ (Metering(c)' <=> Metering(c))
    <3>1. MeteredCalls(s)' = MeteredCalls(s)
      BY <2>2 DEF MeteredCalls, GaugeMoves
    <3> QED BY <1>1, <2>2, <3>1
  <2>3. CASE /\ s = ServiceOf(c) /\ inFlight' = [inFlight EXCEPT ![ServiceOf(c)] = @ + 1]
             /\ Metering(c)' /\ ~ Metering(c)
    <3>1. MeteredCalls(s)' = MeteredCalls(s) \cup {c} /\ c \notin MeteredCalls(s)
      BY <2>3 DEF MeteredCalls, GaugeMoves
    <3>2. Cardinality(MeteredCalls(s) \cup {c}) = Cardinality(MeteredCalls(s)) + 1
      BY <3>1, GaugeFinite, FS_AddElement
    <3>3. inFlight'[s] = inFlight[s] + 1
      BY <1>2, <2>3
    <3> QED BY <1>1, <3>1, <3>2, <3>3
  <2>4. CASE /\ s = ServiceOf(c) /\ inFlight' = [inFlight EXCEPT ![ServiceOf(c)] = @ - 1]
             /\ ~ Metering(c)' /\ Metering(c)
    <3>1. MeteredCalls(s)' = MeteredCalls(s) \ {c} /\ c \in MeteredCalls(s)
      BY <2>4 DEF MeteredCalls, GaugeMoves
    <3>2. Cardinality(MeteredCalls(s) \ {c}) = Cardinality(MeteredCalls(s)) - 1
      BY <3>1, GaugeFinite, FS_RemoveElement
    <3>3. inFlight'[s] = inFlight[s] - 1
      BY <1>2, <2>4
    <3> QED BY <1>1, <3>1, <3>2, <3>3
  <2> QED BY <2>1, <2>2, <2>3, <2>4 DEF GaugeMoves
<1> QED BY <1>3 DEF GaugeExact, MeteredCalls, Metering

\* Every step preserves it.
LEMMA StepGauge ==
  ASSUME FlowInv, GaugeExact, [Next]_vars
  PROVE  GaugeExact'
<1>0. /\ cfg \in Configs /\ MapAt \in {4, 5} /\ MapAt = IF cfg.registry THEN 5 ELSE 4
      /\ \A c \in Calls : Depth(c) \in Nat /\ Len(Chain(c)) \in Nat /\ MapAt <= Len(Chain(c))
  BY StackMoves, ChainShape DEF FlowInv, MapAt
<1>1. ASSUME NEW c \in Calls, cfg' = cfg,
             \A k \in Calls \ {c} : stack'[k] = stack[k] /\ dir'[k] = dir[k]
      PROVE  \A k \in Calls \ {c} : Metering(k)' <=> Metering(k)
  BY <1>1 DEF Metering, Depth
<1>2. ASSUME NEW c \in Calls, Enters(c) PROVE GaugeMoves(c)
  <2>1. PICK ctx \in Context : Pass(c, ctx)
    BY <1>2 DEF Enters
  <2>2. /\ Depth(c)' = Depth(c) + 1 /\ dir' = dir
        /\ \A k \in Calls \ {c} : stack'[k] = stack[k]
    BY <2>1, PassEffect DEF Depth
  <2>3. cfg' = cfg /\ dir[c] = "in" /\ dir'[c] = "in"
        /\ inFlight' = IF Metered(c) THEN [inFlight EXCEPT ![ServiceOf(c)] = @ + 1] ELSE inFlight
    BY <1>2, <2>2 DEF Enters
  <2>4. \A k \in Calls \ {c} : Metering(k)' <=> Metering(k)
    BY <1>1, <2>2, <2>3
  <2> QED BY <1>0, <2>2, <2>3, <2>4 DEF GaugeMoves, Metering, Metered
<1>3. ASSUME NEW c \in Calls, Refuses(c) PROVE GaugeMoves(c)
  <2>1. PICK code \in Codes : Return(c, Status(code))
    BY <1>3 DEF Refuses
  <2>2. /\ cfg' = cfg /\ dir[c] = "in" /\ inFlight' = inFlight /\ Depth(c) > MapAt
        /\ Depth(c) > 0 /\ Depth(c) # 1
    BY <1>0, <1>3 DEF Refuses
  <2>3. /\ Depth(c)' = Depth(c) - 1 /\ dir'[c] = "out"
        /\ \A k \in Calls \ {c} : stack'[k] = stack[k] /\ dir'[k] = dir[k]
    BY <2>1, <2>2, ReturnEffect DEF Depth
  <2>4. \A k \in Calls \ {c} : Metering(k)' <=> Metering(k)
    BY <1>1, <2>2, <2>3
  <2> QED BY <1>0, <2>2, <2>3, <2>4 DEF GaugeMoves, Metering
<1>4. ASSUME NEW c \in Calls, Returns(c) PROVE GaugeMoves(c)
  <2>1. /\ cfg' = cfg /\ dir[c] = "out" /\ Depth(c) > 0
        /\ inFlight' = IF Metered(c) THEN [inFlight EXCEPT ![ServiceOf(c)] = @ - 1] ELSE inFlight
        /\ \E e : Return(c, e)
    BY <1>0, <1>4 DEF Returns
  <2>2. /\ Depth(c)' = Depth(c) - 1 /\ dir'[c] # "in"
        /\ \A k \in Calls \ {c} : stack'[k] = stack[k] /\ dir'[k] = dir[k]
    <3>1. PICK e : Return(c, e)
      BY <2>1
    <3>2. /\ Len(stack'[c]) = Depth(c) - 1 /\ dir'[c] = IF Depth(c) = 1 THEN "done" ELSE "out"
          /\ \A k \in Calls \ {c} : stack'[k] = stack[k] /\ dir'[k] = dir[k]
      BY <2>1, <3>1, ReturnEffect
    <3> QED BY <3>2 DEF Depth
  <2>3. \A k \in Calls \ {c} : Metering(k)' <=> Metering(k)
    BY <1>1, <2>1, <2>2
  <2> QED BY <1>0, <2>1, <2>2, <2>3 DEF GaugeMoves, Metering, Metered
<1>5. ASSUME NEW c \in Calls, Unwinds(c) PROVE GaugeMoves(c)
  <2>1. /\ cfg' = cfg /\ dir[c] = "panic" /\ Depth(c) > 0 /\ Unwind(c)
        /\ inFlight' = IF Metered(c) THEN [inFlight EXCEPT ![ServiceOf(c)] = @ - 1] ELSE inFlight
    BY <1>0, <1>5 DEF Unwinds
  <2>2. /\ Depth(c)' = Depth(c) - 1 /\ dir'[c] = "panic"
        /\ \A k \in Calls \ {c} : stack'[k] = stack[k] /\ dir'[k] = dir[k]
    BY <2>1, UnwindEffect DEF Depth
  <2>3. \A k \in Calls \ {c} : Metering(k)' <=> Metering(k)
    BY <1>1, <2>1, <2>2
  <2> QED BY <1>0, <2>1, <2>2, <2>3 DEF GaugeMoves, Metering, Metered
<1>6. ASSUME NEW c \in Calls, Catches(c) PROVE GaugeMoves(c)
  <2>1. /\ cfg' = cfg /\ dir[c] = "panic" /\ Depth(c) = 1 /\ Return(c, Status("Internal"))
        /\ inFlight' = inFlight
    BY <1>6 DEF Catches
  <2>2. /\ Depth(c)' = 0 /\ dir'[c] = "done"
        /\ \A k \in Calls \ {c} : stack'[k] = stack[k] /\ dir'[k] = dir[k]
    <3>1. /\ Len(stack'[c]) = Depth(c) - 1 /\ dir'[c] = "done"
          /\ \A k \in Calls \ {c} : stack'[k] = stack[k] /\ dir'[k] = dir[k]
      BY <2>1, ReturnEffect
    <3>2. Len(stack'[c]) = 0
      BY <2>1, <3>1
    <3> QED BY <3>1, <3>2 DEF Depth
  <2>3. \A k \in Calls \ {c} : Metering(k)' <=> Metering(k)
    BY <1>1, <2>1, <2>2
  <2> QED BY <1>0, <2>1, <2>2, <2>3 DEF GaugeMoves, Metering
<1>7. ASSUME NEW c \in Calls, Handle(c) PROVE GaugeMoves(c)
  <2>1. /\ dir[c] = "in" /\ Depth(c) = Len(Chain(c)) + 1 /\ Depth(c) > MapAt /\ Depth(c) > 0
        /\ Depth(c) # 1
        /\ cfg' = cfg /\ inFlight' = inFlight
        /\ (\E e : Return(c, e)) \/ Unwind(c)
    BY <1>0, <1>7 DEF Handle, HandlerReturn, HandlerPanic, Free, InHandler, told
  <2>2. /\ Depth(c)' = Depth(c) - 1 /\ dir'[c] # "in"
        /\ \A k \in Calls \ {c} : stack'[k] = stack[k] /\ dir'[k] = dir[k]
    BY <2>1, ReturnEffect, UnwindEffect DEF Depth
  <2>3. \A k \in Calls \ {c} : Metering(k)' <=> Metering(k)
    BY <1>1, <2>1, <2>2
  <2> QED BY <1>0, <2>1, <2>2, <2>3 DEF GaugeMoves, Metering
<1>8. ASSUME Deliver PROVE \E c \in Calls : GaugeMoves(c)
  <2>1. PICK c \in Calls :
          /\ dir[c] = "idle"
          /\ stack' = [stack EXCEPT ![c] = <<Background(req[c])>>]
          /\ dir' = [dir EXCEPT ![c] = "in"] /\ cfg' = cfg /\ inFlight' = inFlight
    BY <1>8, DeliverFlow DEF Calls
  <2>2. /\ stack[c] = <<>> /\ stack'[c] = <<Background(req[c])>> /\ dir'[c] = "in"
        /\ \A k \in Calls \ {c} : stack'[k] = stack[k] /\ dir'[k] = dir[k]
    BY <2>1 DEF FlowInv
  <2>3. Depth(c) = 0 /\ Depth(c)' = 1
    BY <2>2 DEF Depth
  <2>4. \A k \in Calls \ {c} : Metering(k)' <=> Metering(k)
    BY <1>1, <2>1, <2>2
  <2> QED BY <2>1, <2>2, <2>3, <2>4 DEF GaugeMoves, Metering
<1>9. CASE ClientMoves
  <2>1. UNCHANGED <<cfg, stack, dir, inFlight>>
    BY <1>9 DEF ClientMoves
  <2> QED BY <2>1 DEF GaugeExact, Depth
<1> QED BY <1>2, <1>3, <1>4, <1>5, <1>6, <1>7, <1>8, <1>9, Steps, GaugeStaysExact

\* The gauge requests_in_flight always counts the calls inside the metrics interceptor:
\* no panic, refusal, retry or abandoned attempt makes it drift (metrics.go).
THEOREM GaugeNeverDrifts == Spec => []GaugeExact
<1>1. Init => GaugeExact
  <2> SUFFICES ASSUME Init PROVE GaugeExact
    OBVIOUS
  <2>1. FlowInv
    BY InitFlow
  <2>2. \A c \in Calls : ~ Metering(c)
    <3> TAKE c \in Calls
    <3>1. stack[c] = <<>> \/ \E first \in Requests : stack[c] = <<Background(first)>>
      BY DEF Init
    <3>2. (\A x : Len(<<x>>) = 1) /\ Len(<<>>) = 0
      OBVIOUS
    <3>3. Len(stack[c]) \in {0, 1}
      <4>1. CASE stack[c] = <<>>
        BY <4>1
      <4>2. CASE \E x : stack[c] = <<x>>
        BY <4>2, <3>2
      <4> QED BY <3>1, <4>1, <4>2
    <3>4. ~ (Depth(c) >= 4) /\ ~ (Depth(c) >= 5)
      <4>1. \A n \in {0, 1} : ~ (n >= 4) /\ ~ (n >= 5)
        OBVIOUS
      <4> QED BY <3>3, <4>1 DEF Depth
    <3> QED BY <3>4 DEF Metering
  <2>3. \A s : MeteredCalls(s) = {}
    BY <2>2 DEF MeteredCalls
  <2> QED BY <2>3, FS_EmptySet DEF Init, GaugeExact, MeteredCalls, Metering
<1>2. FlowInv /\ GaugeExact /\ [Next]_vars => FlowInv' /\ GaugeExact'
  BY Steps, StepGauge
<1> QED BY <1>1, <1>2, InitFlow, PTL DEF Spec
\* The records stay what the interceptors expect of each other, and the gauge stays
\* between nothing and the number of calls.
THEOREM TypesHold == Spec => []TypeOK
<1>1. FlowInv /\ GaugeExact => TypeOK
  <2> SUFFICES ASSUME FlowInv, GaugeExact PROVE TypeOK
    OBVIOUS
  <2>1. inFlight \in [Services -> 0 .. Cardinality(Calls)]
    <3>1. IsFiniteSet(Calls)
      BY CallsFinite
    <3>2. ASSUME NEW s \in Services PROVE inFlight[s] \in 0 .. Cardinality(Calls)
      <4>1. MeteredCalls(s) \subseteq Calls
        BY DEF MeteredCalls
      <4>2. /\ IsFiniteSet(MeteredCalls(s))
            /\ Cardinality(MeteredCalls(s)) <= Cardinality(Calls)
        BY <3>1, <4>1, FS_Subset
      <4>3. Cardinality(MeteredCalls(s)) \in Nat /\ Cardinality(Calls) \in Nat
        BY <3>1, <4>2, FS_CardinalityType
      <4>4. inFlight[s] = Cardinality(MeteredCalls(s))
        BY DEF GaugeExact, MeteredCalls, Metering
      <4> QED BY <4>2, <4>3, <4>4
    <3> QED BY <3>2 DEF FlowInv
  <2>2. \A c \in Calls : \A i \in 1 .. Depth(c) : stack[c][i] \in Context
    BY StackMoves
  <2> QED BY <2>1, <2>2 DEF FlowInv, TypeOK
<1>2. FlowInv /\ [Next]_vars => FlowInv'
  BY Steps
<1> QED BY <1>1, <1>2, InitFlow, GaugeNeverDrifts, PTL DEF Spec

-------------------------------------------------------------------------------
(* What the attempts of the inner call carry *)

\* The client has handed the attempt to the network.
Sent(c) == dir[c] # "idle" \/ (c = down.call /\ down.state \in {"sending", "waiting"})

\* What a step says about the metadata of an attempt that is under way after it: it
\* was under way before, it is the first one and its handler has just made the call,
\* or it repeats one that was under way.
Follows(c) ==
    \/ Sent(c) /\ req'[c] = req[c]
    \/ InHandler(Edge) /\ req'[c].id = OutgoingId(Top(Edge))
                       /\ req'[c].authorization = OutgoingAuthorization
    \/ down.call \in Attempts /\ Sent(down.call) /\ req'[c] = req[down.call]

\* No step changes what a server has read of a call.
LEMMA StepSent ==
  ASSUME FlowInv, [Next]_vars
  PROVE  /\ cfg' = cfg /\ req'[Edge] = req[Edge]
         /\ \A c \in Calls : dir[c] # "idle" => req'[c] = req[c]
         /\ \A c \in Attempts : Sent(c)' => Follows(c)
<1>0. Edge \in Calls /\ Attempts \subseteq Calls
  BY DEF Calls
<1>1. ASSUME cfg' = cfg, req' = req, down' = down,
             \A c \in Calls : dir'[c] # "idle" => dir[c] # "idle"
      PROVE  /\ cfg' = cfg /\ req'[Edge] = req[Edge]
             /\ \A c \in Calls : dir[c] # "idle" => req'[c] = req[c]
             /\ \A c \in Attempts : Sent(c)' => Follows(c)
  BY <1>0, <1>1 DEF Sent, Follows
<1>2. ASSUME NEW c \in Calls, Enters(c) \/ Refuses(c) \/ Returns(c) \/ Unwinds(c) \/ Catches(c)
      PROVE  /\ cfg' = cfg /\ req' = req /\ down' = down
             /\ \A k \in Calls : dir'[k] # "idle" => dir[k] # "idle"
  <2>1. cfg' = cfg /\ req' = req /\ down' = down /\ dir[c] # "idle"
    BY <1>2 DEF Enters, Refuses, Returns, Unwinds, Catches
  <2>2. (\E ctx : Pass(c, ctx)) \/ (\E e : Return(c, e)) \/ Unwind(c)
    BY <1>2 DEF Enters, Refuses, Returns, Unwinds, Catches
  <2>3. dir' = dir \/ \E d : dir' = [dir EXCEPT ![c] = d]
    BY <2>2 DEF Pass, Return, Unwind
  <2> QED BY <2>1, <2>3 DEF FlowInv
<1>3. ASSUME NEW c \in Calls, Handle(c)
      PROVE  /\ cfg' = cfg /\ req' = req /\ down' = down
             /\ \A k \in Calls : dir'[k] # "idle" => dir[k] # "idle"
  <2>1. cfg' = cfg /\ req' = req /\ down' = down /\ dir[c] # "idle"
    BY <1>3 DEF Handle, HandlerReturn, HandlerPanic, Free, InHandler
  <2>2. (\E e : Return(c, e)) \/ Unwind(c)
    BY <1>3 DEF Handle, HandlerReturn, HandlerPanic
  <2>3. \E d : dir' = [dir EXCEPT ![c] = d]
    BY <2>2 DEF Return, Unwind
  <2> QED BY <2>1, <2>3 DEF FlowInv
<1>4. CASE Deliver
  <2>1. /\ cfg' = cfg /\ req' = req /\ down.state = "sending" /\ down.call \in Attempts
        /\ down'.call = down.call /\ dir' = [dir EXCEPT ![down.call] = "in"]
    BY <1>4, DeliverFlow
  <2>2. \A c \in Calls : c # down.call => dir'[c] = dir[c]
    BY <2>1 DEF FlowInv
  <2> QED BY <1>0, <2>1, <2>2 DEF Sent, Follows
<1>5. CASE ClientMoves
  <2>1. /\ cfg' = cfg /\ dir' = dir /\ req'[Edge] = req[Edge]
        /\ \A c \in Calls : dir[c] # "idle" => req'[c] = req[c]
    BY <1>5 DEF ClientMoves
  <2>2. ASSUME NEW c \in Attempts, Sent(c)' PROVE Follows(c)
    <3>1. CASE dir[c] # "idle"
      BY <1>0, <2>1, <3>1 DEF Sent, Follows
    <3>2. CASE dir[c] = "idle" /\ down'.state = "waiting"
      <4>1. c = down.call /\ down.state = "waiting"
        BY <1>5, <2>1, <2>2, <3>2 DEF Sent, ClientMoves
      <4> QED BY <1>5, <3>2, <4>1 DEF ClientMoves, Sent, Follows
    <3>3. CASE dir[c] = "idle" /\ down'.state # "waiting"
      <4>1. c = down'.call /\ down'.state = "sending"
        BY <2>1, <2>2, <3>3 DEF Sent
      <4>2. \/ c = down.call /\ down.state = "sending" /\ req'[c] = req[c]
            \/ InHandler(Edge) /\ req'[c].id = OutgoingId(Top(Edge))
                               /\ req'[c].authorization = OutgoingAuthorization
            \/ /\ down.call \in Attempts /\ down.state \in {"sending", "waiting"}
               /\ req'[c] = req[down.call]
        BY <1>5, <4>1 DEF ClientMoves
      <4> QED BY <4>2 DEF Sent, Follows
    <3> QED BY <3>1, <3>2, <3>3
  <2> QED BY <2>1, <2>2
<1> QED BY <1>1, <1>2, <1>3, <1>4, <1>5, Steps
-------------------------------------------------------------------------------
(* One request id *)

RootId == RequestIdOf(Edge)

\* The call has passed withRequestID.
Identified(c) == dir[c] \in {"out", "panic", "done"} \/ (dir[c] = "in" /\ Depth(c) >= 3)

Named(c) ==
    /\ \A i \in 1 .. Depth(c) : stack[c][i].id = IF i <= 2 THEN Absent ELSE RootId
    /\ Identified(c) => header[c] = RootId

\* The interceptors outside of withRequestID know no id and all others the same one; so
\* do the answers and the attempts of the inner call.
IdInv ==
    /\ \A c \in Calls : Named(c)
    /\ \A c \in Attempts : Sent(c) => req[c].id = RootId
    /\ \A line \in log : line.id = IF line.what = "panic" THEN Absent ELSE RootId

\* A call that a server has read is given that id.
LEMMA IdIsRoot ==
  ASSUME FlowInv, IdInv, NEW c \in Calls, dir[c] # "idle"
  PROVE  RequestIdOf(c) = RootId /\ RootId # Absent
<1>1. ToString(Edge) # Absent
  BY RpcAssumption DEF Calls
<1>2. RootId # Absent
  BY <1>1 DEF RootId, RequestIdOf
<1>3. CASE c = Edge
  BY <1>2, <1>3 DEF RootId
<1>4. CASE c # Edge
  <2>1. c \in Attempts /\ Sent(c)
    BY <1>4 DEF Calls, Sent
  <2>2. req[c].id = RootId
    BY <2>1 DEF IdInv
  <2> QED BY <1>2, <2>2 DEF RequestIdOf
<1> QED BY <1>3, <1>4

\* The context on top of a stack.
LEMMA TopId ==
  ASSUME FlowInv, NEW c \in Calls, Named(c), Depth(c) > 0
  PROVE  Top(c).id = IF Depth(c) <= 2 THEN Absent ELSE RootId
<1>1. Depth(c) \in Nat
  BY StackMoves
<1>2. Depth(c) \in 1 .. Depth(c)
  BY <1>1
<1> QED BY <1>2 DEF Named, Top

\* Every step preserves it.
LEMMA StepId ==
  ASSUME FlowInv, IdInv, [Next]_vars
  PROVE  IdInv'
<1>0. /\ cfg \in Configs /\ MapAt \in {4, 5} /\ Edge \in Calls /\ Attempts \subseteq Calls
      /\ \A c \in Calls : Depth(c) \in Nat /\ Len(Chain(c)) \in Nat /\ MapAt <= Len(Chain(c))
  BY StackMoves, ChainShape DEF FlowInv, MapAt, Calls
<1>1. RootId' = RootId
  BY StepSent DEF RootId, RequestIdOf
<1>2. \A c \in Calls : Named(c)
  BY DEF IdInv
<1>3. ASSUME NEW c \in Calls, stack'[c] = stack[c], dir'[c] = dir[c], header'[c] = header[c]
      PROVE  Named(c)'
  <2>1. Depth(c)' = Depth(c) /\ (Identified(c)' <=> Identified(c)) /\ Named(c)
    BY <1>2, <1>3 DEF Depth, Identified
  <2> QED BY <1>1, <1>3, <2>1 DEF Named
<1>4. \A c \in Attempts : Sent(c)' => req'[c].id = RootId
  <2> SUFFICES ASSUME NEW c \in Attempts, Sent(c)' PROVE req'[c].id = RootId
    OBVIOUS
  <2>1. CASE Sent(c) /\ req'[c] = req[c]
    BY <2>1 DEF IdInv
  <2>2. CASE InHandler(Edge) /\ req'[c].id = OutgoingId(Top(Edge))
    <3>1. Depth(Edge) > 0 /\ ~ (Depth(Edge) <= 2)
      BY <1>0, <2>2 DEF InHandler
    <3> QED BY <1>0, <1>2, <2>2, <3>1, TopId DEF OutgoingId
  <2>3. CASE down.call \in Attempts /\ Sent(down.call) /\ req'[c] = req[down.call]
    BY <2>3 DEF IdInv
  <2> QED BY <2>1, <2>2, <2>3, StepSent DEF Follows
<1>5. ASSUME \A c \in Calls : Named(c)',
             \A line \in log' : \/ line \in log
                                \/ line.id = IF line.what = "panic" THEN Absent ELSE RootId
      PROVE  IdInv'
  BY <1>1, <1>4, <1>5 DEF IdInv
<1>6. ASSUME NEW c \in Calls, Named(c)', header' = header,
             \A k \in Calls \ {c} : stack'[k] = stack[k] /\ dir'[k] = dir[k]
      PROVE  \A k \in Calls : Named(k)'
  BY <1>3, <1>6
<1>7. ASSUME NEW c \in Calls, NEW topics, Notes(c, topics),
             ("panic" \notin topics /\ Depth(c) > 2) \/ (topics = {"panic"} /\ Depth(c) = 1)
      PROVE  \A line \in log' : \/ line \in log
                                \/ line.id = IF line.what = "panic" THEN Absent ELSE RootId
  <2>1. Depth(c) > 0 /\ (Depth(c) > 2 => ~ (Depth(c) <= 2)) /\ (Depth(c) = 1 => Depth(c) <= 2)
    BY <1>0, <1>7
  <2>2. Top(c).id = IF Depth(c) <= 2 THEN Absent ELSE RootId
    BY <1>2, <2>1, TopId
  <2> QED BY <1>7, <2>1, <2>2 DEF Notes
<1>8. ASSUME NEW c \in Calls, dir[c] # "idle", Depth(c) > 0, header' = header,
             Len(stack'[c]) = Depth(c) - 1, \A i \in 1 .. Depth(c) - 1 : stack'[c][i] = stack[c][i],
             dir'[c] # "in", Identified(c)
      PROVE  Named(c)'
  <2>1. Depth(c)' = Depth(c) - 1 /\ header'[c] = RootId
    BY <1>2, <1>8 DEF Depth, Named
  <2>2. \A i \in 1 .. Depth(c) - 1 : i \in 1 .. Depth(c)
    BY <1>0
  <2>3. \A i \in 1 .. Depth(c) - 1 : stack'[c][i].id = IF i <= 2 THEN Absent ELSE RootId
    BY <1>2, <1>8, <2>2 DEF Named
  <2> QED BY <1>1, <2>1, <2>3 DEF Named
<1>9. ASSUME NEW c \in Calls, Enters(c) PROVE IdInv'
  <2>1. PICK ctx \in Context :
          Pass(c, ctx) /\ ctx.id = IF Depth(c) = 2 THEN RequestIdOf(c) ELSE Top(c).id
    BY <1>9 DEF Enters
  <2>2. /\ Depth(c)' = Depth(c) + 1 /\ dir' = dir
        /\ \A i \in 1 .. Depth(c) : stack'[c][i] = stack[c][i]
        /\ stack'[c][Depth(c) + 1] = ctx
        /\ \A k \in Calls \ {c} : stack'[k] = stack[k]
    BY <2>1, PassEffect DEF Depth
  <2>3. /\ dir[c] = "in" /\ Depth(c) > 0 /\ Depth(c) \in Nat
        /\ header' = IF Depth(c) = 2 THEN [header EXCEPT ![c] = RequestIdOf(c)] ELSE header
        /\ log' = log \/ (Depth(c) > MapAt /\ Notes(c, {"limiter"}))
    BY <1>0, <1>9 DEF Enters
  <2>4. RequestIdOf(c) = RootId /\ Top(c).id = IF Depth(c) <= 2 THEN Absent ELSE RootId
    BY <1>2, <2>3, IdIsRoot, TopId
  <2>5. ctx.id = IF Depth(c) + 1 <= 2 THEN Absent ELSE RootId
    BY <2>1, <2>3, <2>4
  <2>6. \A i \in 1 .. Depth(c) + 1 : stack'[c][i].id = IF i <= 2 THEN Absent ELSE RootId
    <3> SUFFICES ASSUME NEW i \in 1 .. Depth(c) + 1
                 PROVE  stack'[c][i].id = IF i <= 2 THEN Absent ELSE RootId
      OBVIOUS
    <3>1. CASE i = Depth(c) + 1
      BY <2>2, <2>5, <3>1
    <3>2. CASE i \in 1 .. Depth(c)
      BY <1>2, <2>2, <3>2 DEF Named
    <3> QED BY <2>3, <3>1, <3>2
  <2>7. Identified(c)' => header'[c] = RootId
    <3>1. CASE Depth(c) = 2
      BY <2>3, <2>4, <3>1 DEF FlowInv
    <3>2. CASE Depth(c) # 2
      <4>1. Identified(c)' => Identified(c)
        BY <2>2, <2>3, <3>2 DEF Identified
      <4> QED BY <1>2, <2>3, <3>2, <4>1 DEF Named
    <3> QED BY <3>1, <3>2
  <2>8. Named(c)'
    BY <1>1, <2>2, <2>6, <2>7 DEF Named
  <2>9. \A k \in Calls \ {c} : header'[k] = header[k] /\ dir'[k] = dir[k]
    BY <2>2, <2>3 DEF FlowInv
  <2>10. \A k \in Calls : Named(k)'
    BY <1>3, <2>2, <2>8, <2>9
  <2>11. Depth(c) > MapAt => Depth(c) > 2
    BY <1>0
  <2> QED BY <1>5, <1>7, <2>3, <2>10, <2>11
<1>10. ASSUME NEW c \in Calls, Refuses(c) PROVE IdInv'
  <2>1. PICK code \in Codes : Return(c, Status(code))
    BY <1>10 DEF Refuses
  <2>2. /\ dir[c] = "in" /\ header' = header /\ Depth(c) > 2 /\ Depth(c) > 0 /\ Depth(c) # 1
        /\ Notes(c, {"auth", "internal", "limit"}) /\ Identified(c)
    BY <1>0, <1>10 DEF Refuses, Identified
  <2>3. /\ Len(stack'[c]) = Depth(c) - 1 /\ dir'[c] = "out"
        /\ \A i \in 1 .. Depth(c) - 1 : stack'[c][i] = stack[c][i]
        /\ \A k \in Calls \ {c} : stack'[k] = stack[k] /\ dir'[k] = dir[k]
    BY <2>1, <2>2, ReturnEffect
  <2>4. \A k \in Calls : Named(k)'
    BY <1>6, <1>8, <2>2, <2>3
  <2> QED BY <1>5, <1>7, <2>2, <2>4
<1>11. ASSUME NEW c \in Calls, Returns(c) PROVE IdInv'
  <2>1. /\ dir[c] = "out" /\ header' = header /\ Depth(c) > 0 /\ Identified(c)
        /\ log' = log \/ (Depth(c) = 3 /\ log' = log \cup {Line(c, "request", Top(c), err[c])})
    BY <1>0, <1>11 DEF Returns, Identified
  <2>2. PICK e : Return(c, e)
    BY <1>11 DEF Returns
  <2>3. /\ Len(stack'[c]) = Depth(c) - 1 /\ dir'[c] # "in"
        /\ \A i \in 1 .. Depth(c) - 1 : stack'[c][i] = stack[c][i]
        /\ \A k \in Calls \ {c} : stack'[k] = stack[k] /\ dir'[k] = dir[k]
    BY <2>1, <2>2, ReturnEffect
  <2>4. \A k \in Calls : Named(k)'
    BY <1>6, <1>8, <2>1, <2>3
  <2>5. \A line \in log' : line \in log \/ line.id = IF line.what = "panic" THEN Absent ELSE RootId
    <3>1. CASE Depth(c) = 3 /\ log' = log \cup {Line(c, "request", Top(c), err[c])}
      <4>1. Top(c).id = RootId
        BY <1>2, <2>1, <3>1, TopId
      <4> QED BY <3>1, <4>1 DEF Line
    <3> QED BY <2>1, <3>1
  <2> QED BY <1>5, <2>4, <2>5
<1>12. ASSUME NEW c \in Calls, Unwinds(c) PROVE IdInv'
  <2>1. /\ dir[c] = "panic" /\ header' = header /\ Depth(c) > 0 /\ Identified(c)
        /\ log' = log /\ Unwind(c)
    BY <1>0, <1>12 DEF Unwinds, Identified
  <2>2. /\ Len(stack'[c]) = Depth(c) - 1 /\ dir'[c] # "in"
        /\ \A i \in 1 .. Depth(c) - 1 : stack'[c][i] = stack[c][i]
        /\ \A k \in Calls \ {c} : stack'[k] = stack[k] /\ dir'[k] = dir[k]
    BY <2>1, UnwindEffect
  <2>3. \A k \in Calls : Named(k)'
    BY <1>6, <1>8, <2>1, <2>2
  <2> QED BY <1>5, <2>1, <2>3
<1>13. ASSUME NEW c \in Calls, Catches(c) PROVE IdInv'
  <2>1. /\ dir[c] = "panic" /\ header' = header /\ Depth(c) = 1 /\ Depth(c) > 0 /\ Identified(c)
        /\ Notes(c, {"panic"}) /\ Return(c, Status("Internal"))
    BY <1>13 DEF Catches, Identified
  <2>2. /\ Len(stack'[c]) = Depth(c) - 1 /\ dir'[c] # "in"
        /\ \A i \in 1 .. Depth(c) - 1 : stack'[c][i] = stack[c][i]
        /\ \A k \in Calls \ {c} : stack'[k] = stack[k] /\ dir'[k] = dir[k]
    BY <2>1, ReturnEffect
  <2>3. \A k \in Calls : Named(k)'
    BY <1>6, <1>8, <2>1, <2>2
  <2> QED BY <1>5, <1>7, <2>1, <2>3
<1>14. ASSUME NEW c \in Calls, Handle(c) PROVE IdInv'
  <2>1. /\ dir[c] = "in" /\ header' = header /\ Depth(c) > 2 /\ Depth(c) > 0 /\ Depth(c) # 1
        /\ log' = log /\ Identified(c) /\ ((\E e : Return(c, e)) \/ Unwind(c))
    BY <1>0, <1>14 DEF Handle, HandlerReturn, HandlerPanic, Free, InHandler, told, Identified
  <2>2. /\ Len(stack'[c]) = Depth(c) - 1 /\ dir'[c] # "in"
        /\ \A i \in 1 .. Depth(c) - 1 : stack'[c][i] = stack[c][i]
        /\ \A k \in Calls \ {c} : stack'[k] = stack[k] /\ dir'[k] = dir[k]
    BY <2>1, ReturnEffect, UnwindEffect
  <2>3. \A k \in Calls : Named(k)'
    BY <1>6, <1>8, <2>1, <2>2
  <2> QED BY <1>5, <2>1, <2>3
<1>15. CASE Deliver
  <2>1. PICK c \in Calls :
          /\ dir[c] = "idle"
          /\ stack' = [stack EXCEPT ![c] = <<Background(req[c])>>]
          /\ dir' = [dir EXCEPT ![c] = "in"] /\ header' = header
    BY <1>15, DeliverFlow DEF Calls
  <2>2. /\ stack'[c] = <<Background(req[c])>> /\ dir'[c] = "in"
        /\ \A k \in Calls \ {c} : stack'[k] = stack[k] /\ dir'[k] = dir[k]
    BY <2>1 DEF FlowInv
  <2>3. Depth(c)' = 1 /\ stack'[c][1].id = Absent
    BY <2>2 DEF Depth, Background
  <2>4. Named(c)'
    BY <1>1, <2>2, <2>3 DEF Named, Identified
  <2>5. Top(Edge).id = RootId
    <3>1. InHandler(Edge)
      BY <1>15, DeliverFlow
    <3>2. Depth(Edge) > 0 /\ ~ (Depth(Edge) <= 2)
      BY <1>0, <3>1 DEF InHandler
    <3> QED BY <1>0, <1>2, <3>2, TopId
  <2>6. \A line \in log' : line \in log \/ (line.what = "call" /\ line.id = RootId)
    BY <1>15, <2>5, DeliverFlow
  <2>7. \A k \in Calls : Named(k)'
    BY <1>6, <2>1, <2>2, <2>4
  <2> QED BY <1>5, <2>6, <2>7
<1>16. CASE ClientMoves
  <2>1. /\ UNCHANGED <<stack, dir, header>>
        /\ \A line \in log' : \/ line \in log
                              \/ /\ InHandler(Edge) /\ line.what = "call" /\ line.id = Top(Edge).id
    BY <1>16 DEF ClientMoves
  <2>2. InHandler(Edge) => Top(Edge).id = RootId
    <3>1. InHandler(Edge) => Depth(Edge) > 0 /\ ~ (Depth(Edge) <= 2)
      BY <1>0 DEF InHandler
    <3> QED BY <1>0, <1>2, <3>1, TopId
  <2>3. \A c \in Calls : Named(c)'
    BY <1>3, <2>1
  <2> QED BY <1>5, <2>1, <2>2, <2>3
<1> QED BY <1>9, <1>10, <1>11, <1>12, <1>13, <1>14, <1>15, <1>16, Steps

\* A request has been given no id yet.
LEMMA InitId == Init => IdInv
<1> SUFFICES ASSUME Init PROVE IdInv
  OBVIOUS
<1>1. log = {} /\ dir = [c \in Calls |-> IF c = Edge THEN "in" ELSE "idle"] /\ down.state = "none"
  BY DEF Init, NoDown
<1>2. \A c \in Attempts : ~ Sent(c)
  <2>1. \A c \in Attempts : c \in Calls /\ c # Edge
    BY RpcAssumption DEF Attempts, Calls, Edge
  <2> QED BY <1>1, <2>1 DEF Sent
<1>3. ASSUME NEW c \in Calls PROVE Named(c)
  <2>1. stack[c] = <<>> \/ \E r \in Requests : stack[c] = <<Background(r)>>
    BY DEF Init
  <2>2. CASE stack[c] = <<>>
    <3>1. Depth(c) = 0
      BY <2>2 DEF Depth
    <3> QED BY <1>1, <3>1 DEF Named, Identified
  <2>3. CASE \E r \in Requests : stack[c] = <<Background(r)>>
    <3>1. PICK r : stack[c] = <<Background(r)>>
      BY <2>3
    <3>2. Depth(c) = 1 /\ stack[c][1].id = Absent
      BY <3>1 DEF Depth, Background
    <3> QED BY <1>1, <3>2 DEF Named, Identified
  <2> QED BY <2>1, <2>2, <2>3
<1> QED BY <1>1, <1>2, <1>3 DEF IdInv

\* Everything that is written about a request in both services, and every answer,
\* carries the same id: through retries, abandoned attempts and panics (requestid.go,
\* interceptors.go).
THEOREM OneIdEverywhere == Spec => []OneRequestId
<1>1. FlowInv /\ IdInv /\ [Next]_vars => FlowInv' /\ IdInv'
  BY Steps, StepId
<1>2. IdInv => OneRequestId
  BY DEF IdInv, Named, Identified, OneRequestId, RootId
<1> QED BY <1>1, <1>2, InitFlow, InitId, PTL DEF Spec
-------------------------------------------------------------------------------
(* Who a handler acts for *)

\* What it says of a caller that a call is past an interceptor of its chain.
Passed(c, name) ==
    /\ name = "internal" /\ req[c].method \in InternalMethods =>
         cfg.configured /\ Presented(c) = "service"
    /\ name = "auth" /\ req[c].method \notin PublicMethods =>
         /\ cfg.configured
         /\ Presented(c) \in AccessTokens \/ (cfg.optional /\ Presented(c) \notin BearerTokens)
    /\ name = "role" => \E role \in RequiredRoles : HasRole(Presented(c), role)

\* The claims in a context are those of the token the call came with, if there are any,
\* and every interceptor that the call has passed was right to let it pass.
Vouched(c) ==
    /\ \A i \in 1 .. Depth(c) : stack[c][i].claims \in {Absent, Presented(c)}
    /\ dir[c] = "in" => \A i \in 1 .. Depth(c) - 1 : Passed(c, Chain(c)[i])

\* A step of another call changes nothing of it.
LEMMA VouchedStays ==
  ASSUME FlowInv, [Next]_vars, NEW c \in Calls, Vouched(c), stack'[c] = stack[c], dir'[c] = dir[c]
  PROVE  Vouched(c)'
<1>1. cfg' = cfg /\ Depth(c)' = Depth(c) /\ Chain(c)' = Chain(c)
  BY StepSent, Unmoved DEF Depth
<1>2. CASE dir[c] = "idle"
  <2>1. Depth(c)' = 0 /\ dir'[c] # "in"
    BY <1>1, <1>2 DEF FlowInv, Depth
  <2> QED BY <2>1 DEF Vouched
<1>3. CASE dir[c] # "idle"
  <2>1. req'[c] = req[c]
    BY <1>3, StepSent
  <2>2. Presented(c)' = Presented(c) /\ \A name : Passed(c, name)' <=> Passed(c, name)
    BY <1>1, <2>1 DEF Presented, Passed
  <2> QED BY <1>1, <2>2 DEF Vouched
<1> QED BY <1>2, <1>3

\* The same when a function of the call has ended.
LEMMA VouchedLeaves ==
  ASSUME FlowInv, [Next]_vars, NEW c \in Calls, Vouched(c), dir[c] # "idle", Depth(c) > 0,
         Len(stack'[c]) = Depth(c) - 1, dir'[c] # "in",
         \A i \in 1 .. Depth(c) - 1 : stack'[c][i] = stack[c][i]
  PROVE  Vouched(c)'
<1>1. Depth(c) \in Nat /\ Depth(c)' = Depth(c) - 1
  BY StackMoves DEF Depth
<1>2. Presented(c)' = Presented(c)
  BY StepSent DEF Presented
<1>3. \A i \in 1 .. Depth(c) - 1 : i \in 1 .. Depth(c)
  BY <1>1
<1> QED BY <1>1, <1>2, <1>3 DEF Vouched

\* Every step preserves it.
LEMMA StepVouched ==
  ASSUME FlowInv, \A c \in Calls : Vouched(c), [Next]_vars
  PROVE  \A c \in Calls : Vouched(c)'
<1>0. /\ cfg \in Configs /\ MapAt \in {4, 5}
      /\ \A c \in Calls : Depth(c) \in Nat /\ Len(Chain(c)) \in Nat /\ MapAt <= Len(Chain(c))
  BY StackMoves, ChainShape DEF FlowInv, MapAt
<1>1. ASSUME NEW c \in Calls, Vouched(c)',
             \A k \in Calls \ {c} : stack'[k] = stack[k] /\ dir'[k] = dir[k]
      PROVE  \A k \in Calls : Vouched(k)'
  BY <1>1, VouchedStays
<1>2. ASSUME NEW c \in Calls, Enters(c) PROVE \A k \in Calls : Vouched(k)'
  <2>1. PICK ctx \in Context : Pass(c, ctx) /\ Admits(c, Chain(c)[Depth(c)], ctx)
    BY <1>2 DEF Enters
  <2>2. /\ Depth(c)' = Depth(c) + 1 /\ dir' = dir
        /\ \A i \in 1 .. Depth(c) : stack'[c][i] = stack[c][i]
        /\ stack'[c][Depth(c) + 1] = ctx
        /\ \A k \in Calls \ {c} : stack'[k] = stack[k]
    BY <2>1, PassEffect DEF Depth
  <2>3. /\ dir[c] = "in" /\ Depth(c) > 0 /\ Depth(c) \in Nat /\ Depth(c) \in 1 .. Depth(c)
        /\ cfg' = cfg /\ req'[c] = req[c] /\ Vouched(c)
    BY <1>0, <1>2, StepSent DEF Enters
  <2>4. Top(c).claims \in {Absent, Presented(c)}
    BY <2>3 DEF Vouched, Top
  <2>5. ctx.claims \in {Absent, Presented(c)}
    BY <2>1, <2>4 DEF Admits
  <2>6. \A role : ~ HasRole(Absent, role)
    BY DEF HasRole, Roles, Absent
  <2>7. Passed(c, Chain(c)[Depth(c)])
    BY <2>1, <2>4, <2>6 DEF Admits, Passed
  <2>8. /\ Chain(c)' = Chain(c) /\ Presented(c)' = Presented(c)
        /\ \A name : Passed(c, name)' <=> Passed(c, name)
    BY <2>3, Unmoved DEF Presented, Passed
  <2>9. \A i \in 1 .. Depth(c) + 1 : stack'[c][i].claims \in {Absent, Presented(c)}
    <3> SUFFICES ASSUME NEW i \in 1 .. Depth(c) + 1
                 PROVE  stack'[c][i].claims \in {Absent, Presented(c)}
      OBVIOUS
    <3>1. CASE i = Depth(c) + 1
      BY <2>2, <2>5, <3>1
    <3>2. CASE i \in 1 .. Depth(c)
      BY <2>2, <2>3, <3>2 DEF Vouched
    <3> QED BY <2>3, <3>1, <3>2
  <2>10. \A i \in 1 .. Depth(c) : Passed(c, Chain(c)[i])
    <3> SUFFICES ASSUME NEW i \in 1 .. Depth(c) PROVE Passed(c, Chain(c)[i])
      OBVIOUS
    <3>1. CASE i = Depth(c)
      BY <2>7, <3>1
    <3>2. CASE i \in 1 .. Depth(c) - 1
      BY <2>3, <3>2 DEF Vouched
    <3> QED BY <2>3, <3>1, <3>2
  <2>11. Depth(c)' - 1 = Depth(c)
    BY <2>2, <2>3
  <2>12. Vouched(c)'
    BY <2>2, <2>8, <2>9, <2>10, <2>11 DEF Vouched
  <2> QED BY <1>1, <2>2, <2>12
<1>3. ASSUME NEW c \in Calls, Refuses(c) \/ Returns(c) \/ Unwinds(c) \/ Catches(c) \/ Handle(c)
      PROVE  \A k \in Calls : Vouched(k)'
  <2>1. /\ dir[c] # "idle" /\ Depth(c) > 0 /\ ((\E e : Return(c, e)) \/ Unwind(c))
    <3>1. CASE Refuses(c) \/ Returns(c) \/ Unwinds(c) \/ Catches(c)
      BY <1>0, <3>1 DEF Refuses, Returns, Unwinds, Catches
    <3>2. CASE Handle(c)
      BY <1>0, <3>2 DEF Handle, HandlerReturn, HandlerPanic, Free, InHandler
    <3> QED BY <1>3, <3>1, <3>2
  <2>2. /\ Len(stack'[c]) = Depth(c) - 1 /\ dir'[c] # "in"
        /\ \A i \in 1 .. Depth(c) - 1 : stack'[c][i] = stack[c][i]
        /\ \A k \in Calls \ {c} : stack'[k] = stack[k] /\ dir'[k] = dir[k]
    BY <2>1, ReturnEffect, UnwindEffect
  <2>3. Vouched(c)'
    BY <2>1, <2>2, VouchedLeaves
  <2> QED BY <1>1, <2>2, <2>3
<1>4. CASE Deliver
  <2>1. PICK c \in Calls :
          /\ dir[c] = "idle"
          /\ stack' = [stack EXCEPT ![c] = <<Background(req[c])>>]
          /\ dir' = [dir EXCEPT ![c] = "in"]
    BY <1>4, DeliverFlow DEF Calls
  <2>2. /\ stack'[c] = <<Background(req[c])>>
        /\ \A k \in Calls \ {c} : stack'[k] = stack[k] /\ dir'[k] = dir[k]
    BY <2>1 DEF FlowInv
  <2>3. Depth(c)' = 1 /\ stack'[c][1].claims = Absent
    BY <2>2 DEF Depth, Background
  <2>4. Vouched(c)'
    <3>1. 1 .. Depth(c)' - 1 = {} /\ 1 .. Depth(c)' = {1}
      BY <2>3
    <3> QED BY <2>3, <3>1 DEF Vouched
  <2> QED BY <1>1, <2>2, <2>4
<1>5. CASE ClientMoves
  <2>1. UNCHANGED <<stack, dir>>
    BY <1>5 DEF ClientMoves
  <2> QED BY <2>1, VouchedStays
<1> QED BY <1>2, <1>3, <1>4, <1>5, Steps

\* A request has passed nothing yet.
LEMMA InitVouched == Init => \A c \in Calls : Vouched(c)
<1> SUFFICES ASSUME Init, NEW c \in Calls PROVE Vouched(c)
  OBVIOUS
<1>1. stack[c] = <<>> \/ \E r \in Requests : stack[c] = <<Background(r)>>
  BY DEF Init
<1>2. CASE stack[c] = <<>>
  <2>1. 1 .. Depth(c) = {} /\ 1 .. Depth(c) - 1 = {}
    BY <1>2 DEF Depth
  <2> QED BY <2>1 DEF Vouched
<1>3. CASE \E r \in Requests : stack[c] = <<Background(r)>>
  <2>1. PICK r : stack[c] = <<Background(r)>>
    BY <1>3
  <2>2. Depth(c) = 1 /\ stack[c][1].claims = Absent
    BY <2>1 DEF Depth, Background
  <2>3. 1 .. Depth(c) - 1 = {} /\ 1 .. Depth(c) = {1}
    BY <2>2
  <2> QED BY <2>2, <2>3 DEF Vouched
<1> QED BY <1>1, <1>2, <1>3

\* A handler runs only for a caller its interceptors admit, in whatever order and number
\* they stand in the chain (auth.go, internal.go).
THEOREM HandlersServeTheEntitled == Spec => []OnlyEntitled
<1>1. FlowInv /\ (\A c \in Calls : Vouched(c)) /\ [Next]_vars
        => FlowInv' /\ (\A c \in Calls : Vouched(c))'
  BY Steps, StepVouched
<1>2. FlowInv /\ (\A c \in Calls : Vouched(c)) => OnlyEntitled
  <2> SUFFICES ASSUME FlowInv, \A c \in Calls : Vouched(c), NEW c \in Calls, InHandler(c)
               PROVE  /\ \A name : Uses(c, name) => Passed(c, name)
                      /\ Top(c).claims \in {Absent, Presented(c)}
    <3> USE DEF Passed, Presented
    <3> QED BY DEF OnlyEntitled
  <2>1. /\ dir[c] = "in" /\ Depth(c) = Len(Chain(c)) + 1 /\ Len(Chain(c)) \in Nat
        /\ Depth(c) \in 1 .. Depth(c) /\ Depth(c) - 1 = Len(Chain(c))
    BY ChainShape DEF InHandler, FlowInv
  <2>2. \A i \in 1 .. Len(Chain(c)) : Passed(c, Chain(c)[i])
    BY <2>1 DEF Vouched
  <2> QED BY <2>1, <2>2 DEF Vouched, Uses, Top
<1> QED BY <1>1, <1>2, InitFlow, InitVouched, PTL DEF Spec
-------------------------------------------------------------------------------
(* Whom the inner call speaks for *)

\* Every attempt, retries included, carries the credentials the client chose.
OutInv == \A c \in Attempts : Sent(c) => req[c].authorization = OutgoingAuthorization

\* No attempt has been made yet.
LEMMA InitOut == Init => OutInv
<1> SUFFICES ASSUME Init, NEW c \in Attempts PROVE ~ Sent(c)
  BY DEF OutInv
<1>1. c \in Calls /\ c # Edge
  BY RpcAssumption DEF Attempts, Calls, Edge
<1> QED BY <1>1 DEF Init, NoDown, Sent

\* Every step preserves it.
LEMMA StepOut ==
  ASSUME FlowInv, OutInv, [Next]_vars
  PROVE  OutInv'
<1>1. OutgoingAuthorization' = OutgoingAuthorization
  BY StepSent DEF OutgoingAuthorization
<1> SUFFICES ASSUME NEW c \in Attempts, Sent(c)' PROVE req'[c].authorization = OutgoingAuthorization
  BY <1>1 DEF OutInv
<1> QED BY StepSent DEF Follows, OutInv

\* What the inner service reads of the credentials.
LEMMA Credited ==
  ASSUME FlowInv, OutInv, NEW c \in Attempts, dir[c] # "idle"
  PROVE  /\ cfg.mode = "service" => Presented(c) = "service"
         /\ cfg.mode \in {"context", "metadata"} => Presented(c) = ChosenToken
         /\ cfg.mode = "forward" => Presented(c) \in {Absent, Presented(Edge)}
         /\ cfg.mode \in Modes
<1> DEFINE forwarded == WithForwardedToken(IF cfg.mode = "metadata" THEN <<ChosenToken>> ELSE <<>>,
                                           IF cfg.mode = "context" THEN ChosenToken ELSE Absent,
                                           req[Edge].authorization)
<1>1. req[c].authorization = IF cfg.mode = "service" THEN ServiceToken(forwarded)
                             ELSE IF cfg.mode = "static" THEN StaticToken(forwarded)
                             ELSE forwarded
  BY DEF OutInv, Sent, OutgoingAuthorization
<1>2. cfg.mode \in Modes
  BY RpcAssumption DEF FlowInv
<1>3. /\ \A x : MetadataValue(<<x>>) = x
      /\ MetadataValue(<<>>) = Absent /\ ChosenToken # Absent
      /\ \A x : <<x>> # <<>>
      /\ \A x : Append(<<>>, x) = <<x>>
  BY DEF MetadataValue, ChosenToken, Absent
<1>4. CASE cfg.mode = "service"
  BY <1>1, <1>3, <1>4 DEF ServiceToken, Presented, Modes
<1>5. CASE cfg.mode = "context"
  <2>1. forwarded = Append(<<>>, ChosenToken)
    BY <1>3, <1>5 DEF WithForwardedToken
  <2> QED BY <1>1, <1>3, <1>5, <2>1 DEF Presented, Modes
<1>6. CASE cfg.mode = "metadata"
  <2>1. forwarded = <<ChosenToken>>
    BY <1>3, <1>6 DEF WithForwardedToken
  <2> QED BY <1>1, <1>3, <1>6, <2>1 DEF Presented, Modes
<1>7. CASE cfg.mode = "forward"
  <2> DEFINE raw == IncomingBearer(req[Edge].authorization)
  <2>1. forwarded = IF raw = Absent THEN <<>> ELSE Append(<<>>, raw)
    BY <1>3, <1>7 DEF WithForwardedToken
  <2>2. raw \in {Absent, Presented(Edge)}
    BY DEF IncomingBearer, BearerToken, Presented
  <2> HIDE DEF raw
  <2>3. Presented(c) \in {Absent, Presented(Edge)}
    BY <1>1, <1>3, <1>7, <2>1, <2>2 DEF Presented
  <2> QED BY <1>7, <2>3 DEF Modes
<1>8. CASE cfg.mode = "static"
  BY <1>8 DEF Modes
<1> QED BY <1>2, <1>4, <1>5, <1>6, <1>7, <1>8 DEF Modes

\* A forwarded call speaks for the token its handler chose, or else for the caller of
\* the edge service, on every attempt: the inner handler never acts for anyone else
\* (grpcclient/token.go, grpcserver/auth.go).
THEOREM CallsSpeakForTheirCaller == Spec => []IdentityFollows
<1> DEFINE Vouchers == \A c \in Calls : Vouched(c)
<1>1. FlowInv /\ Vouchers /\ OutInv /\ [Next]_vars => FlowInv' /\ Vouchers' /\ OutInv'
  BY Steps, StepVouched, StepOut
<1>2. FlowInv /\ Vouchers /\ OutInv => IdentityFollows
  <2> SUFFICES ASSUME FlowInv, Vouchers, OutInv, NEW c \in Attempts, InHandler(c),
                      cfg.mode \notin {"service", "static"}
               PROVE  Top(c).claims \in {Absent, IF cfg.mode = "forward"
                                                 THEN Presented(Edge) ELSE ChosenToken}
    BY DEF IdentityFollows, Presented
  <2>1. c \in Calls /\ Vouched(c) /\ dir[c] # "idle" /\ Len(Chain(c)) \in Nat
    BY ChainShape DEF Calls, InHandler, FlowInv
  <2>2. Depth(c) \in 1 .. Depth(c)
    BY <2>1 DEF InHandler
  <2>3. Top(c).claims \in {Absent, Presented(c)}
    BY <2>1, <2>2 DEF Vouched, Top
  <2> QED BY <2>1, <2>3, Credited DEF Modes
<1>3. Init => Vouchers
  BY InitVouched
<1> HIDE DEF Vouchers
<1> QED BY <1>1, <1>2, <1>3, InitFlow, InitOut, PTL DEF Spec

\* An answer that no handler gave is no verdict on the credentials of the call.
Welcome(c) ==
    dir[c] \in {"out", "done"} /\ outcome[c] = Unfinished =>
      err[c].code \notin {"Unauthenticated", "PermissionDenied"}

\* The inner service is set up for calls of other services: the token of the service is
\* set, not appended, and no interceptor asks for the role of a user.
SetUpForServices ==
    \A k \in Configs :
      /\ k.mode # "static"
      /\ k.mode = "service" =>
           \A i \in 1 .. Len(k.chain["inner"]) : k.chain["inner"][i] # "role"

\* Every step of a call keeps it welcome.
LEMMA StepWelcome ==
  ASSUME SetUpForServices, FlowInv, \A c \in Calls : Reported(c), OutInv, [Next]_vars,
         cfg.mode = "service", \A c \in Attempts : Welcome(c)
  PROVE  \A c \in Attempts : Welcome(c)'
<1>0. /\ cfg \in Configs /\ MapAt \in {4, 5} /\ Attempts \subseteq Calls
      /\ \A c \in Calls : Depth(c) \in Nat /\ Len(Chain(c)) \in Nat /\ MapAt <= Len(Chain(c))
  BY StackMoves, ChainShape DEF FlowInv, MapAt, Calls
<1>1. ASSUME NEW c \in Calls, c \in Attempts => Welcome(c)',
             \A k \in Calls \ {c} :
               dir'[k] = dir[k] /\ err'[k] = err[k] /\ outcome'[k] = outcome[k]
      PROVE  \A k \in Attempts : Welcome(k)'
  <2> SUFFICES ASSUME NEW k \in Attempts, k # c PROVE Welcome(k)'
    BY <1>1
  <2>1. dir'[k] = dir[k] /\ err'[k] = err[k] /\ outcome'[k] = outcome[k] /\ Welcome(k)
    BY <1>0, <1>1
  <2> QED BY <2>1 DEF Welcome
<1>2. ASSUME NEW c \in Calls, Enters(c) PROVE \A k \in Attempts : Welcome(k)'
  <2>1. dir' = dir /\ err' = err /\ outcome' = outcome
    BY <1>2 DEF Enters, Pass
  <2> QED BY <2>1 DEF Welcome
<1>3. ASSUME NEW c \in Calls, Refuses(c) PROVE \A k \in Attempts : Welcome(k)'
  <2>1. PICK code \in Codes :
          /\ Return(c, Status(code))
          /\ code \in {"Unauthenticated", "PermissionDenied"} =>
               Chain(c)[Depth(c)] = "role" \/ Presented(c) # "service"
    BY <1>3 DEF Refuses
  <2>2. /\ dir[c] = "in" /\ outcome' = outcome /\ Depth(c) > 0 /\ Depth(c) > MapAt
        /\ Depth(c) \in 1 .. Len(Chain(c))
    BY <1>0, <1>3 DEF Refuses
  <2>3. /\ err'[c] = Status(code)
        /\ \A k \in Calls \ {c} : dir'[k] = dir[k] /\ err'[k] = err[k]
    BY <2>1, <2>2, ReturnEffect
  <2>4. ASSUME c \in Attempts PROVE Welcome(c)'
    <3>1. Presented(c) = "service"
      BY <2>2, <2>4, Credited
    <3>2. ServiceOf(c) = "inner"
      BY <2>4, RpcAssumption DEF ServiceOf, Attempts, Edge
    <3>3. Chain(c)[Depth(c)] # "role"
      <4> DEFINE u == cfg.chain["inner"]
      <4>1. /\ Depth(c) # 1 /\ Depth(c) # 2 /\ Depth(c) # 3 /\ Depth(c) # MapAt
            /\ ~ (Depth(c) < MapAt) /\ Depth(c) - MapAt \in Nat \ {0}
        BY <1>0, <2>2
      <4>2. Chain(c)[Depth(c)] = u[Depth(c) - MapAt]
        BY <1>0, <2>2, <3>2, <4>1, ChainShape
      <4>3. \A i \in 1 .. Len(u) : u[i] # "role"
        BY <1>0 DEF SetUpForServices
      <4>4. Len(Chain(c)) = MapAt + Len(u) /\ Len(u) \in Nat
        BY <1>0, <3>2, ChainShape
      <4>5. Depth(c) - MapAt \in 1 .. Len(u)
        BY <1>0, <2>2, <4>1, <4>4
      <4> QED BY <4>2, <4>3, <4>5
    <3>4. err'[c].code = code
      BY <2>3 DEF Status
    <3> QED BY <2>1, <3>1, <3>3, <3>4 DEF Welcome
  <2> QED BY <1>1, <2>2, <2>3, <2>4
<1>4. ASSUME NEW c \in Calls, Returns(c) PROVE \A k \in Attempts : Welcome(k)'
  <2> DEFINE e == IF Depth(c) = MapAt THEN MapError(err[c]) ELSE err[c]
  <2>1. dir[c] = "out" /\ outcome' = outcome /\ Depth(c) > 0 /\ Return(c, e)
    BY <1>0, <1>4 DEF Returns
  <2>2. err'[c] = e /\ \A k \in Calls \ {c} : dir'[k] = dir[k] /\ err'[k] = err[k]
    BY <2>1, ReturnEffect
  <2>3. ASSUME c \in Attempts, outcome[c] = Unfinished PROVE e = err[c]
    <3>1. PICK code \in Codes : err[c] = Status(code)
      BY <2>1, <2>3, ErrorsAreErrors DEF Reported
    <3> QED BY <3>1, Mapping
  <2> HIDE DEF e
  <2>4. c \in Attempts => Welcome(c)'
    BY <2>1, <2>2, <2>3 DEF Welcome
  <2> QED BY <1>1, <2>1, <2>2, <2>4
<1>5. ASSUME NEW c \in Calls, Unwinds(c) PROVE \A k \in Attempts : Welcome(k)'
  <2>1. outcome' = outcome /\ Depth(c) > 0 /\ Unwind(c)
    BY <1>0, <1>5 DEF Unwinds
  <2>2. dir'[c] = "panic" /\ err' = err /\ \A k \in Calls \ {c} : dir'[k] = dir[k]
    BY <2>1, UnwindEffect
  <2> QED BY <1>1, <2>1, <2>2 DEF Welcome
<1>6. ASSUME NEW c \in Calls, Catches(c) PROVE \A k \in Attempts : Welcome(k)'
  <2>1. outcome' = outcome /\ dir[c] = "panic" /\ Depth(c) = 1 /\ Return(c, Status("Internal"))
    BY <1>6 DEF Catches
  <2>2. \A k \in Calls \ {c} : dir'[k] = dir[k] /\ err'[k] = err[k]
    BY <2>1, ReturnEffect
  <2>3. outcome'[c] # Unfinished
    BY <2>1, ErrorsAreErrors DEF Reported
  <2> QED BY <1>1, <2>1, <2>2, <2>3 DEF Welcome
<1>7. ASSUME NEW c \in Calls, Handle(c) PROVE \A k \in Attempts : Welcome(k)'
  <2>1. /\ Depth(c) > 0 /\ ((\E e : Return(c, e)) \/ Unwind(c))
        /\ \E o : outcome' = [outcome EXCEPT ![c] = o]
    BY <1>0, <1>7 DEF Handle, HandlerReturn, HandlerPanic, Free, InHandler
  <2>2. \A k \in Calls \ {c} : dir'[k] = dir[k] /\ err'[k] = err[k] /\ outcome'[k] = outcome[k]
    <3>1. \A k \in Calls \ {c} : dir'[k] = dir[k] /\ err'[k] = err[k]
      BY <2>1, ReturnEffect, UnwindEffect
    <3> QED BY <2>1, <3>1 DEF FlowInv
  <2>3. outcome'[c] # Unfinished
    <3>1. CASE HandlerReturn(c)
      <4>1. PICK e \in HandlerErrors(c) : outcome' = [outcome EXCEPT ![c] = e] /\ Return(c, e)
        BY <3>1 DEF HandlerReturn
      <4>2. FlowInv' /\ err'[c] = e
        BY <1>7, <2>1, <4>1, HandlerFlow, ReturnEffect
      <4>3. e \in Error /\ outcome'[c] = e
        BY <4>1, <4>2 DEF FlowInv
      <4> QED BY <4>3, ErrorsAreErrors
    <3>2. CASE HandlerPanic(c)
      BY <3>2, ErrorsAreErrors DEF HandlerPanic, FlowInv
    <3> QED BY <1>7, <3>1, <3>2 DEF Handle
  <2> QED BY <1>1, <2>2, <2>3 DEF Welcome
<1>8. CASE Deliver
  <2>1. PICK c \in Calls : /\ dir' = [dir EXCEPT ![c] = "in"] /\ UNCHANGED <<err, outcome>>
    BY <1>8, DeliverFlow DEF Calls
  <2>2. dir'[c] = "in" /\ \A k \in Calls \ {c} : dir'[k] = dir[k]
    BY <2>1 DEF FlowInv
  <2> QED BY <1>1, <2>1, <2>2 DEF Welcome
<1>9. CASE ClientMoves
  BY <1>9 DEF ClientMoves, Welcome
<1> QED BY <1>2, <1>3, <1>4, <1>5, <1>6, <1>7, <1>8, <1>9, Steps

\* A service that calls another with its own token is not refused for its credentials,
\* on whatever attempt, when the other is set up for it (grpcclient/service.go,
\* grpcserver/internal.go, auth.go).
THEOREM ServicesAreLetIn ==
  ASSUME SetUpForServices
  PROVE  Spec => []ServiceCallsAuthenticate
<1> DEFINE Reports == \A c \in Calls : Reported(c)
           Inv == cfg.mode = "service" => \A c \in Attempts : Welcome(c)
<1>1. Init => Reports /\ Inv
  <2>1. Init => \A c \in Attempts : c \in Calls /\ dir[c] = "idle"
    BY RpcAssumption DEF Init, Attempts, Calls, Edge
  <2> QED BY <2>1, InitReported DEF Welcome
<1>2. FlowInv /\ Reports /\ OutInv /\ Inv /\ [Next]_vars => FlowInv' /\ Reports' /\ OutInv' /\ Inv'
  <2> SUFFICES ASSUME FlowInv, Reports, OutInv, Inv, [Next]_vars
               PROVE  FlowInv' /\ Reports' /\ OutInv' /\ Inv'
    OBVIOUS
  <2>1. FlowInv' /\ Reports' /\ OutInv' /\ cfg' = cfg
    BY Steps, StepReported, StepOut, StepSent
  <2>2. cfg.mode = "service" => \A c \in Attempts : Welcome(c)'
    BY StepWelcome
  <2> QED BY <2>1, <2>2
<1>3. FlowInv /\ Inv => ServiceCallsAuthenticate
  <2> SUFFICES ASSUME FlowInv, Inv, cfg.mode \in {"service", "static"},
                      NEW c \in Attempts, dir[c] = "done", outcome[c] = Unfinished
               PROVE  err[c].code \notin {"Unauthenticated", "PermissionDenied"}
    BY DEF ServiceCallsAuthenticate
  <2>1. cfg \in Configs
    BY DEF FlowInv
  <2>2. \A k \in Configs : k.mode # "static"
    BY DEF SetUpForServices
  <2>3. cfg.mode = "service"
    BY <2>1, <2>2
  <2> QED BY <2>3 DEF Welcome
<1> HIDE DEF Reports, Inv
<1> QED BY <1>1, <1>2, <1>3, InitFlow, InitOut, PTL DEF Spec

=============================================================================
