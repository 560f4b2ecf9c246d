-------------------------------- MODULE Rpc --------------------------------
(***************************************************************************)
(* One request from outside, served by an edge service whose handler calls *)
(* an inner service through a grpcclient connection.  Both services are    *)
(* grpcserver servers: the chain of interceptors newGRPCServer builds,     *)
(* then the handler.  The inner call may be attempted several times (the   *)
(* retry policy of the client), and an attempt the client no longer waits  *)
(* for keeps running beside the next one.                                  *)
(*                                                                         *)
(* A call is run by one goroutine, and its Go call stack is modelled as    *)
(* such: stack[c] holds the context each active interceptor was given, the *)
(* outermost first.  An interceptor passes a context on (push), returns    *)
(* (pop), or is unwound by a panic, and sees its own context whenever      *)
(* control comes back to it.  The stream interceptors do what the unary    *)
(* ones do; the configuration says which kind the request is.              *)
(***************************************************************************)
EXTENDS Naturals, FiniteSets, TLC, Credentials

CONSTANTS
  Configs,          \* the configurations of the two services
  Requests,         \* what outside clients send
  InnerMethods,     \* the methods the edge handler calls
  PublicMethods,    \* AuthConfig.PublicMethods
  InternalMethods,  \* InternalAuthConfig.Methods
  LimitedMethods,   \* RateLimitConfig.Methods
  LogSkipMethods,   \* Config.LogSkipMethods
  RequiredRoles,    \* the arguments of RequireRole
  EdgeFailures,     \* errors the edge handler returns of its own
  InnerFailures,    \* errors the inner handler returns
  MaxAttempts       \* retryPolicy.maxAttempts

Edge == 1
Attempts == 2 .. MaxAttempts + 1
Calls == {Edge} \cup Attempts
Services == {"edge", "inner"}
ServiceOf(c) == IF c = Edge THEN "edge" ELSE "inner"

\* Whose credentials the call of the edge handler carries.
Modes == {"forward", "context", "metadata", "service", "static"}
UserInterceptors == {"ratelimit", "validation", "auth", "internal", "role", "timeout"}

\* What a server reads of a call: the id in its metadata is the client's or one that
\* requestid.New made for a call.
Methods == {r.method : r \in Requests} \cup InnerMethods \cup {Absent}
RequestIds == {r.id : r \in Requests} \cup {ToString(c) : c \in Calls} \cup {Absent}
Envelope == [method : Methods, authorization : Seq(Headers), id : RequestIds, deadline : BOOLEAN]

\* A configuration is one of the setups the options of the two packages allow: stream
\* chains may only hold the one user interceptor that has a stream form, and only unary
\* calls have interceptors for the tokens of a service.  A new request id is not empty.
ASSUME RpcAssumption ==
  /\ MaxAttempts \in Nat \ {0}
  /\ Requests \subseteq Envelope /\ \A r \in Requests : Len(r.authorization) <= 1
  /\ EdgeFailures \cup InnerFailures \subseteq Error
  /\ \A k \in Configs :
       /\ k.kind \in {"unary", "stream"}
       /\ k.mode \in Modes \ (IF k.kind = "unary" THEN {} ELSE {"service", "static"})
       /\ k.registry \in BOOLEAN /\ k.retries \in BOOLEAN /\ k.optional \in BOOLEAN /\ k.configured \in BOOLEAN
       /\ k.chain \in [Services -> Seq(IF k.kind = "unary" THEN UserInterceptors ELSE {"auth"})]
  /\ \A c \in Calls : ToString(c) # Absent

VARIABLES
  cfg,       \* the configuration of this behaviour
  req,       \* what the server reads of each call: method, metadata, deadline
  stack,     \* the contexts of the active interceptors of each call
  dir,       \* which way control flows in each call
  err,       \* the error on its way out of each call
  ctxDone,   \* the context of each call has ended
  outcome,   \* what the handler of each call did
  header,    \* x-request-id of the answer to each call
  inFlight,  \* the gauge requests_in_flight of each service
  counted,   \* the code requests_total counted for each call
  log,       \* the log lines
  down       \* the inner call of the edge handler

vars == <<cfg, req, stack, dir, err, ctxDone, outcome, header, inFlight, counted, log, down>>
flow == <<stack, dir, err>>
told == <<header, inFlight, counted>>

Context == [id : RequestIds, claims : AccessTokens \cup {Absent}, deadline : BOOLEAN]
Unfinished == [class |-> "unfinished"]
Panicked == [class |-> "panic"]
NoRequest == [method |-> Absent, authorization |-> <<>>, id |-> Absent, deadline |-> FALSE]
Background(r) == [id |-> Absent, claims |-> Absent, deadline |-> r.deadline]
Line(c, what, ctx, e) ==
  [call |-> c, what |-> what, id |-> ctx.id, code |-> StatusCode(e), text |-> e.text]

-----------------------------------------------------------------------------
\* Slip: the errors are mapped outside of the interceptors that report them.
StandardSwapped ==
  <<"recovery", "requestid", "mapping", "logging">> \o (IF cfg.registry THEN <<"metrics">> ELSE <<>>)

\* newGRPCServer: the standard interceptors, outermost first, then the user's.
Standard ==
  <<"recovery", "requestid", "logging">> \o (IF cfg.registry THEN <<"metrics">> ELSE <<>>)
  \o <<"mapping">>
Chain(c) == Standard \o cfg.chain[ServiceOf(c)]

Depth(c) == Len(stack[c])
Top(c) == stack[c][Depth(c)]
At(c, name, d) == dir[c] = d /\ Depth(c) \in 1 .. Len(Chain(c)) /\ Chain(c)[Depth(c)] = name
InHandler(c) == dir[c] = "in" /\ Depth(c) = Len(Chain(c)) + 1
Uses(c, name) == \E i \in 1 .. Len(Chain(c)) : Chain(c)[i] = name

\* handler(ctx, req) called by the interceptor on top.
Pass(c, ctx) ==
  /\ stack' = [stack EXCEPT ![c] = Append(@, ctx)]
  /\ UNCHANGED <<dir, err>>

\* The function on top returns e to its caller, or unwinds.
Popped(c) == SubSeq(stack[c], 1, Depth(c) - 1)
Return(c, e) ==
  /\ stack' = [stack EXCEPT ![c] = Popped(c)]
  /\ dir' = [dir EXCEPT ![c] = IF Depth(c) = 1 THEN "done" ELSE "out"]
  /\ err' = [err EXCEPT ![c] = e]
Unwind(c) ==
  /\ stack' = [stack EXCEPT ![c] = Popped(c)]
  /\ dir' = [dir EXCEPT ![c] = "panic"]
  /\ UNCHANGED err

-----------------------------------------------------------------------------
(* The standard interceptors.                                              *)

\* Recovery, Logging and ErrorMapping do nothing of note before the call.
PassThrough(c) ==
  /\ \E name \in {"recovery", "logging", "mapping"} : At(c, name, "in")
  /\ Pass(c, Top(c))
  /\ UNCHANGED <<cfg, req, ctxDone, outcome, told, log, down>>

\* withRequestID: the id of the call or a new one, into the context and the answer.
RequestIdOf(c) == IF req[c].id # Absent THEN req[c].id ELSE ToString(c)
RequestIDEnter(c) ==
  /\ At(c, "requestid", "in")
  /\ header' = [header EXCEPT ![c] = RequestIdOf(c)]
  /\ Pass(c, [Top(c) EXCEPT !.id = RequestIdOf(c)])
  /\ UNCHANGED <<cfg, req, ctxDone, outcome, inFlight, counted, log, down>>

MetricsEnter(c) ==
  /\ At(c, "metrics", "in")
  /\ inFlight' = [inFlight EXCEPT ![ServiceOf(c)] = @ + 1]
  /\ Pass(c, Top(c))
  /\ UNCHANGED <<cfg, req, ctxDone, outcome, header, counted, log, down>>

\* m.observe, then the deferred Dec.
MetricsReturn(c) ==
  /\ At(c, "metrics", "out")
  /\ inFlight' = [inFlight EXCEPT ![ServiceOf(c)] = @ - 1]
  /\ counted' = [counted EXCEPT ![c] = StatusCode(err[c])]
  /\ Return(c, err[c])
  /\ UNCHANGED <<cfg, req, ctxDone, outcome, header, log, down>>

\* logRequest with the context the interceptor holds.
LoggingReturn(c) ==
  /\ At(c, "logging", "out")
  /\ log' = IF req[c].method \in LogSkipMethods THEN log
            ELSE log \cup {Line(c, "request", Top(c), err[c])}
  /\ Return(c, err[c])
  /\ UNCHANGED <<cfg, req, ctxDone, outcome, told, down>>

ErrorMappingReturn(c) ==
  /\ At(c, "mapping", "out")
  /\ Return(c, MapError(err[c]))
  /\ UNCHANGED <<cfg, req, ctxDone, outcome, told, log, down>>

\* Every other interceptor returns what it was returned.
ReturnThrough(c) ==
  /\ \E name \in UserInterceptors \cup {"recovery", "requestid"} : At(c, name, "out")
  /\ Return(c, err[c])
  /\ UNCHANGED <<cfg, req, ctxDone, outcome, told, log, down>>

\* Slip: Dec written after the call instead of deferred.
MetricsUnwindNoDec(c) ==
  /\ At(c, "metrics", "panic")
  /\ Unwind(c)
  /\ UNCHANGED <<cfg, req, ctxDone, outcome, told, log, down>>

\* A panic: the gauge goes down, and neither the log nor the counter hears of the call.
MetricsUnwind(c) ==
  /\ At(c, "metrics", "panic")
  /\ inFlight' = [inFlight EXCEPT ![ServiceOf(c)] = @ - 1]
  /\ Unwind(c)
  /\ UNCHANGED <<cfg, req, ctxDone, outcome, header, counted, log, down>>

UnwindThrough(c) ==
  /\ dir[c] = "panic"
  /\ ~ At(c, "metrics", "panic") /\ ~ At(c, "recovery", "panic")
  /\ Unwind(c)
  /\ UNCHANGED <<cfg, req, ctxDone, outcome, told, log, down>>

\* recover() in the outermost interceptor, whose context has no request id yet.
RecoveryCatch(c) ==
  /\ At(c, "recovery", "panic")
  /\ log' = log \cup {Line(c, "panic", Top(c), [Status("Internal") EXCEPT !.text = "raw"])}
  /\ Return(c, Status("Internal"))
  /\ UNCHANGED <<cfg, req, ctxDone, outcome, told, down>>

-----------------------------------------------------------------------------
(* The interceptors a service adds.                                        *)

\* Goes on with the claims of a verdict, or returns its error; the refusal of a token
\* that was there and could be checked is logged.
Follow(c, verdict, line) ==
  /\ IF verdict.err = NoError THEN Pass(c, [Top(c) EXCEPT !.claims = verdict.claims])
     ELSE Return(c, verdict.err)
  /\ log' = IF /\ verdict.err # NoError
               /\ cfg.configured /\ BearerToken(req[c].authorization).err = NoError
            THEN log \cup {Line(c, line, Top(c), [verdict.err EXCEPT !.text = "raw"])} ELSE log
  /\ UNCHANGED <<cfg, req, ctxDone, outcome, told, down>>

AuthEnter(c) ==
  /\ At(c, "auth", "in")
  /\ Follow(c, IF req[c].method \in PublicMethods THEN Granted(Top(c).claims)
               ELSE Authenticate(Top(c).claims, req[c].authorization, cfg.configured, cfg.optional),
            "auth")

InternalAuthEnter(c) ==
  /\ At(c, "internal", "in")
  /\ Follow(c, IF req[c].method \notin InternalMethods THEN Granted(Top(c).claims)
               ELSE InternalAuth(Top(c).claims, req[c].authorization, cfg.configured),
            "internal")

RequireRoleEnter(c) ==
  /\ At(c, "role", "in")
  /\ LET verdict == RequireRole(Top(c).claims, RequiredRoles)
     IN  IF verdict.err = NoError THEN Pass(c, Top(c)) ELSE Return(c, verdict.err)
  /\ UNCHANGED <<cfg, req, ctxDone, outcome, told, log, down>>

\* A message that breaks its rules, or rules that cannot be evaluated.
ValidationEnter(c) ==
  /\ At(c, "validation", "in")
  /\ \/ Pass(c, Top(c))
     \/ \E code \in {"InvalidArgument", "Internal"} : Return(c, Status(code))
  /\ UNCHANGED <<cfg, req, ctxDone, outcome, told, log, down>>

\* The limiter does not apply, allows the call, or fails, which counts as allowing it.
RateLimitPass(c) ==
  /\ At(c, "ratelimit", "in")
  /\ Pass(c, Top(c))
  /\ \/ UNCHANGED log
     \/ req[c].method \in LimitedMethods /\ log' = log \cup {Line(c, "limiter", Top(c), Plain)}
  /\ UNCHANGED <<cfg, req, ctxDone, outcome, told, down>>

RateLimitRefuse(c) ==
  /\ At(c, "ratelimit", "in") /\ req[c].method \in LimitedMethods
  /\ Return(c, Status("ResourceExhausted"))
  /\ log' = log \cup {Line(c, "limit", Top(c), Status("ResourceExhausted"))}
  /\ UNCHANGED <<cfg, req, ctxDone, outcome, told, down>>

TimeoutEnter(c) ==
  /\ At(c, "timeout", "in")
  /\ Pass(c, [Top(c) EXCEPT !.deadline = TRUE])
  /\ UNCHANGED <<cfg, req, ctxDone, outcome, told, log, down>>

-----------------------------------------------------------------------------
(* The handlers.                                                           *)

\* The context of a call ends: its deadline passes, or the outside client goes away.
ContextEnds(c) ==
  /\ InHandler(c) /\ ~ ctxDone[c]
  /\ c = Edge \/ Top(c).deadline
  /\ ctxDone' = [ctxDone EXCEPT ![c] = TRUE]
  /\ UNCHANGED <<cfg, req, flow, outcome, told, log, down>>

\* The handler is not blocked in the client.
Free(c) == InHandler(c) /\ (c = Edge => down.state \in {"none", "over"})

\* A handler returns nothing, an error of its own, the error of its ended context, or
\* the error of the inner call, as it is or wrapped.
HandlerErrors(c) ==
  {NoError} \cup (IF c = Edge THEN EdgeFailures ELSE InnerFailures)
  \cup (IF ctxDone[c] THEN {ContextCanceled, ContextDeadlineExceeded} ELSE {})
  \cup (IF c = Edge /\ down.state = "over" THEN {down.result, Wrapped(down.result)} ELSE {})

HandlerReturn(c) ==
  /\ Free(c)
  /\ \E e \in HandlerErrors(c) : Return(c, e) /\ outcome' = [outcome EXCEPT ![c] = e]
  /\ UNCHANGED <<cfg, req, ctxDone, told, log, down>>

HandlerPanic(c) ==
  /\ Free(c)
  /\ Unwind(c)
  /\ outcome' = [outcome EXCEPT ![c] = Panicked]
  /\ UNCHANGED <<cfg, req, ctxDone, told, log, down>>

-----------------------------------------------------------------------------
(* The client of the edge handler.                                         *)

\* Slip: the id stays in the process.
OutgoingIdDropped(ctx) == Absent

\* grpcclient withRequestID; nothing else puts an id into the outgoing metadata.
OutgoingId(ctx) == ctx.id

\* Slip: the default timeout is never applied.
CallDeadlineUnset(ctx) == ctx.deadline

\* TimeoutUnaryInterceptor with the default timeout; streams have no such interceptor.
CallDeadline(ctx) == ctx.deadline \/ cfg.kind = "unary"

\* The credentials of the call: those of the incoming one ("forward"), a token the
\* handler chose with WithToken ("context") or in the outgoing metadata ("metadata"),
\* or the service's own, from one of two interceptors that only unary calls have.
ChosenToken == "admin"

OutgoingAuthorization ==
  LET forwarded == WithForwardedToken(IF cfg.mode = "metadata" THEN <<ChosenToken>> ELSE <<>>,
                                      IF cfg.mode = "context" THEN ChosenToken ELSE Absent,
                                      req[Edge].authorization)
  IN  CASE cfg.mode = "service" -> ServiceToken(forwarded)
        [] cfg.mode = "static"  -> StaticToken(forwarded)
        [] OTHER                -> forwarded

\* logCall of the client.
LogCall(result) == log' = log \cup {Line(Edge, "call", Top(Edge), result)}

\* An attempt has reached the inner service.
Created == \E c \in Attempts : dir[c] # "idle"

\* What the client's interceptors log at the end of a call: the result of a unary one;
\* of a stream only whether it could be created, known when an attempt got through.
CallReport(result) ==
  CASE cfg.kind = "unary" -> {result}
    [] cfg.kind # "unary" /\ Created -> {NoError}
    [] OTHER -> {NoError, result}

\* The call ends and the handler has its result.
CallOver(result) ==
  /\ down' = [down EXCEPT !.state = "over", !.result = result]
  /\ \E reported \in CallReport(result) : LogCall(reported)

\* The handler makes the call: RequestID, ForwardToken, Timeout, Logging, then the
\* interceptor of the configuration.
Invoke ==
  /\ Free(Edge) /\ down.state = "none"
  /\ \E method \in InnerMethods :
       req' = [req EXCEPT ![2] = [method |-> method, authorization |-> OutgoingAuthorization,
                                  id |-> OutgoingId(Top(Edge)),
                                  deadline |-> CallDeadline(Top(Edge))]]
  /\ down' = [down EXCEPT !.state = "sending", !.call = 2]
  /\ UNCHANGED <<cfg, flow, ctxDone, outcome, told, log>>

\* The token of the service cannot be had.
InvokeWithoutToken ==
  /\ Free(Edge) /\ down.state = "none"
  /\ cfg.mode \in {"service", "static"}
  /\ CallOver(IF cfg.mode = "service" THEN Plain
              ELSE [Status("Unauthenticated") EXCEPT !.text = "raw"])
  /\ UNCHANGED <<cfg, req, flow, ctxDone, outcome, told>>

\* The attempt reaches the inner service; a stream is created and logged as such.
Deliver ==
  /\ down.state = "sending"
  /\ down' = [down EXCEPT !.state = "waiting"]
  /\ stack' = [stack EXCEPT ![down.call] = <<Background(req[down.call])>>]
  /\ dir' = [dir EXCEPT ![down.call] = "in"]
  /\ IF cfg.kind = "unary" THEN UNCHANGED log ELSE LogCall(NoError)
  /\ UNCHANGED <<cfg, req, err, ctxDone, outcome, told>>

Retryable == {"Unavailable", "ResourceExhausted"}

\* The attempt has the given result: the library hands it out or, for a code of the
\* retry policy, makes another attempt with the same metadata.
AttemptOver(result) ==
  \/ CallOver(result) /\ UNCHANGED req
  \/ /\ result.code \in Retryable /\ cfg.retries /\ down.call + 1 \in Attempts
     /\ ~ ctxDone[Edge]
     /\ down' = [down EXCEPT !.state = "sending", !.call = @ + 1]
     /\ req' = [req EXCEPT ![down.call + 1] = req[down.call]]
     /\ UNCHANGED log

Answered ==
  /\ down.state = "waiting" /\ dir[down.call] = "done"
  /\ AttemptOver(err[down.call])
  /\ UNCHANGED <<cfg, flow, ctxDone, outcome, told>>

\* No connection, or a connection lost while the inner service is at work.
ConnectionLost ==
  /\ down.state \in {"sending", "waiting"}
  /\ ctxDone' = [ctxDone EXCEPT ![down.call] = TRUE]
  /\ AttemptOver([Status("Unavailable") EXCEPT !.text = "raw"])
  /\ UNCHANGED <<cfg, flow, outcome, told>>

\* The deadline of the call passes, or the context of the handler ends.
Abandon ==
  /\ down.state \in {"sending", "waiting"}
  /\ \/ req[down.call].deadline /\ CallOver(Status("DeadlineExceeded"))
     \/ ctxDone[Edge] /\ CallOver(Status("Canceled"))
  /\ ctxDone' = [ctxDone EXCEPT ![down.call] = TRUE]
  /\ UNCHANGED <<cfg, req, flow, outcome, told>>

-----------------------------------------------------------------------------
NoDown == [state |-> "none", call |-> Edge, result |-> NoError]

\* A request arrives at the edge service.
Init ==
  /\ cfg \in Configs
  /\ \E first \in Requests :
       /\ req = [c \in Calls |-> IF c = Edge THEN first ELSE NoRequest]
       /\ stack = [c \in Calls |-> IF c = Edge THEN <<Background(first)>> ELSE <<>>]
  /\ dir = [c \in Calls |-> IF c = Edge THEN "in" ELSE "idle"]
  /\ err = [c \in Calls |-> NoError]
  /\ ctxDone = [c \in Calls |-> FALSE]
  /\ outcome = [c \in Calls |-> Unfinished]
  /\ header = [c \in Calls |-> Absent]
  /\ inFlight = [s \in Services |-> 0]
  /\ counted = [c \in Calls |-> Absent]
  /\ log = {}
  /\ down = NoDown

\* The steps an interceptor takes by itself.
Intercept(c) ==
  \/ PassThrough(c) \/ RequestIDEnter(c) \/ MetricsEnter(c)
  \/ AuthEnter(c) \/ InternalAuthEnter(c) \/ RequireRoleEnter(c) \/ ValidationEnter(c)
  \/ RateLimitPass(c) \/ RateLimitRefuse(c) \/ TimeoutEnter(c)
  \/ MetricsReturn(c) \/ LoggingReturn(c) \/ ErrorMappingReturn(c) \/ ReturnThrough(c)
  \/ MetricsUnwind(c) \/ UnwindThrough(c) \/ RecoveryCatch(c)

Handle(c) == HandlerReturn(c) \/ HandlerPanic(c)
Client == Deliver \/ Answered \/ ConnectionLost \/ Abandon

\* Every call that started has been answered.
Quiet == (\A c \in Calls : dir[c] \in {"idle", "done"}) /\ UNCHANGED vars

\* The interceptors of a call share nothing with another call but the gauge, the counter
\* and the log, where the order of two calls makes no difference.  So their code is let
\* run on, one call at a time; what calls can tell apart is interleaved: the handlers,
\* the timers, the network.
Running(c) == dir[c] \in {"in", "out", "panic"} /\ ~ InHandler(c)
Turn(c) == Running(c) /\ \A k \in Calls : Running(k) => k >= c

Next ==
  \/ \E c \in Calls : Turn(c) /\ Intercept(c)
  \/ /\ \A c \in Calls : ~ Running(c)
     /\ \/ \E c \in Calls : Handle(c) \/ ContextEnds(c)
        \/ Invoke \/ InvokeWithoutToken \/ Client
        \/ Quiet

\* Interceptors run on, the library keeps its timers and hands out the answers it has,
\* and the edge handler returns once its call does; an inner handler may hang, and
\* nothing says that a connection breaks.
Fairness ==
  /\ WF_vars(\E c \in Calls : Turn(c) /\ Intercept(c))
  /\ WF_vars(Handle(Edge)) /\ WF_vars(Answered \/ Abandon)

Spec == Init /\ [][Next]_vars /\ Fairness

-----------------------------------------------------------------------------
\* The records stay what the interceptors expect of each other.
TypeOK ==
  /\ cfg \in Configs
  /\ dir \in [Calls -> {"idle", "in", "out", "panic", "done"}]
  /\ \A c \in Calls :
       /\ \A i \in 1 .. Depth(c) : stack[c][i] \in Context
       /\ err[c] \in Error /\ outcome[c] \in Error \cup {Unfinished, Panicked}
       /\ counted[c] \in Codes \cup {Absent}
       /\ dir[c] \in {"idle", "done"} <=> stack[c] = <<>>
  /\ ctxDone \in [Calls -> BOOLEAN]
  /\ inFlight \in [Services -> 0 .. Cardinality(Calls)]
  /\ down.state \in {"none", "sending", "waiting", "over"} /\ down.call \in Calls

\* A handler runs only for a caller the interceptors of its chain admit, told from the
\* metadata the call came with (auth.go, internal.go): whatever the order of the
\* interceptors, and also when no authenticator is configured.
OnlyEntitled ==
  \A c \in Calls : InHandler(c) =>
    LET presented == MetadataValue(req[c].authorization)
        method == req[c].method
    IN  /\ Uses(c, "internal") /\ method \in InternalMethods =>
             cfg.configured /\ presented = "service"
        /\ Uses(c, "auth") /\ method \notin PublicMethods =>
             /\ cfg.configured
             /\ presented \in AccessTokens \/ (cfg.optional /\ presented \notin BearerTokens)
        /\ Uses(c, "role") => \E role \in RequiredRoles : HasRole(presented, role)
        /\ Top(c).claims \in {Absent, presented}

\* A forwarded call speaks for the token its handler chose or, when it chose none, for
\* the caller of the edge service (token.go): the inner handler never acts for a third.
IdentityFollows ==
  \A c \in Attempts : InHandler(c) /\ cfg.mode \notin {"service", "static"} =>
    Top(c).claims \in
      {Absent, IF cfg.mode = "forward" THEN MetadataValue(req[Edge].authorization) ELSE ChosenToken}

\* A call a service makes with its own token is not refused for its credentials by a
\* service that is set up for it: "Service-to-service" authentication of grpcclient.
ServiceCallsAuthenticate ==
  cfg.mode \in {"service", "static"} /\ cfg.configured =>
    \A c \in Attempts : dir[c] = "done" /\ outcome[c] = Unfinished =>
      err[c].code \notin {"Unauthenticated", "PermissionDenied"}

\* The log, the counter and the caller are told the same code, and it is Unknown only
\* when a handler said so; a panic is an Internal error to the caller
\* (interceptors.go, metrics.go, errors.go).
CodesAgree ==
  \A c \in Calls : dir[c] = "done" =>
    IF outcome[c] = Panicked THEN err[c] = Status("Internal")
    ELSE /\ err[c].class \in {"none", "status"}
         /\ err[c].code = "Unknown" => outcome[c] = err[c]
         /\ cfg.registry => counted[c] = err[c].code
         /\ \A line \in log : line.call = c /\ line.what = "request" => line.code = err[c].code

\* The text of a cause leaves the service only inside a status its handler returned:
\* never that of a domain error, of a database error or of any other (errors.go).
CauseStaysInside ==
  \A c \in Calls : dir[c] = "done" /\ err[c].text = "raw" =>
    outcome[c] \notin {Unfinished, Panicked} /\ outcome[c].class = "status"

\* The gauge counts the calls inside the metrics interceptor, panics, abandoned
\* attempts and retries included (metrics.go).
GaugeExact ==
  \A s \in Services :
    inFlight[s] = Cardinality({c \in Calls : ServiceOf(c) = s /\ cfg.registry
                                 /\ Depth(c) >= IF dir[c] = "in" THEN 5 ELSE 4})

\* Everything written about the request in both services, and every answer, carries one
\* request id: the client's if it sent one (requestid.go).  The line about a panic,
\* written outside of the interceptor that assigns the id, has none.
OneRequestId ==
  LET id == RequestIdOf(Edge)
  IN  /\ \A line \in log : line.id = IF line.what = "panic" THEN Absent ELSE id
      /\ \A c \in Calls : dir[c] = "done" => header[c] = id

\* A unary request is answered even when the inner service hangs: the client's default
\* timeout ends the call of a handler that has no deadline of its own
\* (grpcclient TimeoutUnaryInterceptor).
EventuallyAnswered == cfg.kind = "unary" ~> dir[Edge] = "done"

\* An error that the caller sees only as a mapped status has its original text in the
\* log of the service (README.md, postgresql/README.md).
OriginalInLog ==
  \A c \in Calls :
    dir[c] = "done" /\ outcome[c] \notin {Unfinished, Panicked} /\ outcome[c].class # "status"
    /\ outcome[c].text = "raw" /\ req[c].method \notin LogSkipMethods
      => \E line \in log : line.call = c /\ line.text = "raw" /\ line.what = "request"
=============================================================================
