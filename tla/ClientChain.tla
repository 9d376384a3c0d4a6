---------------------------- MODULE ClientChain ----------------------------
(***************************************************************************)
(* How a client connection is put together from its configuration:         *)
(* NewConnection (client/connection.go), the Kratos middlewares            *)
(* (client/middleware.go), the gRPC interceptors (client/interceptor.go)   *)
(* and the options of a remote connection (client/grpc.go).  A chain is    *)
(* the sequence of stages a call passes, outermost first.                  *)
(*                                                                         *)
(* A connection is local, in this process, when no endpoint is set.  The   *)
(* two put their stages in different orders: a remote call meets the       *)
(* Kratos middlewares first, a local one meets them last, inside retry.    *)
(***************************************************************************)
EXTENDS Naturals, Sequences, FiniteSets, SequencesExt

CONSTANTS
    Methods,    \* full names of RPC methods
    Streams,    \* the streaming ones
    Get,        \* the methods whose name starts with Get, List or Search
    Services,   \* [service name -> sequence of its methods]
    None        \* an option that is not set

ASSUME ClientConstants ==
    /\ Streams \subseteq Methods /\ Get \subseteq Methods
    /\ \A s \in DOMAIN Services : Services[s] \in Seq(Methods)

DefaultAttempts == 3    \* of the retrier, an external library

RetryCodeNames == {"Unavailable", "ResourceExhausted", "NotFound", "Internal", "Unknown", "Canceled"}

If(condition, stage) == IF condition THEN <<stage>> ELSE <<>>

-----------------------------------------------------------------------------
(* The configured interceptors.  A field with a duration or a factor is "bad" *)
(* when its check refuses it.                                                  *)

Failed == [ok |-> FALSE, unary |-> <<>>, stream |-> <<>>]

AppendMetrics(built, m) ==
    IF m.provider = "bad" THEN Failed
    ELSE [built EXCEPT !.unary = Append(@, "metrics"), !.stream = Append(@, "metrics")]

\* positiveDuration and the check of backoff_factor.
Refused(value) == value = "bad"

ParseRetryCodes(names) == names \subseteq RetryCodeNames

AppendRetry(built, r) ==
    IF \/ \E f \in {"initial", "maxBackoff", "factor", "maxTotalWait"} : Refused(r[f])
       \/ ~ParseRetryCodes(r.codes)
    THEN Failed
    ELSE [built EXCEPT !.unary = Append(@, "retry")]

AppendRateLimiter(built, l) ==
    IF Refused(l.rate) \/ l.burst = 0 THEN Failed
    ELSE [built EXCEPT !.unary = Append(@, "limiter"), !.stream = Append(@, "limiter")]

\* Mutants: the retries around the metrics, and the limiter
\* around the retries.
BuildConfiguredRetryFirst(mw) ==
    LET empty == [ok |-> TRUE, unary |-> <<>>, stream |-> <<>>]
        retry == IF mw.retry = None THEN empty ELSE AppendRetry(empty, mw.retry)
        both  == IF mw.metrics = None THEN retry ELSE AppendMetrics(retry, mw.metrics)
    IN  IF mw = None THEN empty
        ELSE IF mw.limiter = None THEN both ELSE AppendRateLimiter(both, mw.limiter)

BuildConfiguredLimiterFirst(mw) ==
    LET empty   == [ok |-> TRUE, unary |-> <<>>, stream |-> <<>>]
        limiter == IF mw.limiter = None THEN empty ELSE AppendRateLimiter(empty, mw.limiter)
    IN  IF mw = None THEN empty
        ELSE IF mw.retry = None THEN limiter ELSE AppendRetry(limiter, mw.retry)

\* The first section that is refused refuses them all.
BuildConfigured(mw) ==
    LET empty   == [ok |-> TRUE, unary |-> <<>>, stream |-> <<>>]
        metrics == IF mw.metrics = None THEN empty ELSE AppendMetrics(empty, mw.metrics)
        retry   == IF ~metrics.ok \/ mw.retry = None THEN metrics
                   ELSE AppendRetry(metrics, mw.retry)
    IN  IF mw = None THEN empty
        ELSE IF ~retry.ok \/ mw.limiter = None THEN retry
        ELSE AppendRateLimiter(retry, mw.limiter)

\* What the retry interceptor and the retrier make of their settings.
RetryCodes(r)  == IF r.codes = {} THEN {"Unavailable"} ELSE r.codes
Idempotent(r)  == (IF r.prefixes = None THEN Get ELSE r.prefixes) \ r.skip
MaxAttempts(r) == IF r.max = 0 THEN DefaultAttempts ELSE r.max

-----------------------------------------------------------------------------
(* The Kratos middlewares. *)

\* The key of the token may be missing, and the signing method unknown.
AuthFails(mw) == mw # None /\ mw.auth = "bad"

ClientMiddlewares(mw, static) ==
    (IF mw = None THEN If(static, "static")
     ELSE <<"requestid">> \o If(mw.recovery, "recovery") \o If(mw.tracing, "tracing")
          \o If(mw.metadata, "metadata") \o If(static, "static") \o If(mw.logging, "logging")
          \o If(mw.breaker, "breaker") \o If(mw.auth = "ok", "auth"))
    \o <<"custom">>

-----------------------------------------------------------------------------
(* The chains of a connection. *)

IsLocal(cfg) == IF cfg = None THEN TRUE ELSE cfg.endpoint = None

Middlewares(cfg) == IF cfg = None THEN <<"custom">> ELSE ClientMiddlewares(cfg.mw, cfg.static)
Configured(cfg)  == BuildConfigured(IF cfg = None THEN None ELSE cfg.mw)

\* The interceptors of the connection run first, and the middlewares inside the
\* call, as a server interceptor that also carries the metadata across.
LocalUnaryChain(cfg)  == Configured(cfg).unary \o <<"interceptor", "invoke">> \o Middlewares(cfg)
LocalStreamChain(cfg) == Configured(cfg).stream \o <<"interceptor", "newStream">>

\* Kratos runs the middlewares around the interceptors of a unary call; for a
\* stream streamMiddlewareInterceptor runs them after the configured ones.
RemoteUnaryChain(cfg)  == Middlewares(cfg) \o <<"requestidHeader">> \o Configured(cfg).unary \o <<"interceptor">>
RemoteStreamChain(cfg) == Configured(cfg).stream \o <<"interceptor">> \o Middlewares(cfg) \o <<"requestidHeader">>

Chain(cfg, m) ==
    IF IsLocal(cfg)
    THEN IF m \in Streams THEN LocalStreamChain(cfg) ELSE LocalUnaryChain(cfg)
    ELSE IF m \in Streams THEN RemoteStreamChain(cfg) ELSE RemoteUnaryChain(cfg)

-----------------------------------------------------------------------------
(* Creating a connection. *)

\* The places of a registration: a service of names, and a method of it.
Places(names) == UNION { {i} \X DOMAIN Services[names[i]] : i \in DOMAIN names }

MethodAt(names, p) == Services[names[p[1]]][p[2]]

Precedes(p, q) == p[1] < q[1] \/ (p[1] = q[1] /\ p[2] < q[2])

\* registerUnary: the method is there already.
Repeated(names, p) ==
    \E q \in Places(names) : Precedes(q, p) /\ MethodAt(names, q) = MethodAt(names, p)

\* RegisterService, for one service after the other, panics at the first such method
\* and leaves what came before it registered.
LocalServices(names) ==
    LET reached == { p \in Places(names) :
                       \A q \in Places(names) : Repeated(names, q) => Precedes(p, q) }
    IN  [ok |-> reached = Places(names), methods |-> { MethodAt(names, p) : p \in reached }]

\* An address with a scheme is kept; a bare one is dialled directly.
ResolveEndpoint(cfg) == IF cfg.endpoint \in {"discovery", "scheme"} THEN cfg.endpoint ELSE "direct"

Balancer(mw) ==
    IF mw # None /\ mw.balancer \in {"p2c", "random"} THEN mw.balancer ELSE "wrr"

\* configureGlobalSelector: the first connection decides for the process.
SelectorRefuses(selector, name) == selector # None /\ selector # name

\* NewConnection: what is wrong with a configuration, whatever other connections do.
BuildFails(cfg) ==
    cfg # None /\ (AuthFails(cfg.mw) \/ ~Configured(cfg).ok)

CreateFails(cfg, discovery) == ResolveEndpoint(cfg) = "discovery" /\ ~discovery
=============================================================================
