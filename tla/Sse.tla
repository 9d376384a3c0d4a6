-------------------------------- MODULE Sse --------------------------------
(***************************************************************************)
(* Subscriptions to server-sent events: the registry of streams            *)
(* (sse/registry.go), the server (sse/server.go), the two ways a client    *)
(* subscribes - the HTTP handler with its resolver (server/http.go,        *)
(* sse/server.go) and SSE.Serve (sse/sse.go) - and the context a           *)
(* subscription runs under (sse/context.go).                               *)
(*                                                                         *)
(* A request has two contexts.  The one it came with ends when the client  *)
(* leaves or, for a service with a timeout, at the deadline; the one its   *)
(* stream runs under is cancelled by a goroutine that watches the first,   *)
(* and by the end of the handler.                                          *)
(***************************************************************************)
EXTENDS Naturals, Sequences, FiniteSets, SequencesExt

CONSTANTS
    Requests,     \* requests of clients, each made once
    Asks,         \* [request -> what it may carry: its way in, header, token and stream]
    Configs,      \* what is configured: authenticator, userToken, registry, resolver
    Declarations, \* the sequences of stream ids a host may declare
    Claims,       \* [token -> user, tenant and role it carries, None if it is invalid]
    TenantAware,  \* streams that implement ResolveTenant
    Failing,      \* streams whose Resolve fails
    None          \* no ask, no transport stream, no claims

\* An ask names a way in, a stream and a token, a valid token carries the id of a tenant,
\* and None is no transport stream.
ASSUME SseConstants ==
    /\ \A r \in Requests : \A ask \in Asks[r] :
         /\ ask.way \in {"handler", "serve", "preflight"} /\ ask.token \in DOMAIN Claims
         /\ ask.stream \in STRING /\ None # <<ask.stream, 0>>
    /\ \A t \in DOMAIN Claims : Claims[t] # None => Claims[t].tenant \in Nat
    /\ \A s \in TenantAware, t \in DOMAIN Claims : Claims[t] # None => None # <<s, Claims[t].tenant>>

VARIABLES
    config,     \* the configuration of this process
    server,     \* the transport: "none", "running", "failed" or "stopped"
    registry,   \* Registry.streams: the registered ids
    bound,      \* SSE.server and SSE.publisher are set
    valid,      \* tokens the cache still holds
    req         \* each request

vars == <<config, server, registry, bound, valid, req>>

PCs == {"idle", "auth", "resolve", "open", "streaming", "ended", "refused", "failed"}

\* A request: its place, what it carries, the tenant of its subject, its transport
\* stream, its own context, that of the stream, the watcher between the two, and
\* whether the client has left.
NewRequest == [pc |-> "idle", ask |-> None, tenant |-> 0, transport |-> None, own |-> "live",
               stream |-> "none", watcher |-> "none", gone |-> FALSE]

AllAsks          == UNION {Asks[r] : r \in Requests}
TransportStreams == STRING \X Nat

TypeOK ==
    /\ config \in Configs
    /\ server \in {"none", "running", "failed", "stopped"}
    /\ registry \subseteq UNION {ToSet(d) : d \in Declarations}
    /\ bound \in BOOLEAN
    /\ valid \subseteq DOMAIN Claims
    /\ req \in [Requests -> [pc : PCs, ask : AllAsks \cup {None}, tenant : Nat,
                             transport : TransportStreams \cup {None},
                             own : {"live", "cancelled", "deadline"},
                             stream : {"none", "live", "cancelled"},
                             watcher : {"none", "waiting", "returned"}, gone : BOOLEAN]]

Init ==
    /\ config \in Configs
    /\ server = "none" /\ registry = {} /\ bound = FALSE
    /\ valid = {t \in DOMAIN Claims : Claims[t] # None}
    /\ req = [r \in Requests |-> NewRequest]

-----------------------------------------------------------------------------
(* The server and the registry. *)

\* Registry.Register: all of the streams, or none.
Registers(declared) ==
    /\ "" \notin ToSet(declared)
    /\ IsInjective(declared)
    /\ ToSet(declared) \cap registry = {}

\* NewServer: a stream the transport or the registry refuses stops the server again.
NewServer(declared, refused) ==
    LET fails == refused \/ (config.registry /\ ~Registers(declared))
    IN  /\ server = "none"
        /\ server' = IF fails THEN "failed" ELSE "running"
        /\ registry' = IF fails \/ ~config.registry THEN registry ELSE registry \cup ToSet(declared)
        /\ UNCHANGED <<config, bound, valid, req>>

\* NewSSE, BindServer.
BindServer ==
    /\ server = "running" /\ ~bound
    /\ bound' = TRUE
    /\ UNCHANGED <<config, server, registry, valid, req>>

UnbindServer ==
    /\ bound
    /\ bound' = FALSE
    /\ UNCHANGED <<config, server, registry, valid, req>>

\* Server.Stop: the transport closes its streams, each handler then returns.
Stop ==
    /\ server = "running" /\ ~bound
    /\ server' = "stopped"
    /\ UNCHANGED <<config, registry, bound, valid, req>>

\* A user logs out, or logs in elsewhere.
Revoke(t) ==
    /\ t \in valid
    /\ valid' = valid \ {t}
    /\ UNCHANGED <<config, server, registry, bound, req>>

-----------------------------------------------------------------------------
(* Requests. *)

Set(r, to) ==
    /\ req' = [req EXCEPT ![r] = to]
    /\ UNCHANGED <<config, server, registry, bound, valid>>

Goes(r, pc) == Set(r, [req[r] EXCEPT !.pc = pc])

\* The handler skips the resolver when there is none; Serve takes a snapshot first.
\* A preflight request never reaches a stream.
Arrive(r, ask) ==
    /\ req[r].pc = "idle"
    /\ ask.way = "handler" => server = "running"
    /\ Set(r, [req[r] EXCEPT !.ask = ask, !.pc =
            CASE ask.way = "serve" -> IF bound /\ config.registry THEN "auth" ELSE "failed"
              [] ask.way = "preflight" -> "ended"
              [] ask.way = "handler" -> IF config.resolver THEN "auth" ELSE "open"])

Backstage(role) == role \notin {"user", "authuser"}

\* What both ways ask of an authenticated subject.
Admits(claims, stream) ==
    /\ claims # None /\ claims.user > 0
    /\ Backstage(claims.role) \/ stream = "base.notification"

\* requestUserID: without an authenticator everybody is user 0 of tenant 0; the
\* header must be a bearer token; the cache is asked when there is one.
RequestUser(ask) ==
    IF ~config.authenticator THEN [ok |-> TRUE, tenant |-> 0]
    ELSE IF /\ ask.header = "bearer" /\ Admits(Claims[ask.token], ask.stream)
            /\ config.userToken => ask.token \in valid
         THEN [ok |-> TRUE, tenant |-> Claims[ask.token].tenant]
         ELSE [ok |-> FALSE, tenant |-> 0]

\* authenticate and Serve: no service without authentication; a bare token will do.
ServeUser(ask) ==
    IF /\ config.authenticator /\ config.userToken
       /\ ask.header \in {"bearer", "raw"} /\ ask.token \in valid
       /\ Admits(Claims[ask.token], ask.stream)
    THEN [ok |-> TRUE, tenant |-> Claims[ask.token].tenant]
    ELSE [ok |-> FALSE, tenant |-> 0]

\* Mutant: the tenant of the subject does not reach the registry.
AuthenticateWithoutTenant(r) ==
    LET ask  == req[r].ask
        user == IF ask.way = "serve" THEN ServeUser(ask) ELSE RequestUser(ask)
    IN  /\ req[r].pc = "auth"
        /\ Set(r, [req[r] EXCEPT !.pc = IF user.ok THEN "resolve" ELSE "refused"])

Authenticate(r) ==
    LET ask  == req[r].ask
        user == IF ask.way = "serve" THEN ServeUser(ask) ELSE RequestUser(ask)
    IN  /\ req[r].pc = "auth"
        /\ Set(r, [req[r] EXCEPT !.pc = IF user.ok THEN "resolve" ELSE "refused", !.tenant = user.tenant])

\* Registry.resolve: the transport stream of a tenant is its own where the stream
\* knows tenants.
Transport(stream, tenant) ==
    <<stream, IF tenant > 0 /\ stream \in TenantAware THEN tenant ELSE 0>>

\* ResolveWithTenant under the lock of the registry; a resolver without a registry
\* takes the name as it is.
Resolve(r) ==
    LET stream == req[r].ask.stream
    IN  /\ req[r].pc = "resolve"
        /\ Set(r, IF ~config.registry
                  THEN [req[r] EXCEPT !.pc = "open", !.transport = <<stream, 0>>]
                  ELSE IF stream \notin registry \/ stream \in Failing
                  THEN [req[r] EXCEPT !.pc = "failed"]
                  ELSE [req[r] EXCEPT !.pc = "open", !.transport = Transport(stream, req[r].tenant)])

\* DetachRequestContext, then the stream is served until its context ends.
Open(r) ==
    /\ req[r].pc = "open"
    /\ Set(r, [req[r] EXCEPT !.pc = "streaming", !.stream = "live", !.watcher = "waiting",
                             !.transport = IF @ = None THEN <<req[r].ask.stream, 0>> ELSE @])

\* The service's deadline passes; only a context that still lives ends by it.
Deadline(r) ==
    /\ req[r].pc \notin {"idle", "ended", "refused", "failed"} /\ req[r].own = "live"
    /\ Set(r, [req[r] EXCEPT !.own = "deadline"])

\* The client leaves: its request's context ends, unless the deadline ended it before.
Disconnect(r) ==
    /\ req[r].pc \notin {"idle", "ended", "refused", "failed"} /\ ~req[r].gone
    /\ Set(r, [req[r] EXCEPT !.gone = TRUE, !.own = IF @ = "live" THEN "cancelled" ELSE @])

\* Mutant: the end of the client and the deadline are told apart the wrong way round.
WatcherWakesForDeadline(r) ==
    /\ req[r].watcher = "waiting" /\ req[r].own # "live"
    /\ Set(r, [req[r] EXCEPT !.watcher = "returned",
                             !.stream = IF req[r].own = "deadline" THEN "cancelled" ELSE @])

\* The goroutine of DetachRequestContext wakes by the request's context.
WatcherWakes(r) ==
    /\ req[r].watcher = "waiting" /\ req[r].own # "live"
    /\ Set(r, [req[r] EXCEPT !.watcher = "returned",
                             !.stream = IF req[r].own = "deadline" THEN @ ELSE "cancelled"])

\* ... or by the cleanup, which has cancelled the stream's context itself.
WatcherFinishes(r) ==
    /\ req[r].watcher = "waiting" /\ req[r].pc = "ended"
    /\ Set(r, [req[r] EXCEPT !.watcher = "returned"])

\* The transport leaves the stream when its context ends, the server stops or the
\* stream is over; the deferred cleanup runs.
Finish(r) ==
    /\ req[r].pc = "streaming"
    /\ Set(r, [req[r] EXCEPT !.pc = "ended", !.stream = "cancelled"])

Request(r) ==
    \/ \E ask \in Asks[r] : Arrive(r, ask)
    \/ Authenticate(r) \/ Resolve(r) \/ Open(r) \/ Deadline(r) \/ Disconnect(r)
    \/ WatcherWakes(r) \/ WatcherFinishes(r) \/ Finish(r)

Next ==
    \/ \E d \in Declarations, refused \in BOOLEAN : NewServer(d, refused)
    \/ BindServer \/ UnbindServer \/ Stop
    \/ \E t \in DOMAIN Claims : Revoke(t)
    \/ \E r \in Requests : Request(r)

\* The watcher is a goroutine, and the transport leaves a stream whose context or
\* whose server has ended.
Fairness ==
    \A r \in Requests :
        /\ WF_vars(WatcherWakes(r)) /\ WF_vars(WatcherFinishes(r))
        /\ WF_vars((req[r].stream = "cancelled" \/ server = "stopped") /\ Finish(r))

Spec == Init /\ [][Next]_vars /\ Fairness

-----------------------------------------------------------------------------
(* Properties. *)

\* Both ways to subscribe let only a subject through that is valid and may see the
\* stream, to a registered stream, and to the transport stream of its own tenant
\* where the stream knows tenants (requestUserID, Serve, Registry.resolve).
SubscribersAuthorized ==
    \A r \in Requests : req[r].pc = "streaming" =>
        LET ask    == req[r].ask
            claims == Claims[ask.token]
        IN  \/ ask.way = "handler" /\ ~(config.resolver /\ config.authenticator)
            \/ /\ Admits(claims, ask.stream)
               /\ config.registry =>
                    /\ ask.stream \in registry
                    /\ req[r].transport[1] = ask.stream
                    /\ ask.stream \in TenantAware => req[r].transport[2] = claims.tenant

\* A subscription ends when its client leaves before any deadline has passed, and
\* no watcher outlives its handler (DetachRequestContext).
SubscriptionsEnd ==
    \A r \in Requests :
        /\ (req[r].pc = "streaming" /\ req[r].own = "cancelled") ~> (req[r].pc = "ended")
        /\ (req[r].pc = "ended") ~> (req[r].watcher # "waiting")

\* "为长连接请求移除服务级 deadline，同时保留客户端断开带来的取消信号" (sse/context.go:10):
\* once nothing watches a stream any more, a client that has left has ended it.
DisconnectHeard ==
    \A r \in Requests :
        req[r].pc = "streaming" /\ req[r].watcher = "returned" /\ req[r].gone
            => req[r].stream = "cancelled"
=============================================================================
