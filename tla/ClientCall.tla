----------------------------- MODULE ClientCall -----------------------------
(***************************************************************************)
(* Calls on the connections of one process: each walks down the chain of   *)
(* its connection (ClientChain) to the service and up again, meeting the   *)
(* request id (middleware/requestid), the metrics (middleware/metrics),    *)
(* the retries (middleware/retry), the rate limiter (middleware/ratelimit) *)
(* and, on a local connection, localgrpc.Conn.                             *)
(*                                                                         *)
(* What the calls share is the bucket of tokens of a connection, the       *)
(* metrics of a method and the balancer of the process.                    *)
(***************************************************************************)
EXTENDS ClientChain

CONSTANTS
    Conns,        \* connections of the process
    Calls,        \* bound: calls, each made once
    Requests,     \* [call -> what its caller may ask]: a method, where the caller
                  \* gives a request id of its own, and whether it may give up
    Assignments,  \* the configurations tried, as functions on Conns
    MaxRefills    \* bound: tokens a bucket gains during a behaviour

\* Numbers in a configuration are unsigned; a service or a method is one that exists.
ASSUME ClientCallConstants ==
    /\ MaxRefills \in Nat
    /\ \A a \in Assignments : \A k \in Conns :
         a[k] # None => a[k].services \in Seq(DOMAIN Services)
    /\ \A a \in Assignments : \A k \in Conns :
         a[k] # None /\ a[k].mw # None =>
             /\ a[k].mw.retry # None => a[k].mw.retry.max \in Nat
             /\ a[k].mw.limiter # None => a[k].mw.limiter.burst \in Nat
    /\ \A c \in Calls :
         Requests[c] \subseteq [method : Methods, given : {"none", "context", "header"}, patient : BOOLEAN]

VARIABLES
    config,     \* what each connection is made from
    conn,       \* "none", "ready", "failed" or "closed"
    methods,    \* the methods registered at a local connection
    selector,   \* globalSelectorState: the balancer of the process
    tokens,     \* the bucket of a connection's limiter
    refills,    \* tokens added so far
    gauge,      \* requests in flight, a gauge per method
    call,       \* each call: where it is and what it carries
    cancelled,  \* calls whose context has ended
    sent,       \* history: the attempts of a call that reached a service
    paid,       \* history: tokens a call took
    counted     \* history: what the request counter recorded for a call

vars == <<config, conn, methods, selector, tokens, refills, gauge, call,
          cancelled, sent, paid, counted>>

Outcomes == {"OK", "Unavailable", "NotFound"}
Codes    == Outcomes \cup RetryCodeNames \cup {"Unimplemented", "panic"}

\* Request ids: none, the caller's own, and those generated after it.
NoId  == 0
OwnId == 1

\* A call: pc, its connection and request, its place in the chain, the request id
\* of the context at each depth, the ids it generated, its attempts, and the code
\* on its way up.
NewCall == [pc |-> "idle", conn |-> None, method |-> None, given |-> "none", patient |-> TRUE,
            at |-> 0, ids |-> <<>>, made |-> 0, tries |-> 0, code |-> "OK"]

Bucket(k) == IF config[k] # None /\ config[k].mw # None /\ config[k].mw.limiter # None
             THEN config[k].mw.limiter.burst ELSE 0

TypeOK ==
    /\ config \in Assignments
    /\ conn \in [Conns -> {"none", "ready", "failed", "closed"}]
    /\ methods \in [Conns -> SUBSET Methods]
    /\ selector \in {None, "wrr", "p2c", "random"}
    /\ tokens \in [Conns -> Nat] /\ refills \in 0..MaxRefills
    /\ gauge \in [Methods -> 0..1]
    /\ \A c \in Calls :
         /\ call[c].pc \in {"idle", "down", "up", "open", "ended", "done"}
         /\ call[c].conn \in Conns \cup {None}
         /\ call[c].method \in Methods \cup {None}
         /\ call[c].at \in Nat /\ call[c].tries \in Nat
         /\ call[c].code \in Codes
    /\ cancelled \subseteq Calls
    /\ paid \in [Calls -> Nat]
    /\ \A c \in Calls : \A i \in DOMAIN counted[c] : counted[c][i] \in Codes

Init ==
    /\ config \in Assignments
    /\ conn = [k \in Conns |-> "none"]
    /\ methods = [k \in Conns |-> {}]
    /\ selector = None
    /\ tokens = [k \in Conns |-> Bucket(k)] /\ refills = 0
    /\ gauge = [m \in Methods |-> 0]
    /\ call = [c \in Calls |-> NewCall]
    /\ cancelled = {}
    /\ sent = [c \in Calls |-> <<>>]
    /\ paid = [c \in Calls |-> 0]
    /\ counted = [c \in Calls |-> <<>>]

-----------------------------------------------------------------------------
(* Connections. *)

\* NewConnection without an endpoint: the services are registered before it returns.
NewLocal(k) ==
    LET cfg == config[k]
        reg == LocalServices(IF cfg = None THEN <<>> ELSE cfg.services)
    IN  /\ conn[k] = "none" /\ IsLocal(cfg)
        /\ conn' = [conn EXCEPT ![k] = IF BuildFails(cfg) \/ ~reg.ok THEN "failed" ELSE "ready"]
        /\ methods' = [methods EXCEPT ![k] = IF BuildFails(cfg) THEN {} ELSE reg.methods]
        /\ UNCHANGED <<config, selector, tokens, refills, gauge, call, cancelled, sent, paid, counted>>

\* createGrpcClient: the balancer is set for the process before TLS is looked at.
NewRemote(k, discovery) ==
    LET cfg     == config[k]
        refused == \/ CreateFails(cfg, discovery) \/ BuildFails(cfg)
                   \/ SelectorRefuses(selector, Balancer(cfg.mw))
    IN  /\ conn[k] = "none" /\ ~IsLocal(cfg)
        /\ selector' = IF refused THEN selector ELSE Balancer(cfg.mw)
        /\ conn' = [conn EXCEPT ![k] = IF refused \/ cfg.tls = "bad" THEN "failed" ELSE "ready"]
        /\ UNCHANGED <<config, methods, tokens, refills, gauge, call, cancelled, sent, paid, counted>>

\* The cleanup of a remote connection; that of a local one does nothing.
CloseConnection(k) ==
    /\ conn[k] = "ready" /\ ~IsLocal(config[k])
    /\ conn' = [conn EXCEPT ![k] = "closed"]
    /\ UNCHANGED <<config, methods, selector, tokens, refills, gauge, call, cancelled, sent, paid, counted>>

-----------------------------------------------------------------------------
(* The walk of a call: ids holds the request id of the context at each depth. *)

\* A connection makes its chains once, before the first call.
Chains == [a \in Assignments |-> [k \in Conns |-> [m \in Methods |-> Chain(a[k], m)]]]

\* Stages that leave what is shared, the request id and the code alone.
Passive == {"tracing", "metadata", "static", "logging", "auth", "custom", "interceptor"}

Cfg(c)    == config[call[c].conn]
MW(c)     == IF Cfg(c) = None THEN None ELSE Cfg(c).mw
Path(c)   == Chains[config][call[c].conn][call[c].method]
Stream(c) == call[c].method \in Streams
Id(c)     == Last(call[c].ids)

Meets(c, way, stages) ==
    /\ call[c].pc = way /\ way \in {"down", "up"} /\ call[c].at \in DOMAIN Path(c)
    /\ Path(c)[call[c].at] \in stages
Arrives(c) == call[c].pc = "down" /\ call[c].at > Len(Path(c))

Down(c, id) == [call[c] EXCEPT !.pc = "down", !.at = @ + 1, !.ids = Append(@, id)]
Up(c, code) == [call[c] EXCEPT !.pc = "up", !.code = code, !.at = @ - 1, !.ids = Front(@)]

Moves(c, to) ==
    /\ call' = [call EXCEPT ![c] = to]
    /\ UNCHANGED <<config, conn, methods, selector, refills, cancelled>>

Skipped(c, section) == call[c].method \in section.skip

\* Connection.Invoke and NewStream; current fails where there is no connection.
Begin(c, k, request) ==
    LET there == conn[k] \in {"ready", "closed"}
    IN  /\ call[c].pc = "idle" /\ conn[k] # "none"
        /\ Moves(c, [NewCall EXCEPT
                !.pc = IF there THEN "down" ELSE "done", !.code = IF there THEN "OK" ELSE "Unknown",
                !.conn = k, !.method = request.method, !.given = request.given,
                !.patient = request.patient, !.at = 1,
                !.ids = <<IF request.given = "context" THEN OwnId ELSE NoId>>])
        /\ UNCHANGED <<tokens, gauge, sent, paid, counted>>

\* The caller gives up, or the timeout of the client has passed.
Cancel(c) ==
    /\ call[c].pc \in {"down", "up"} /\ ~call[c].patient /\ c \notin cancelled
    /\ cancelled' = cancelled \cup {c}
    /\ UNCHANGED <<config, conn, methods, selector, tokens, refills, gauge, call, sent, paid, counted>>

\* On the way up most stages hand on what they are given, and recovery on the way down.
Pass(c) ==
    /\ \/ /\ Meets(c, "up", {"requestid", "requestidHeader", "breaker", "limiter", "newStream"} \cup Passive)
          /\ Moves(c, Up(c, call[c].code))
       \/ Meets(c, "down", {"recovery"} \cup Passive) /\ Moves(c, Down(c, Id(c)))
    /\ UNCHANGED <<tokens, gauge, sent, paid, counted>>

\* Mutant: the context is not asked for an id first.
RequestIdFresh(c) ==
    /\ Meets(c, "down", {"requestid", "requestidHeader"})
    /\ Moves(c, [Down(c, OwnId + call[c].made + 1) EXCEPT !.made = @ + 1])
    /\ UNCHANGED <<tokens, gauge, sent, paid, counted>>

\* requestid.Client and the request id interceptors keep an id they are given.
RequestId(c) ==
    /\ Meets(c, "down", {"requestid", "requestidHeader"})
    /\ Moves(c, IF Id(c) # NoId THEN Down(c, Id(c))
                ELSE [Down(c, OwnId + call[c].made + 1) EXCEPT !.made = @ + 1])
    /\ UNCHANGED <<tokens, gauge, sent, paid, counted>>

\* The breaker, an external library, lets a call through or refuses it.
Breaker(c, open) ==
    /\ Meets(c, "down", {"breaker"})
    /\ Moves(c, IF open THEN Up(c, "Unavailable") ELSE Down(c, Id(c)))
    /\ UNCHANGED <<tokens, gauge, sent, paid, counted>>

\* recovery turns a panic of the handler into an error.
Recover(c) ==
    /\ Meets(c, "up", {"recovery"})
    /\ Moves(c, Up(c, IF call[c].code = "panic" THEN "Internal" ELSE call[c].code))
    /\ UNCHANGED <<tokens, gauge, sent, paid, counted>>

-----------------------------------------------------------------------------
(* Metrics. *)

\* finish, finishStream: the counter, then the gauge.
Finish(c, code) ==
    /\ counted' = [counted EXCEPT ![c] = Append(@, code)]
    /\ gauge' = [gauge EXCEPT ![call[c].method] = 0]

MetricsStart(c) ==
    /\ Meets(c, "down", {"metrics"})
    /\ gauge' = IF Skipped(c, MW(c).metrics) THEN gauge ELSE [gauge EXCEPT ![call[c].method] = 1]
    /\ Moves(c, Down(c, Id(c)))
    /\ UNCHANGED <<tokens, sent, paid, counted>>

\* A stream that was opened is counted when it ends, one that was not right away.
MetricsEnd(c) ==
    /\ Meets(c, "up", {"metrics"})
    /\ IF Skipped(c, MW(c).metrics) \/ (Stream(c) /\ call[c].code = "OK")
       THEN UNCHANGED <<gauge, counted>>
       ELSE Finish(c, call[c].code)
    /\ Moves(c, Up(c, call[c].code))
    /\ UNCHANGED <<tokens, sent, paid>>

Tracked(c) == MW(c) # None /\ MW(c).metrics # None /\ ~Skipped(c, MW(c).metrics)

\* trackedClientStream: RecvMsg, SendMsg or Header meets the end of the stream;
\* RecvMsg takes io.EOF for success, SendMsg for an error.
StreamEvent(c, code) ==
    /\ call[c].pc \in {"open", "ended"}
    /\ IF Tracked(c) /\ call[c].pc = "open" THEN Finish(c, code)
       ELSE UNCHANGED <<gauge, counted>>
    /\ Moves(c, IF call[c].pc = "open" THEN [call[c] EXCEPT !.pc = "ended", !.code = code]
                ELSE [call[c] EXCEPT !.pc = "done"])
    /\ UNCHANGED <<tokens, sent, paid>>

-----------------------------------------------------------------------------
(* Retry: the retrier is an external library that repeats what returned an *)
(* error, up to its attempts, its total wait or the end of the context.     *)

Retries(c) == call[c].method \in Idempotent(MW(c).retry)

RetryStart(c) ==
    /\ Meets(c, "down", {"retry"})
    /\ \/ Moves(c, [Down(c, Id(c)) EXCEPT !.tries = 1])
       \/ Retries(c) /\ c \in cancelled /\ Moves(c, Up(c, "Canceled"))
    /\ UNCHANGED <<tokens, gauge, sent, paid, counted>>

\* Mutant: whatever the code, an error is worth a retry.
RetryAgainAnyError(c) ==
    /\ Meets(c, "up", {"retry"}) /\ Retries(c)
    /\ call[c].code # "OK"
    /\ call[c].tries < MaxAttempts(MW(c).retry) /\ c \notin cancelled
    /\ Moves(c, [Down(c, Id(c)) EXCEPT !.tries = @ + 1])
    /\ UNCHANGED <<tokens, gauge, sent, paid, counted>>

RetryAgain(c) ==
    /\ Meets(c, "up", {"retry"}) /\ Retries(c)
    /\ call[c].code \in RetryCodes(MW(c).retry)
    /\ call[c].tries < MaxAttempts(MW(c).retry) /\ c \notin cancelled
    /\ Moves(c, [Down(c, Id(c)) EXCEPT !.tries = @ + 1])
    /\ UNCHANGED <<tokens, gauge, sent, paid, counted>>

\* Mutant: the caller gets what the retrier was told, nil for what is not retried.
RetryEndsNil(c) ==
    /\ Meets(c, "up", {"retry"})
    /\ call[c].tries = MaxAttempts(MW(c).retry) \/ call[c].code \notin RetryCodes(MW(c).retry)
    /\ Moves(c, Up(c, IF call[c].code \in RetryCodes(MW(c).retry) THEN call[c].code ELSE "OK"))
    /\ UNCHANGED <<tokens, gauge, sent, paid, counted>>

RetryEnds(c) ==
    /\ Meets(c, "up", {"retry"})
    /\ \/ ~Retries(c) \/ call[c].code \notin RetryCodes(MW(c).retry)
       \/ call[c].tries = MaxAttempts(MW(c).retry) \/ c \in cancelled
       \/ MW(c).retry.maxTotalWait # None
    /\ Moves(c, Up(c, call[c].code))
    /\ UNCHANGED <<tokens, gauge, sent, paid, counted>>

-----------------------------------------------------------------------------
(* The rate limiter. *)

Acquire(c) ==
    LET k == call[c].conn
    IN  /\ Meets(c, "down", {"limiter"})
        /\ \/ Skipped(c, MW(c).limiter) /\ UNCHANGED <<tokens, paid>>
           \/ /\ ~Skipped(c, MW(c).limiter) /\ tokens[k] > 0
              /\ tokens' = [tokens EXCEPT ![k] = @ - 1]
              /\ paid' = [paid EXCEPT ![c] = @ + 1]
        /\ Moves(c, Down(c, Id(c)))
        /\ UNCHANGED <<gauge, sent, counted>>

\* Without a token: Allow refuses at once, Wait when the context ends.
AcquireFails(c) ==
    LET l == MW(c).limiter
    IN  /\ Meets(c, "down", {"limiter"}) /\ ~Skipped(c, l)
        /\ IF l.wait THEN c \in cancelled ELSE tokens[call[c].conn] = 0
        /\ Moves(c, Up(c, "ResourceExhausted"))
        /\ UNCHANGED <<tokens, gauge, sent, paid, counted>>

Refill(k) ==
    /\ refills < MaxRefills /\ tokens[k] < Bucket(k)
    /\ refills' = refills + 1
    /\ tokens' = [tokens EXCEPT ![k] = @ + 1]
    /\ UNCHANGED <<config, conn, methods, selector, gauge, call, cancelled, sent, paid, counted>>

-----------------------------------------------------------------------------
(* The service. *)

\* localgrpc: the method must be registered, as what it is called as.
LookUp(c) ==
    /\ Meets(c, "down", {"invoke", "newStream"})
    /\ Moves(c, IF call[c].method \in methods[call[c].conn] THEN Down(c, Id(c))
                ELSE Up(c, "Unimplemented"))
    /\ UNCHANGED <<tokens, gauge, sent, paid, counted>>

\* Conn.invoke recovers what no middleware did.
InvokeReturns(c) ==
    /\ Meets(c, "up", {"invoke"})
    /\ Moves(c, Up(c, IF call[c].code = "panic" THEN "Unknown" ELSE call[c].code))
    /\ UNCHANGED <<tokens, gauge, sent, paid, counted>>

\* The request id header: the caller's own goes before what the stages add.
WireId(c) ==
    IF call[c].given = "header" THEN OwnId
    ELSE IF {"requestid", "requestidHeader"} \cap ToSet(Path(c)) # {} THEN Id(c) ELSE NoId

\* What a handler, or the network before it, may answer.
Answers(c) ==
    IF IsLocal(Cfg(c)) THEN IF Stream(c) THEN {"OK"} ELSE Outcomes \cup {"panic"}
    ELSE Outcomes \cup (IF c \in cancelled THEN {"Canceled"} ELSE {})

Serve(c, code) ==
    /\ Arrives(c) /\ conn[call[c].conn] # "closed" /\ code \in Answers(c)
    /\ sent' = [sent EXCEPT ![c] = Append(@, [id |-> WireId(c), code |-> code])]
    /\ Moves(c, Up(c, code))
    /\ UNCHANGED <<tokens, gauge, paid, counted>>

ServeClosed(c) ==
    /\ Arrives(c) /\ conn[call[c].conn] = "closed"
    /\ Moves(c, Up(c, "Canceled"))
    /\ UNCHANGED <<tokens, gauge, sent, paid, counted>>

Return(c) ==
    /\ call[c].pc = "up" /\ call[c].at = 0
    /\ Moves(c, [call[c] EXCEPT !.pc = IF Stream(c) /\ call[c].code = "OK" THEN "open" ELSE "done"])
    /\ UNCHANGED <<tokens, gauge, sent, paid, counted>>

-----------------------------------------------------------------------------
Step(c) ==
    \/ Cancel(c) \/ Pass(c) \/ RequestId(c) \/ Recover(c)
    \/ \E open \in BOOLEAN : Breaker(c, open)
    \/ MetricsStart(c) \/ MetricsEnd(c)
    \/ \E code \in {"OK", "Unavailable", "Unknown"} : StreamEvent(c, code)
    \/ RetryStart(c) \/ RetryAgain(c) \/ RetryEnds(c)
    \/ Acquire(c) \/ AcquireFails(c)
    \/ LookUp(c) \/ InvokeReturns(c) \/ ServeClosed(c) \/ Return(c)
    \/ \E code \in Codes : Serve(c, code)

Next ==
    \/ \E k \in Conns : NewLocal(k) \/ CloseConnection(k) \/ Refill(k)
    \/ \E k \in Conns, discovery \in BOOLEAN : NewRemote(k, discovery)
    \/ \E c \in Calls, k \in Conns : \E request \in Requests[c] : Begin(c, k, request)
    \/ \E c \in Calls : Step(c)

Spec == Init /\ [][Next]_vars

-----------------------------------------------------------------------------
(* Properties. *)

\* A panic as the interceptors of a local connection see it.
Seen(c, code) ==
    IF code # "panic" THEN code
    ELSE IF "recovery" \in ToSet(Path(c)) THEN "Internal" ELSE "Unknown"

\* The service is asked again only for an idempotent unary method, after an answer
\* that is worth a retry, and at most max_attempts times, whatever the chain around
\* the retrier does (middleware/retry, appendRetry).
RetriesJustified ==
    \A c \in Calls : Len(sent[c]) > 1 =>
        /\ MW(c) # None /\ MW(c).retry # None
        /\ Retries(c) /\ ~Stream(c)
        /\ Len(sent[c]) <= MaxAttempts(MW(c).retry)
        /\ \A i \in 1..(Len(sent[c]) - 1) : Seen(c, sent[c][i].code) \in RetryCodes(MW(c).retry)

\* A caller is told of success exactly when the last attempt had it: an error that is
\* not retried is nil to the retrier and must not become nil to the caller.
SuccessIsReal ==
    \A c \in Calls : call[c].pc = "done" /\ ~Stream(c) =>
        (call[c].code = "OK" <=> sent[c] # <<>> /\ Last(sent[c]).code = "OK")

InFlight(m) == \E c \in Calls : call[c].method = m /\ call[c].pc \in {"down", "up", "open"}

\* The breaker of a remote connection refuses a unary call before the metrics see it.
RefusedOutside(c) ==
    /\ ~IsLocal(Cfg(c)) /\ ~Stream(c) /\ MW(c).breaker
    /\ call[c].code = "Unavailable" /\ sent[c] = <<>>

\* However often it is retried and however its stream ends, a call is counted once,
\* with the code its caller got, and the gauge of a method without calls is 0.
CountedOnce ==
    /\ \A c \in Calls : call[c].pc = "done" /\ conn[call[c].conn] # "failed" =>
           \/ Tracked(c) /\ counted[c] = <<call[c].code>>
           \/ (~Tracked(c) \/ RefusedOutside(c)) /\ counted[c] = <<>>
    /\ \A m \in Methods : InFlight(m) \/ gauge[m] = 0

\* The tokens that the calls of a connection took, numbered for each call.
Spent(k) == UNION { {c} \X (1..paid[c]) : c \in {d \in Calls : call[d].conn = k} }

\* Each attempt that reaches a service has paid for itself, and the attempts of all
\* calls of a connection together never exceed what its bucket ever held.
PaidAttempts ==
    /\ \A c \in Calls :
         call[c].pc # "idle" /\ Bucket(call[c].conn) > 0 /\ ~Skipped(c, MW(c).limiter) => Len(sent[c]) <= paid[c]
    /\ \A k \in Conns : tokens[k] + Cardinality(Spent(k)) <= Bucket(k) + refills

\* All attempts of a remote call carry one request id, and an id that the caller
\* supplied is never replaced, by whichever stage adds the header.
OneRequestID ==
    \A c \in Calls : \A i \in DOMAIN sent[c] :
        /\ ~IsLocal(Cfg(c)) => sent[c][i].id = sent[c][1].id /\ sent[c][i].id # NoId
        /\ call[c].given # "none" => sent[c][i].id \in {OwnId, NoId}
=============================================================================
