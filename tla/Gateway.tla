------------------------------ MODULE Gateway ------------------------------
(***************************************************************************)
(* The requests a server handles at once, each walking through the         *)
(* middlewares of NewHTTPMiddleware or NewGRPCMiddleware to the handler of *)
(* a module and back: localisation, the request log, authentication and    *)
(* authorisation, the tenant scope, validation and the rate limits.        *)
(*                                                                         *)
(* They share the access tokens that are still valid, the policies and the *)
(* buckets of the rate limits.  A request for the API documents meets only *)
(* their own authoriser.                                                   *)
(***************************************************************************)
EXTENDS Catalog

CONSTANTS
    Requests,     \* bound: requests, each made once
    Inputs,       \* [request -> what it may ask], with what its handler answers
    Assignments,  \* the configurations tried
    Tokens,       \* access tokens
    Claims,       \* [token -> state and claims]: "live", "expired" or "forged"
    Rules,        \* the policies at the start: [tenant, role, operation, method]
    Revoked,      \* bound: the tokens that may end during a behaviour
    Withdrawn,    \* bound: the policies that may
    MaxRefills    \* bound: times a bucket gets room again

\* A request that carries a token names one of those there are; its id may be in two
\* contexts and in three headers; the ids of tenants are numbers; an operation has a
\* sequence of limits, with numbers; None is none of the reasons of an error.
ASSUME GatewayConstants ==
    /\ None \notin Tokens /\ None \notin {"INVALID_ARGUMENT", "PERMISSION_DENIED"}
    /\ \A t \in Tokens : Claims[t].tenant \in Int
    /\ \A r \in Requests : \A input \in Inputs[r] :
         /\ input.via \in {"http", "grpc", "docs"}
         /\ input.scheme # None => input.token \in Tokens
         /\ LET ids == input.ids
            IN  /\ ids.context = <<ids.context[1], ids.context[2]>>
                /\ ids.headers = <<ids.headers[1], ids.headers[2], ids.headers[3]>>
         /\ \A f \in input.message : "value" \in DOMAIN f /\ f.value \in Int
         /\ \A c \in Assignments : input.via # "docs" =>
              LET policies == c.limits[input.op]
              IN  /\ policies \in Seq({policies[i] : i \in DOMAIN policies})
                  /\ \A i \in DOMAIN policies : policies[i].capacity \in Int

DefaultTenantCode == "default"
FallbackLanguage  == "zh-CN"
Panic             == [NoError EXCEPT !.reason = "panic"]

\* The default language is in the cache, or not.
DefaultLanguage(c) == IF c.language = None THEN FallbackLanguage ELSE c.language

\* What the constructors of errors make: a key is made from the text only together with
\* a reason, and an internal error has no message of its own.
WellMade(err) ==
    /\ err = [code |-> err.code, reason |-> err.reason, key |-> err.key, text |-> err.text]
    /\ err.key \in LegacyKeys => err.reason \in DOMAIN Frozen
    /\ NormalizeStructuredError(err).reason = "INTERNAL_ERROR" => err.key \in LegacyKeys \cup {None}

\* Message files name no keys that are made from a text, have one for internal errors,
\* as Core's own do, and have every message in the default language.
ASSUME MessagesAssumption ==
    /\ None \notin Languages \cup LegacyKeys
    /\ \A c \in Assignments :
         LET catalog == NewCatalog(c.resources)
         IN  catalog.ok /\ ~Empty(catalog) =>
                /\ Keys(catalog) \cap (LegacyKeys \cup {None}) = {}
                /\ DefaultMessageKey("INTERNAL_ERROR") \in Keys(catalog)
                /\ \A key \in Keys(catalog) : Shown(catalog, DefaultLanguage(c), key)
    /\ \A r \in Requests : \A input \in Inputs[r] : WellMade(input.answer)

VARIABLES
    config,    \* what the server is made from
    valid,     \* tokens in the cache of access tokens
    rules,     \* policies in the memory of the engine
    spent,     \* what each bucket has taken, by key
    refills,   \* room that came back so far
    request,   \* each request: where it is and what it carries
    trail      \* history: the events of the log pipeline, by request

vars == <<config, valid, rules, spent, refills, request, trail>>
shared == <<config, valid, rules, spent, refills>>

NewRequest ==
    [pc |-> "idle", input |-> None, todo |-> <<>>, wraps |-> <<>>, fallback |-> None,
     identity |-> None, claims |-> None, message |-> {}, log |-> None, reply |-> NoError,
     retryAfter |-> FALSE, handled |-> FALSE, panicked |-> FALSE, shown |-> None,
     heldThen |-> FALSE, rulesThen |-> {}, took |-> <<>>]

Init ==
    /\ config \in Assignments
    /\ valid = {t \in Tokens : Claims[t].state = "live"}
    /\ rules = Rules
    /\ spent = [k \in {} |-> 0] /\ refills = 0
    /\ request = [r \in Requests |-> NewRequest]
    /\ trail = [r \in Requests |-> <<>>]

-----------------------------------------------------------------------------
(* The chain of a transport.  NewAuthenticator, NewUserToken: without the       *)
(* settings of the tokens there is no authenticator, without a cache no tokens. *)

If(condition, stage) == IF condition THEN <<stage>> ELSE <<>>

TheCatalog       == NewCatalog(config.resources)
HasAuthenticator == config.jwt # None
HasUserToken     == config.jwt # None /\ config.store # None

Chain(via) ==
    If(~Empty(TheCatalog), "i18n")
    \o If(config.logging[via] /\ HasAuthenticator, "logging")
    \o If(HasAuthenticator /\ HasUserToken, "auth")
    \o <<"tenant">> \o If(config.validate[via], "validate") \o <<"ratelimit", "handler">>

At(r, stage) == request[r].pc = "down" /\ Head(request[r].todo) = stage
In(r)        == request[r].input
Claimed(r)   == Claims[In(r).token]

Becomes(r, to) == request' = [request EXCEPT ![r] = to]
Onward(r)      == [request[r] EXCEPT !.todo = Tail(@)]
Fails(r, err)  == [request[r] EXCEPT !.pc = "up", !.reply = err]

\* History: the policies of the caller's tenant and role for the operation.
RulesFor(input) ==
    {rule \in rules : /\ input.token # None
                     /\ rule.tenant = Claims[input.token].code /\ rule.role = Claims[input.token].role
                     /\ rule.operation = input.op}

\* The transport has the request; a document request has a chain of its own.
Arrive(r, input) ==
    /\ request[r].pc = "idle" /\ TheCatalog.ok
    /\ Becomes(r, [NewRequest EXCEPT
         !.pc = "down", !.input = input, !.message = input.message,
         !.todo = IF input.via = "docs" THEN <<"docs", "handler">> ELSE Chain(input.via),
         !.heldThen = input.token \in valid,
         !.rulesThen = RulesFor(input)])
    /\ UNCHANGED <<shared, trail>>

-----------------------------------------------------------------------------
(* On the way down. *)

I18n(r) ==
    /\ At(r, "i18n")
    /\ Becomes(r, [Onward(r) EXCEPT
         !.fallback = DefaultLanguage(config), !.wraps = <<"i18n">> \o @])
    /\ UNCHANGED <<shared, trail>>

Authenticated(r) == In(r).scheme # None /\ Claimed(r).state = "live"

FirstGiven(values) ==
    LET given == {i \in DOMAIN values : values[i] # None} IN IF given = {} THEN None ELSE values[Min(given)]

\* requestmeta.RequestID: of the contexts of the two transports, else of the headers.
RequestID(r) == FirstGiven(In(r).ids.context \o In(r).ids.headers)

\* getRequestID looks at the same headers again.
LogRequestID(r) == FirstGiven(<<RequestID(r)>> \o In(r).ids.headers)

\* extractAuthToken takes off "Bearer " as it is written, whatever the cache says of
\* the token; getClientRealIP trusts the headers of the proxies.
LogUser(r) ==
    IF In(r).scheme = "Bearer" /\ Claimed(r).state = "live" THEN Claimed(r).user ELSE 0

LogIP(r) == FirstGiven(In(r).forwarded \o <<In(r).remote>>)

\* Only over HTTP does the log know more than the operation.
Logging(r) ==
    LET known == In(r).via = "http"
    IN  /\ At(r, "logging")
        /\ Becomes(r, [Onward(r) EXCEPT
             !.wraps = <<"logging">> \o @,
             !.log = [op |-> In(r).op, id |-> IF known THEN LogRequestID(r) ELSE None,
                      user |-> IF known THEN LogUser(r) ELSE 0,
                      ip |-> IF known THEN LogIP(r) ELSE None,
                      body |-> known /\ In(r).op \notin config.files]])
        /\ UNCHANGED <<shared, trail>>

\* Each kind of entry of a list that fits the operation; a bad pattern fits none.
MatchWhiteList(list, op) ==
    list # None /\ op \in list.prefix \cup list.regex \cup list.path \cup list.match

\* OptionalServer, an external library, takes an identity where there is one.
Auth(r) ==
    LET op == In(r).op
    IN  /\ At(r, "auth")
        /\ Becomes(r,
             IF MatchWhiteList(config.optional, op)
             THEN [Onward(r) EXCEPT !.identity =
                       IF Authenticated(r) /\ (Claimed(r).user = 0 \/ In(r).token \in valid)
                       THEN Claimed(r) ELSE None]
             ELSE IF MatchWhiteList(config.white, op) THEN Onward(r)
             ELSE [request[r] EXCEPT !.todo = <<"authn", "claims", "authorize">> \o Tail(@)])
        /\ UNCHANGED <<shared, trail>>

\* The authenticator, an external library; mapAuthnError.
Authn(r) ==
    /\ At(r, "authn")
    /\ Becomes(r,
         IF Authenticated(r) THEN [Onward(r) EXCEPT !.identity = Claimed(r)]
         ELSE Fails(r, Reasoned(401,
              IF In(r).scheme = None THEN "ACCESS_TOKEN_NOT_EXIST"
              ELSE IF Claimed(r).state = "expired" THEN "ACCESS_TOKEN_EXPIRED"
              ELSE "UNAUTHORIZED", "sign in again")))
    /\ UNCHANGED <<shared, trail>>

\* An internal caller, user 0, is not looked up.
VerifyAccessToken(r) ==
    LET user == request[r].identity.user
    IN  user # None /\ (user = 0 \/ In(r).token \in valid)

\* requestAction: gRPC has no method.
RequestAction(r) == IF In(r).via = "http" THEN In(r).method ELSE "ANY"

\* Mutant: whose role it is stays at its default.
AuthzClaimsOfDefault(id, op, action) ==
    [tenant |-> DefaultTenantCode, role |-> id.role, operation |-> op, method |-> action]

\* What the engine is asked for: a policy of the caller's tenant and role.
AuthzClaims(id, op, action) ==
    [tenant |-> id.code, role |-> id.role, operation |-> op, method |-> action]

AuthClaims(r) ==
    LET id == request[r].identity
    IN  /\ At(r, "claims")
        /\ Becomes(r,
             IF ~VerifyAccessToken(r) \/ id.code = None \/ id.role = None
             THEN Fails(r, Reasoned(401, "ACCESS_TOKEN_EXPIRED", "sign in again"))
             ELSE [Onward(r) EXCEPT !.claims = AuthzClaims(id, In(r).op, RequestAction(r))])
        /\ UNCHANGED <<shared, trail>>

\* IsAuthorized with its event: one evaluation, allowed, denied or failed.
Authorize(r, decision) ==
    LET allowed == request[r].claims \in rules
    IN  /\ At(r, "authorize")
        /\ decision \in {"error", IF allowed THEN "allow" ELSE "deny"}
        /\ trail' = [trail EXCEPT ![r] = Append(@,
             [kind |-> "policy", decision |-> decision, id |-> RequestID(r), op |-> In(r).op,
              user |-> request[r].identity.user,
              code |-> CASE decision = "allow" -> 200 [] decision = "deny" -> 403 [] OTHER -> 500])]
        /\ Becomes(r, IF decision = "allow" THEN Onward(r)
                      ELSE Fails(r, Reasoned(403, "FORBIDDEN", "not yours")))
        /\ UNCHANGED shared

-----------------------------------------------------------------------------
(* The tenant scope.  The message is a set of its tenant_id fields, each with the *)
(* types it is nested in, from the request down: a type is not entered again      *)
(* inside itself, and siblings are.                                               *)

Visited(field) == IsInjective(field.path)

HasTenantField(message) == \E f \in message : Visited(f)

Scope(message) == {f \in message : Visited(f) /\ f.int64}

\* What applyTenantID refuses in a field, for an identity of an ordinary tenant.
TenantError(field, id) ==
    IF id.tenant <= 0 THEN "INVALID_ARGUMENT"
    ELSE IF field.presence /\ field.has /\ field.value = 0 THEN "INVALID_ARGUMENT"
    ELSE IF field.value > 0 /\ field.value # id.tenant THEN "PERMISSION_DENIED"
    ELSE None

\* Mutant: only the request itself is completed, not what it holds.
ScopedTop(field, id) ==
    IF field.value = 0 /\ Len(field.path) = 1 THEN [field EXCEPT !.value = id.tenant, !.has = TRUE] ELSE field

Scoped(field, id) ==
    IF field.value = 0 THEN [field EXCEPT !.value = id.tenant, !.has = TRUE] ELSE field

\* The fields come in the order of the message, of a map in any: the first to be
\* refused decides.
Tenant(r) ==
    LET message  == request[r].message
        id       == request[r].identity
        scope    == Scope(message)
        ordinary == id # None /\ id.code # DefaultTenantCode
        errors   == IF ordinary THEN {TenantError(f, id) : f \in scope} \ {None} ELSE {}
    IN  /\ At(r, "tenant")
        /\ IF ~HasTenantField(message) THEN Becomes(r, Onward(r))
           ELSE IF id = None THEN Becomes(r, Fails(r, Structured("UNAUTHENTICATED", "sign in again")))
           ELSE IF errors # {}
           THEN \E reason \in errors : Becomes(r, Fails(r, Structured(reason, "not yours")))
           ELSE Becomes(r, [Onward(r) EXCEPT !.message =
                    IF ordinary THEN {IF f \in scope THEN Scoped(f, id) ELSE f : f \in @} ELSE @])
        /\ UNCHANGED <<shared, trail>>

\* The first violation names the rule, a standard one under a common key.
StandardValidationMessageKey(violation) ==
    CASE violation.rule = "required"              -> "common.validation.required"
      [] violation.rule \in {"standard", None}    -> "common.validation.invalid"
      [] OTHER                                    -> violation.rule

Validate(r) ==
    LET v == In(r).violation
    IN  /\ At(r, "validate")
        /\ Becomes(r,
             IF v = None THEN Onward(r)
             ELSE IF v.rule = "broken"
             THEN Fails(r, WithMessageKey(Structured("INVALID_ARGUMENT", "bad request"), DefaultMessageKey("INVALID_ARGUMENT")))
             ELSE Fails(r, WithMessageKey(Structured("INVALID_ARGUMENT", "bad request"), StandardValidationMessageKey(v))))
        /\ UNCHANGED <<shared, trail>>

-----------------------------------------------------------------------------
(* The rate limits. *)

\* hostIP keeps what is an address.
PolicyIdentity(r, dimension) ==
    LET id == request[r].identity
    IN  CASE dimension = "GLOBAL" -> "global"
          [] dimension = "IP"     -> In(r).remote
          [] dimension = "TENANT" -> IF id # None /\ id.tenant > 0 THEN ToString(id.tenant) ELSE None
          [] dimension = "USER"   -> IF id # None /\ id.user # 0 THEN ToString(id.user) ELSE None
          [] dimension = "OAUTH_CLIENT" ->
               IF In(r).client # None THEN In(r).client
               ELSE IF id # None /\ id.user < 0 THEN id.name ELSE None
          [] OTHER -> None

\* Mutant: what identifies a user or a tenant is taken to differ.
BucketKeyWithoutDimension(op, dimension, identity, algorithm) ==
    <<op, identity, IF algorithm = None THEN "TOKEN_BUCKET" ELSE algorithm>>

\* The token bucket is what a policy without an algorithm means.
BucketKey(op, dimension, identity, algorithm) ==
    <<op, dimension, identity, IF algorithm = None THEN "TOKEN_BUCKET" ELSE algorithm>>

Spent(key) == IF key \in DOMAIN spent THEN spent[key] ELSE 0

Keys_(r, policies) ==
    [i \in DOMAIN policies |->
        BucketKey(In(r).op, policies[i].dimension, PolicyIdentity(r, policies[i].dimension), policies[i].algorithm)]

Unavailable == Plain(503, "limits unavailable")
Limited     == Plain(429, "too many")

\* TakeRateLimits, an external cache: all the buckets have room and give it, or none.
TakeRateLimits(r, keys, policies) ==
    LET Asked(key) == Cardinality({i \in DOMAIN keys : keys[i] = key})
        room == \A i \in DOMAIN keys : Spent(keys[i]) + Asked(keys[i]) <= policies[i].capacity
    IN  IF room
        THEN /\ spent' = [k \in DOMAIN spent \cup ToSet(keys) |-> Spent(k) + Asked(k)]
             /\ Becomes(r, [Onward(r) EXCEPT !.took = policies])
        ELSE Becomes(r, [Fails(r, Limited) EXCEPT !.retryAfter = TRUE]) /\ UNCHANGED spent

RateLimit(r, resolved) ==
    LET policies == config.limits[In(r).op]
        without  == config.store = None \/ ~config.resolver
        unknown  == \E i \in DOMAIN policies : PolicyIdentity(r, policies[i].dimension) = None
    IN  /\ At(r, "ratelimit")
        /\ IF without \/ (resolved /\ policies = <<>>)
           THEN Becomes(r, Onward(r)) /\ UNCHANGED spent
           ELSE IF ~resolved \/ config.store = "plain" \/ unknown
           THEN Becomes(r, Fails(r, Unavailable)) /\ UNCHANGED spent
           ELSE TakeRateLimits(r, Keys_(r, policies), policies)
        /\ UNCHANGED <<config, valid, rules, refills, trail>>

-----------------------------------------------------------------------------
(* The handler and the way up. *)

\* newOpenAPIAuthorizer: without authentication the documents are open.
Docs(r) ==
    /\ At(r, "docs")
    /\ Becomes(r, IF \/ ~HasAuthenticator \/ ~HasUserToken
                     \/ Authenticated(r) /\ Claimed(r).user # None
                        /\ (Claimed(r).user = 0 \/ In(r).token \in valid)
                  THEN Onward(r) ELSE Fails(r, Plain(401, None)))
    /\ UNCHANGED <<shared, trail>>

\* The handler of a module, which is not in this repository.
Handle(r) ==
    /\ At(r, "handler") /\ In(r).answer # Panic
    /\ Becomes(r, [request[r] EXCEPT !.pc = "up", !.handled = TRUE, !.reply = In(r).answer])
    /\ UNCHANGED <<shared, trail>>

\* A panic passes every middleware on its way to the recovery of the transport.
HandlerPanics(r) ==
    /\ At(r, "handler") /\ In(r).answer = Panic
    /\ Becomes(r, [request[r] EXCEPT !.pc = "done", !.handled = TRUE, !.panicked = TRUE,
                      !.wraps = <<>>, !.reply = Plain(500, None)])
    /\ UNCHANGED <<shared, trail>>

Upward(r) == [request[r] EXCEPT !.wraps = Tail(@)]

Above(r, stage) == request[r].pc = "up" /\ request[r].wraps # <<>> /\ Head(request[r].wraps) = stage

ApiLog(r) ==
    LET reply == request[r].reply
    IN  [kind |-> "api", success |-> reply = NoError, id |-> request[r].log.id, op |-> request[r].log.op,
         user |-> request[r].log.user, code |-> reply.code]

\* Mutant: what fails returns before the event is sent.
LogEndsOnSuccess(r) ==
    /\ Above(r, "logging")
    /\ Becomes(r, Upward(r))
    /\ trail' = [trail EXCEPT ![r] = IF request[r].reply = NoError THEN Append(@, ApiLog(r)) ELSE @]
    /\ UNCHANGED shared

LogEnds(r) ==
    /\ Above(r, "logging")
    /\ Becomes(r, Upward(r))
    /\ trail' = [trail EXCEPT ![r] = Append(@, ApiLog(r))]
    /\ UNCHANGED shared

Localized(r) == LocalizeError(TheCatalog, In(r).locale, request[r].fallback, request[r].reply)

I18nEnds(r) ==
    /\ Above(r, "i18n")
    /\ Becomes(r, [Upward(r) EXCEPT !.shown = IF request[r].reply = NoError THEN None ELSE Localized(r)])
    /\ UNCHANGED <<shared, trail>>

Reply(r) ==
    /\ request[r].pc = "up" /\ request[r].wraps = <<>>
    /\ Becomes(r, [request[r] EXCEPT !.pc = "done"])
    /\ UNCHANGED <<shared, trail>>

-----------------------------------------------------------------------------
(* What else changes the shared state. *)

\* A sign-out, or the end of the token's time in the cache.
Revoke(t) ==
    /\ t \in valid
    /\ valid' = valid \ {t}
    /\ UNCHANGED <<config, rules, spent, refills, request, trail>>

\* The policies are rebuilt; here they only become fewer.
Withdraw(rule) ==
    /\ rule \in rules
    /\ rules' = rules \ {rule}
    /\ UNCHANGED <<config, valid, spent, refills, request, trail>>

Refill(key) ==
    /\ refills < MaxRefills /\ spent[key] > 0
    /\ refills' = refills + 1
    /\ spent' = [spent EXCEPT ![key] = @ - 1]
    /\ UNCHANGED <<config, valid, rules, request, trail>>

Step(r) ==
    \/ \E input \in Inputs[r] : Arrive(r, input)
    \/ I18n(r) \/ Logging(r) \/ Auth(r) \/ Authn(r) \/ AuthClaims(r)
    \/ \E decision \in {"allow", "deny", "error"} : Authorize(r, decision)
    \/ Tenant(r) \/ Validate(r) \/ Docs(r)
    \/ \E resolved \in BOOLEAN : RateLimit(r, resolved)
    \/ Handle(r) \/ HandlerPanics(r) \/ LogEnds(r) \/ I18nEnds(r) \/ Reply(r)

Next ==
    \/ \E r \in Requests : Step(r)
    \/ \E t \in Revoked : Revoke(t)
    \/ \E rule \in Withdrawn : Withdraw(rule)
    \/ \E key \in DOMAIN spent : Refill(key)

Spec == Init /\ [][Next]_vars

-----------------------------------------------------------------------------
(* Properties. *)

Guarded(r) ==
    /\ In(r).via # "docs" /\ HasAuthenticator /\ HasUserToken
    /\ ~MatchWhiteList(config.optional, In(r).op) /\ ~MatchWhiteList(config.white, In(r).op)

\* Where the trail has the events of a kind.
Events(r, kind) == {i \in DOMAIN trail[r] : trail[r][i].kind = kind}

\* The policy a request has to have.
Needed(r) ==
    [tenant |-> Claimed(r).code, role |-> Claimed(r).role, operation |-> In(r).op, method |-> RequestAction(r)]

\* Behind full authentication a handler runs only for a token that had not been
\* revoked before the request came and for a policy that had not been withdrawn, one of
\* the caller's own tenant whatever other tenants grant to a role of the same name, and
\* after one evaluation that allowed it; the documents ask for the token alone
\* (NewAuthMiddleware, newOpenAPIAuthorizer).
HandledIsAllowed ==
    \A r \in Requests : request[r].handled =>
        LET Held == /\ In(r).scheme # None /\ Claimed(r).state = "live"
                    /\ Claimed(r).user = 0 \/ request[r].heldThen
            decisions == Events(r, "policy")
        IN  /\ Guarded(r) =>
                 /\ Held
                 /\ \E i \in decisions : decisions = {i} /\ trail[r][i].decision = "allow"
                 /\ Needed(r) \in request[r].rulesThen
            /\ ~Guarded(r) => decisions = {}
            /\ In(r).via = "docs" /\ HasAuthenticator /\ HasUserToken => Held

\* A handler sees, in the fields the middleware reaches, no tenant but the caller's, or
\* the negative marks of a query; without an identity it sees no such field, and the
\* default tenant's message is as it was sent (NewTenantScopeMiddleware).
TenantConfined ==
    \A r \in Requests : request[r].handled /\ In(r).via # "docs" =>
        LET id == request[r].identity
        IN  /\ id = None => ~HasTenantField(request[r].message)
            /\ id # None =>
                 IF id.code = DefaultTenantCode THEN request[r].message = In(r).message
                 ELSE \A f \in Scope(request[r].message) : f.value = Claimed(r).tenant \/ f.value < 0

\* What a policy counts together: the requests of one operation and one principal under
\* one algorithm, the token bucket where it names none.
Counted(r, policy) ==
    <<In(r).op, policy.dimension, PolicyIdentity(r, policy.dimension),
      IF policy.algorithm = None THEN "TOKEN_BUCKET" ELSE policy.algorithm>>

\* What the requests were given, each under each policy of its own.
Taken == UNION {{q} \X DOMAIN request[q].took : q \in Requests}

Given(r, policy) ==
    Cardinality({p \in Taken : Counted(p[1], request[p[1]].took[p[2]]) = Counted(r, policy)})

Wanted(r, policies, policy) == Cardinality({j \in DOMAIN policies : Counted(r, policies[j]) = Counted(r, policy)})

\* A limit holds for each operation and principal by itself: no more requests pass than
\* it has room for, and none is refused unless requests like it, or its own policies,
\* took the room; a refused one took nothing (NewMiddleware, bucketKey).
LimitsSeparate ==
    \A r \in Requests : request[r].input # None /\ In(r).via # "docs" =>
        LET policies == config.limits[In(r).op]
        IN  /\ \A i \in DOMAIN request[r].took : Given(r, policies[i]) <= policies[i].capacity + refills
            /\ request[r].retryAfter =>
                 /\ request[r].took = <<>>
                 /\ \E i \in DOMAIN policies : Given(r, policies[i]) + Wanted(r, policies, policies[i]) > policies[i].capacity

Logged(r) == In(r).via # "docs" /\ config.logging[In(r).via] /\ HasAuthenticator

\* A logged request leaves one API event, after its policy event: it says success exactly
\* when the client is told so, and over HTTP the two carry one request id and, where
\* the log could read the token, one user (logging.Server, emitPolicyEvaluation).
OneTrail ==
    \A r \in Requests : request[r].pc = "done" /\ ~request[r].panicked =>
        IF ~Logged(r) THEN Events(r, "api") = {}
        ELSE LET api == trail[r][Len(trail[r])]
             IN  /\ Events(r, "api") = {Len(trail[r])}
                 /\ api.success <=> request[r].reply = NoError
                 /\ \A i \in Events(r, "policy") :
                      LET policy == trail[r][i]
                      IN  /\ policy.op = api.op
                          /\ policy.decision # "allow" => ~api.success
                          /\ In(r).via = "http" => policy.id = api.id
                          /\ In(r).via = "http" /\ In(r).scheme = "Bearer" => policy.user = api.user

Translations(text) ==
    LET files == TheCatalog.files
        key   == KeyForSource(TheCatalog, text)
    IN  {[in |-> l, text |-> files[l][key]] : l \in {m \in DOMAIN files : key \in DOMAIN files[m]}}

\* The text of an internal error never reaches the client, and the text of a business
\* error is shown or translated, never replaced by that of its reason (LocalizeError).
ErrorsSayEnough ==
    \A r \in Requests : request[r].shown # None =>
        LET shown == request[r].shown
            err   == request[r].reply
        IN  /\ shown.reason = "INTERNAL_ERROR" => shown.message.in # None
            /\ err.key \in LegacyKeys /\ err.reason # "INTERNAL_ERROR" =>
                 \/ shown.message = [in |-> None, text |-> err.text]
                 \/ shown.message \in Translations(err.text)
=============================================================================
