----------------------------- MODULE MCGateway -----------------------------
(* A small instance of Gateway for TLC: two requests in flight, tokens of two
   tenants and of an internal caller, limits with room for one or two. *)
EXTENDS Gateway, TLC

Claim(state, user, tenant, code, role) ==
    [state |-> state, user |-> user, tenant |-> tenant, code |-> code, role |-> role, name |-> "ann"]

\* User 7 of tenant 7, so that only the dimension tells them apart.
MCClaims ==
    [t7     |-> Claim("live", 7, 7, "seven", "clerk"),
     t8     |-> Claim("live", 8, 7, "seven", "clerk"),
     admin  |-> Claim("live", 1, 1, DefaultTenantCode, "admin"),
     t10    |-> Claim("live", 10, 9, "nine", "clerk"),
     inner  |-> Claim("live", 0, 0, "inner", "clerk"),
     client |-> Claim("live", -5, 7, "seven", "clerk"),
     noRole |-> Claim("live", 9, 7, "seven", None),
     old    |-> Claim("expired", 7, 7, "seven", "clerk"),
     forged |-> Claim("forged", 7, 7, "seven", "clerk")]

Policy(tenant, role, method) == [tenant |-> tenant, role |-> role, operation |-> "Sell", method |-> method]

\* Clerks of tenant nine may sell nothing, whatever the clerks of other tenants may.
MCRules == {Policy("seven", "clerk", "POST"), Policy("seven", "clerk", "ANY"), Policy("inner", "clerk", "POST"),
            Policy(DefaultTenantCode, "admin", "POST"), Policy(DefaultTenantCode, "clerk", "POST")}

MCWithdrawn == {Policy("seven", "clerk", "POST")}

Field(path, has, value) == [path |-> path, int64 |-> TRUE, presence |-> FALSE, has |-> has, value |-> value]

Own     == {Field(<<"Order">>, FALSE, 0), Field(<<"Order", "Item">>, FALSE, 0), Field(<<"Order", "Item">>, TRUE, -1)}
Foreign == {Field(<<"Order">>, FALSE, 0), Field(<<"Order", "Item">>, TRUE, 8)}
Within  == {Field(<<"Order", "Item", "Order">>, TRUE, 8)}
Zero    == {[Field(<<"Order">>, TRUE, 0) EXCEPT !.presence = TRUE]}
Text    == {[Field(<<"Order">>, TRUE, 8) EXCEPT !.int64 = FALSE]}

Ask == [via |-> "http", op |-> "Sell", method |-> "POST", scheme |-> "Bearer", token |-> "t7",
        message |-> {}, violation |-> None, client |-> None, remote |-> "10.0.0.1", forwarded |-> <<None, None, None>>,
        ids |-> [context |-> <<"generated", None>>, headers |-> <<"sent", None, None>>], locale |-> "zh-CN", answer |-> NoError]

\* An error of Go, one of a business, an internal one, and what a repository wraps.
Answers ==
    { Plain(500, "row locked"), Structured("CONFLICT", "sold out"), Structured("CONFLICT", "row locked"),
      Structured("INTERNAL_ERROR", "row locked"), Structured("INTERNAL_ERROR", None),
      WithMessageKey(Structured("CONFLICT", "row locked"), "shop.sold_out") }
    \cup {WrapInternal(err, absent, "not saved") : absent \in BOOLEAN, err \in {Plain(500, "row locked"), Structured("CONFLICT", "sold out")}}

With(tokens) == {[Ask EXCEPT !.token = t] : t \in tokens}

Odd == { [Ask EXCEPT !.scheme = None, !.token = None],
         [Ask EXCEPT !.scheme = "bearer", !.locale = "fr"],
         [Ask EXCEPT !.via = "grpc", !.client = "app", !.remote = None],
         [Ask EXCEPT !.method = "DELETE", !.ids.context = <<None, "grpc">>, !.locale = "en-US"],
         [Ask EXCEPT !.forwarded[2] = "1.2.3.4", !.ids.context = <<None, None>>, !.violation = [rule |-> "required"]] }
       \cup {[Ask EXCEPT !.violation = [rule |-> rule], !.locale = "fr"] : rule \in {"standard", "broken", "shop.sold_out", None}}

Body(m, t) == [Ask EXCEPT !.message = m, !.token = t]
Bodies == {Body(m, "t7") : m \in {Own, Foreign, Within, Zero, Text}}
          \cup {Body(Foreign, "admin"), Body(Own, "admin"), Body(Own, "inner")}

Docs_ == {[Ask EXCEPT !.via = "docs", !.token = t] : t \in {"t7", "inner", "forged"}}

Free == { [Ask EXCEPT !.op = op, !.scheme = s, !.token = "t7", !.message = m] :
             op \in {"Browse", "Login"}, s \in {None, "Bearer"}, m \in {Own} }

Answered == {[Ask EXCEPT !.answer = a, !.locale = "fr"] : a \in Answers}
            \cup {[Ask EXCEPT !.answer = Structured("CONFLICT", "sold out"), !.locale = "en-US"]}
            \cup {[Ask EXCEPT !.answer = Panic]}

MCInputs == "r1" :> (With(DOMAIN MCClaims) \cup Odd \cup Bodies \cup Docs_ \cup Free \cup Answered)
         @@ "r2" :> With({"t7", "t8"})

-----------------------------------------------------------------------------
Entry(locale, file) == [locale |-> locale, file |-> file]

Common(suffix) ==
    [k \in {"common.error.INTERNAL_ERROR", "common.error.UNAUTHENTICATED", "common.error.INVALID_ARGUMENT", "common.validation.required"} |->
        k \o suffix]

Core == <<Entry("zh-CN", Common(" zh")), Entry("en-US", Common(" en"))>>
Shop == <<Entry("zh-CN", "shop.sold_out" :> "sold out"), Entry("en-US", "shop.sold_out" :> "sold out en")>>

MCTexts == {"sold out", "row locked", "not saved", "no such thing", "sign in again", "not yours", "bad request",
            "too many", "limits unavailable"}

MCKeyOrder == <<"common.error.INTERNAL_ERROR", "common.error.INVALID_ARGUMENT", "common.error.UNAUTHENTICATED",
                "common.validation.required", "shop.sold_out">>

List(ops) == [prefix |-> {}, regex |-> {}, path |-> ops, match |-> {}]

Limit(dimension, algorithm, capacity) == [dimension |-> dimension, algorithm |-> algorithm, capacity |-> capacity]

NoLimits == [Sell |-> <<>>, Browse |-> <<>>, Login |-> <<>>]
Full == [jwt |-> "ok", store |-> "atomic", resolver |-> TRUE, files |-> {"Upload"},
         logging |-> [http |-> TRUE, grpc |-> TRUE], validate |-> [http |-> TRUE, grpc |-> FALSE],
         optional |-> List({"Browse"}), white |-> List({"Login"}),
         resources |-> Shop \o Core, limits |-> NoLimits, language |-> None]

MCAssignments ==
    { [Full EXCEPT !.limits.Sell = <<Limit("TENANT", None, 2), Limit("USER", "TOKEN_BUCKET", 1)>>,
                   !.limits.Login = <<Limit("GLOBAL", None, 1)>>],
      [Full EXCEPT !.limits.Sell = <<Limit("OAUTH_CLIENT", "LEAKY_BUCKET", 1)>>, !.store = "plain"],
      [Full EXCEPT !.limits.Sell = <<Limit("IP", None, 1), Limit("GLOBAL", "FIXED_WINDOW", 2)>>,
                   !.logging.http = FALSE, !.resources = Core],
      [Full EXCEPT !.limits.Sell = <<Limit("OAUTH_CLIENT", "LEAKY_BUCKET", 1)>>, !.white = None, !.language = "en-US"],
      [Full EXCEPT !.jwt = None, !.resources = <<>>],
      [Full EXCEPT !.resources = <<Entry("zh-CN", "a" :> "x"), Entry("zh-CN", "a" :> "y")>>] }
=============================================================================
