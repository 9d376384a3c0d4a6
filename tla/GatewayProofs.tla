--------------------------- MODULE GatewayProofs ---------------------------
(***************************************************************************)
(* Theorems about Gateway, for any requests, configurations, tokens, rules *)
(* and messages.                                                           *)
(***************************************************************************)
EXTENDS Gateway, FiniteSetTheorems, SequenceTheorems, WellFoundedInduction, TLAPS

-----------------------------------------------------------------------------
(* The order of the chain, as the links between its stages. *)

Secured   == HasAuthenticator /\ HasUserToken
Logs(via) == via # "docs" /\ config.logging[via] /\ HasAuthenticator

AfterLogging   == IF Secured THEN "auth" ELSE "tenant"
AfterI18n(via) == IF Logs(via) THEN "logging" ELSE AfterLogging

Stages == {"i18n", "logging", "auth", "authn", "claims", "authorize",
           "tenant", "validate", "ratelimit", "handler", "docs"}

\* What may come next; authentication puts three stages in its own place.
Links(via) ==
    { <<"i18n", AfterI18n(via)>>, <<"logging", AfterLogging>>, <<"auth", "tenant">>,
      <<"authn", "claims">>, <<"claims", "authorize">>, <<"authorize", "tenant">>,
      <<"tenant", "validate">>, <<"tenant", "ratelimit">>, <<"validate", "ratelimit">>,
      <<"ratelimit", "handler">>, <<"docs", "handler">> }

\* A sequence of stages that ends with the handler and skips none.
Linked(via, s) ==
    /\ s \in Seq(Stages) /\ s # <<>> /\ s[Len(s)] = "handler"
    /\ \A i \in 1..Len(s) - 1 : <<s[i], s[i + 1]>> \in Links(via)

-----------------------------------------------------------------------------
(* The inductive invariant. *)

Fields == DOMAIN NewRequest

Checks == {"authn", "claims", "authorize"}

\* The stage a request is at; a handled request has been at the handler.
Place(r) ==
    IF request[r].pc = "down" THEN Head(request[r].todo)
    ELSE IF request[r].handled THEN "handler" ELSE "out"

\* Where a request under way is, what it carries and whom it comes from.
Walks(r) ==
    LET q == request[r]
    IN  /\ q.pc \in {"down", "up", "done"} /\ q.input \in Inputs[r]
        /\ q.pc = "down" =>
             /\ ~q.handled
             /\ Linked(In(r).via, q.todo)
             /\ Place(r) \in IF In(r).via = "docs" THEN {"docs", "handler"} ELSE Stages \ {"docs"}
             /\ Place(r) = "i18n" => q.wraps = <<>>
             /\ Place(r) = "logging" => Logs(In(r).via)
             /\ Place(r) \in {"auth"} \cup Checks => Secured
        /\ q.pc # "done" => ~q.panicked
        /\ q.identity # None => q.identity = Claimed(r) /\ Authenticated(r)

\* What held when a request came includes what holds now.
Remembers(r) ==
    /\ In(r).token \in valid => request[r].heldThen
    /\ RulesFor(In(r)) \subseteq request[r].rulesThen

Passed == {"tenant", "validate", "ratelimit", "handler"}
Current(r) == Claimed(r).user = 0 \/ request[r].heldThen

\* Exactly one policy event, that of a rule which allowed it.
Allowed(r) ==
    /\ \E i \in Events(r, "policy") : Events(r, "policy") = {i} /\ trail[r][i].decision = "allow"
    /\ Needed(r) \in request[r].rulesThen

\* What each stage of a guarded operation has established.
Checked(r) ==
    IF Guarded(r)
    THEN /\ Place(r) \in {"claims", "authorize"} =>
              Authenticated(r) /\ request[r].identity = Claimed(r)
         /\ Place(r) = "authorize" => Current(r) /\ request[r].claims = Needed(r)
         /\ request[r].pc = "down" /\ Place(r) \notin Passed => Events(r, "policy") = {}
         /\ Place(r) \in Passed => Authenticated(r) /\ Current(r) /\ Allowed(r)
    ELSE /\ Events(r, "policy") = {}
         /\ request[r].pc = "down" => Place(r) \notin Checks
         /\ In(r).via = "docs" /\ Secured /\ Place(r) = "handler" => Authenticated(r) /\ Current(r)

BeyondScope == Passed \ {"tenant"}

\* The message before and after the tenant scope.
Confined(r) ==
    LET q  == request[r]
        id == q.identity
    IN  /\ q.pc = "down" /\ Place(r) \notin BeyondScope => q.message = In(r).message
        /\ In(r).via # "docs" /\ Place(r) \in BeyondScope =>
             /\ id = None => ~HasTenantField(q.message)
             /\ id # None =>
                  IF id.code = DefaultTenantCode THEN q.message = In(r).message
                  ELSE \A f \in Scope(q.message) : f.value = Claimed(r).tenant \/ f.value < 0

\* What a policy event says, and that a refusal has not been forgotten.
PolicyTraced(r) ==
    \A i \in Events(r, "policy") :
        LET event == trail[r][i]
        IN  /\ Authenticated(r)
            /\ event.op = In(r).op /\ event.id = RequestID(r) /\ event.user = Claimed(r).user
            /\ event.decision # "allow" => request[r].pc # "down" /\ request[r].reply # NoError

\* What the log keeps of the request until it ends.
Noted(r) ==
    LET log == request[r].log
    IN  /\ log.op = In(r).op
        /\ In(r).via = "http" => log.id = LogRequestID(r) /\ log.user = LogUser(r)

InsideLog(r)  == request[r].wraps \in {<<"logging">>, <<"logging", "i18n">>}
OutsideLog(r) == request[r].wraps \in {<<>>, <<"i18n">>}

\* The API event follows when the log ends, and nothing after it.
ApiTraced(r) ==
    LET api   == Events(r, "api")
        event == trail[r][Len(trail[r])]
    IN  IF Logged(r)
        THEN /\ request[r].pc = "down" =>
                  IF Place(r) \in {"i18n", "logging"} THEN OutsideLog(r) ELSE InsideLog(r)
             /\ request[r].pc = "down" => api = {}
             /\ request[r].pc \in {"up", "done"} /\ ~request[r].panicked => InsideLog(r) \/ OutsideLog(r)
             /\ InsideLog(r) /\ ~request[r].panicked => api = {} /\ Noted(r)
             /\ request[r].pc = "done" /\ ~request[r].panicked => OutsideLog(r)
             /\ request[r].pc # "down" /\ OutsideLog(r) /\ ~request[r].panicked =>
                  /\ api = {Len(trail[r])}
                  /\ event.success <=> request[r].reply = NoError
                  /\ event.op = In(r).op
                  /\ In(r).via = "http" => event.id = LogRequestID(r) /\ event.user = LogUser(r)
        ELSE api = {} /\ OutsideLog(r)

\* The trail is a sequence of whatever its events are.
IsSeq(s) == s \in Seq({s[i] : i \in DOMAIN s})

Sound(r) ==
    /\ DOMAIN request[r] = Fields
    /\ IF request[r].pc = "idle" THEN request[r] = NewRequest /\ trail[r] = <<>>
       ELSE /\ Walks(r) /\ Remembers(r) /\ Checked(r) /\ Confined(r)
            /\ PolicyTraced(r) /\ ApiTraced(r) /\ IsSeq(trail[r])

GatewayInv ==
    /\ DOMAIN request = Requests /\ DOMAIN trail = Requests
    /\ \A r \in Requests : Sound(r)


-----------------------------------------------------------------------------
(* The chain. *)

\* Behind a stage comes what it is linked to.
LEMMA LinkedTail ==
    ASSUME NEW via, NEW s, Linked(via, s), Head(s) # "handler"
    PROVE  Linked(via, Tail(s)) /\ <<Head(s), Head(Tail(s))>> \in Links(via)
<1>1. s \in Seq(Stages) /\ Len(s) > 1 /\ Head(s) = s[1]
  BY DEF Linked
<1>2. /\ Tail(s) \in Seq(Stages) /\ Len(Tail(s)) = Len(s) - 1 /\ Tail(s) # <<>>
      /\ \A i \in 1..Len(s) - 1 : Tail(s)[i] = s[i + 1]
      /\ Head(Tail(s)) = s[2]
  BY <1>1
<1> QED
  BY <1>1, <1>2 DEF Linked

\* A stage in front of those it is linked to.
LEMMA LinkedCons ==
    ASSUME NEW via, NEW s, Linked(via, s), NEW x \in Stages, <<x, Head(s)>> \in Links(via)
    PROVE  Linked(via, <<x>> \o s) /\ Head(<<x>> \o s) = x
<1>1. s \in Seq(Stages) /\ Len(s) > 0 /\ Head(s) = s[1] /\ s[Len(s)] = "handler"
  BY DEF Linked
<1> DEFINE t == <<x>> \o s
<1>2. /\ t \in Seq(Stages) /\ Len(t) = Len(s) + 1 /\ t[1] = x
      /\ \A i \in 1..Len(s) : t[i + 1] = s[i]
  BY <1>1
<1>3. t # <<>> /\ Head(t) = x /\ t[Len(t)] = "handler"
  BY <1>1, <1>2
<1>4. ASSUME NEW i \in 1..Len(t) - 1 PROVE <<t[i], t[i + 1]>> \in Links(via)
  <2>1. CASE i = 1
    BY <1>1, <1>2, <2>1
  <2>2. CASE i # 1
    <3>1. i - 1 \in 1..Len(s) - 1 /\ t[i] = s[i - 1] /\ t[i + 1] = s[i - 1 + 1]
      BY <1>1, <1>2, <2>2
    <3> HIDE DEF t
    <3> QED
      BY <3>1 DEF Linked
  <2> QED
    BY <2>1, <2>2
<1> QED
  BY <1>2, <1>3, <1>4 DEF Linked

\* Authentication gives way to its three stages.
LEMMA LinkedChecks ==
    ASSUME NEW via, NEW s, Linked(via, s), Head(s) = "tenant"
    PROVE  /\ Linked(via, <<"authn", "claims", "authorize">> \o s)
           /\ Head(<<"authn", "claims", "authorize">> \o s) = "authn"
<1> DEFINE s1 == <<"authorize">> \o s
           s2 == <<"claims">> \o s1
           s3 == <<"authn">> \o s2
<1>1. Linked(via, s1) /\ Head(s1) = "authorize"
  <2>1. <<"authorize", Head(s)>> \in Links(via) /\ "authorize" \in Stages
    BY DEF Links, Stages
  <2> QED
    BY <2>1, LinkedCons
<1>2. Linked(via, s2) /\ Head(s2) = "claims"
  <2> HIDE DEF s1
  <2>1. <<"claims", Head(s1)>> \in Links(via) /\ "claims" \in Stages
    BY <1>1 DEF Links, Stages
  <2> QED
    BY <1>1, <2>1, LinkedCons
<1>3. Linked(via, s3) /\ Head(s3) = "authn"
  <2> HIDE DEF s2
  <2>1. <<"authn", Head(s2)>> \in Links(via) /\ "authn" \in Stages
    BY <1>2 DEF Links, Stages
  <2> QED
    BY <1>2, <2>1, LinkedCons
<1>4. s3 = <<"authn", "claims", "authorize">> \o s
  BY DEF Linked
<1> QED
  BY <1>3, <1>4

LEMMA ChainLinked ==
    ASSUME NEW via, via # "docs"
    PROVE  /\ Linked(via, Chain(via)) /\ Head(Chain(via)) \in {"i18n", AfterI18n(via)}
           /\ Head(Chain(via)) = "i18n" => ~Empty(TheCatalog)
<1> DEFINE i == If(~Empty(TheCatalog), "i18n")
           l == If(config.logging[via] /\ HasAuthenticator, "logging")
           a == If(HasAuthenticator /\ HasUserToken, "auth")
           v == If(config.validate[via], "validate")
           R0 == <<"ratelimit", "handler">>
           R1 == v \o R0
           R2 == <<"tenant">> \o R1
           R3 == a \o R2
           R4 == l \o R3
<1>0. /\ i \in {<<>>, <<"i18n">>} /\ v \in {<<>>, <<"validate">>}
      /\ Empty(TheCatalog) => i = <<>>
      /\ l = (IF Logs(via) THEN <<"logging">> ELSE <<>>)
      /\ a = (IF Secured THEN <<"auth">> ELSE <<>>)
  BY DEF If, Logs, Secured
<1> HIDE DEF i, l, a, v
<1>1. Linked(via, R0) /\ Head(R0) = "ratelimit"
  <2>1. R0 \in Seq(Stages) /\ Len(R0) = 2 /\ R0[1] = "ratelimit" /\ R0[2] = "handler"
    BY DEF Stages
  <2> QED
    BY <2>1 DEF Linked, Links
<1>2. Linked(via, R1) /\ Head(R1) \in {"validate", "ratelimit"}
  <2> HIDE DEF R0
  <2>1. <<"validate", Head(R0)>> \in Links(via) /\ "validate" \in Stages
    BY <1>1 DEF Links, Stages
  <2>2. Linked(via, <<"validate">> \o R0) /\ Head(<<"validate">> \o R0) = "validate"
    BY <1>1, <2>1, LinkedCons
  <2>3. <<>> \o R0 = R0
    BY <1>1 DEF Linked
  <2>4. v \in {<<>>, <<"validate">>}
    BY <1>0
  <2>5. CASE v = <<"validate">>
    BY <2>2, <2>4, <2>5, Zenon
  <2>6. CASE v = <<>>
    BY <1>1, <2>3, <2>4, <2>6, Zenon
  <2> QED
    BY <2>4, <2>5, <2>6, Zenon
<1>3. Linked(via, R2) /\ Head(R2) = "tenant"
  <2> HIDE DEF R1
  <2>1. <<"tenant", Head(R1)>> \in Links(via) /\ "tenant" \in Stages
    BY <1>2 DEF Links, Stages
  <2> QED
    BY <1>2, <2>1, LinkedCons
<1>4. Linked(via, R3) /\ Head(R3) = AfterLogging
  <2> HIDE DEF R2
  <2>1. <<"auth", Head(R2)>> \in Links(via) /\ "auth" \in Stages
    BY <1>3 DEF Links, Stages
  <2>2. Linked(via, <<"auth">> \o R2) /\ Head(<<"auth">> \o R2) = "auth"
    BY <1>3, <2>1, LinkedCons
  <2>3. <<>> \o R2 = R2
    BY <1>3 DEF Linked
  <2>4. a = IF Secured THEN <<"auth">> ELSE <<>>
    BY <1>0
  <2>5. CASE Secured
    BY <2>2, <2>4, <2>5, Zenon DEF AfterLogging
  <2>6. CASE ~Secured
    BY <1>3, <2>3, <2>4, <2>6, Zenon DEF AfterLogging
  <2> QED
    BY <2>4, <2>5, <2>6, Zenon
<1>5. Linked(via, R4) /\ Head(R4) = AfterI18n(via)
  <2> HIDE DEF R3
  <2>1. <<"logging", Head(R3)>> \in Links(via) /\ "logging" \in Stages
    BY <1>4 DEF Links, Stages
  <2>2. Linked(via, <<"logging">> \o R3) /\ Head(<<"logging">> \o R3) = "logging"
    BY <1>4, <2>1, LinkedCons
  <2>3. <<>> \o R3 = R3
    BY <1>4 DEF Linked
  <2>4. l = IF Logs(via) THEN <<"logging">> ELSE <<>>
    BY <1>0
  <2>5. CASE Logs(via)
    BY <2>2, <2>4, <2>5, Zenon DEF AfterI18n
  <2>6. CASE ~Logs(via)
    BY <1>4, <2>3, <2>4, <2>6, Zenon DEF AfterI18n
  <2> QED
    BY <2>4, <2>5, <2>6, Zenon
<1>6. /\ Linked(via, i \o R4) /\ Head(i \o R4) \in {"i18n", AfterI18n(via)}
      /\ i = <<>> => Head(i \o R4) = AfterI18n(via)
  <2> HIDE DEF R4
  <2>1. <<"i18n", Head(R4)>> \in Links(via) /\ "i18n" \in Stages
    BY <1>5 DEF Links, Stages
  <2>2. Linked(via, <<"i18n">> \o R4) /\ Head(<<"i18n">> \o R4) = "i18n"
    BY <1>5, <2>1, LinkedCons
  <2>3. <<>> \o R4 = R4
    BY <1>5 DEF Linked
  <2>4. i \in {<<>>, <<"i18n">>}
    BY <1>0
  <2>5. CASE i = <<"i18n">>
    <3>1. <<"i18n">> # <<>>
      OBVIOUS
    <3> QED
      BY <2>2, <2>4, <2>5, <3>1, Zenon
  <2>6. CASE i = <<>>
    BY <1>5, <2>3, <2>4, <2>6, Zenon
  <2> QED
    BY <2>4, <2>5, <2>6, Zenon
<1>7. Chain(via) = i \o R4
  <2>1. ASSUME NEW x \in Stages PROVE <<x>> \in Seq(Stages)
    OBVIOUS
  <2>2. i \in Seq(Stages) /\ l \in Seq(Stages) /\ a \in Seq(Stages) /\ v \in Seq(Stages)
    <3>1. <<>> \in Seq(Stages)
      OBVIOUS
    <3>2. {"i18n", "logging", "auth", "validate"} \subseteq Stages
      BY DEF Stages
    <3> QED
      BY <1>0, <2>1, <3>1, <3>2
  <2>3. <<"tenant">> \in Seq(Stages) /\ R0 \in Seq(Stages)
    BY <1>1, <2>1 DEF Stages, Linked
  <2>4. Chain(via) = ((((i \o l) \o a) \o <<"tenant">>) \o v) \o R0
    BY DEF Chain, i, l, a, v
  <2> DEFINE T == <<"tenant">>
             P2 == i \o l
             P3 == P2 \o a
             P4 == P3 \o T
             S2 == T \o R1
             S3 == a \o S2
  <2> HIDE DEF R0, T
  <2>5. T \in Seq(Stages)
    BY <2>3 DEF T
  <2>6. P2 \in Seq(Stages) /\ R1 \in Seq(Stages)
    BY <2>2, <2>3
  <2>7. P3 \in Seq(Stages) /\ S2 \in Seq(Stages)
    <3> HIDE DEF P2, R1
    <3> QED
      BY <2>2, <2>5, <2>6
  <2>8. P4 \in Seq(Stages) /\ S3 \in Seq(Stages)
    <3> HIDE DEF P3, S2
    <3> QED
      BY <2>2, <2>5, <2>7
  <2>9. (P4 \o v) \o R0 = P4 \o R1
    <3>1. P4 \in Seq(Stages) /\ v \in Seq(Stages) /\ R0 \in Seq(Stages)
      BY <2>2, <2>3, <2>8
    <3> HIDE DEF P4
    <3> QED
      BY <3>1
  <2>10. (P3 \o T) \o R1 = P3 \o S2
    <3>1. P3 \in Seq(Stages) /\ T \in Seq(Stages) /\ R1 \in Seq(Stages)
      BY <2>5, <2>6, <2>7
    <3> HIDE DEF P3, R1
    <3> QED
      BY <3>1
  <2>11. (P2 \o a) \o S2 = P2 \o S3
    <3>1. P2 \in Seq(Stages) /\ a \in Seq(Stages) /\ S2 \in Seq(Stages)
      BY <2>2, <2>6, <2>7
    <3> HIDE DEF P2, S2
    <3> QED
      BY <3>1
  <2>12. (i \o l) \o S3 = i \o (l \o S3)
    <3>1. i \in Seq(Stages) /\ l \in Seq(Stages) /\ S3 \in Seq(Stages)
      BY <2>2, <2>8
    <3> HIDE DEF S3
    <3> QED
      BY <3>1
  <2> QED
    BY <2>4, <2>9, <2>10, <2>11, <2>12 DEF T
<1>8. AfterI18n(via) # "i18n"
  BY DEF AfterI18n, AfterLogging
<1> HIDE DEF R4
<1> QED
  BY <1>0, <1>6, <1>7, <1>8


-----------------------------------------------------------------------------
(* What a step of one request leaves alone. *)

\* Everything that is made from the configuration and from what a request asks.
LEMMA SameInput ==
    ASSUME NEW r, UNCHANGED config, request'[r].input = request[r].input
    PROVE  /\ In(r)' = In(r) /\ Claimed(r)' = Claimed(r)
           /\ Authenticated(r)' <=> Authenticated(r)
           /\ Guarded(r)' <=> Guarded(r)
           /\ Logged(r)' <=> Logged(r)
           /\ Secured' <=> Secured
           /\ Logs(In(r).via)' <=> Logs(In(r).via)
           /\ Links(In(r).via)' = Links(In(r).via)
           /\ Needed(r)' = Needed(r)
           /\ RequestID(r)' = RequestID(r) /\ LogRequestID(r)' = LogRequestID(r)
           /\ LogUser(r)' = LogUser(r)
<1> USE DEF In, Claimed
<1>1. In(r)' = In(r) /\ Claimed(r)' = Claimed(r) /\ (Authenticated(r)' <=> Authenticated(r))
  BY DEF Authenticated
<1>2. (Secured' <=> Secured) /\ (HasAuthenticator' <=> HasAuthenticator) /\ (HasUserToken' <=> HasUserToken)
  BY DEF Secured, HasAuthenticator, HasUserToken
<1>3. Guarded(r)' <=> Guarded(r)
  BY <1>2 DEF Guarded, MatchWhiteList
<1>4. (Logged(r)' <=> Logged(r)) /\ (Logs(In(r).via)' <=> Logs(In(r).via))
  BY <1>2 DEF Logged, Logs
<1>5. AfterLogging' = AfterLogging
  BY <1>2 DEF AfterLogging
<1>6. Links(In(r).via)' = Links(In(r).via)
  <2>1. AfterI18n(In(r).via)' = AfterI18n(In(r).via)
    BY <1>4, <1>5 DEF AfterI18n
  <2> QED
    BY <1>5, <2>1, Zenon DEF Links
<1>7. Needed(r)' = Needed(r)
  BY DEF Needed, RequestAction
<1>8. RequestID(r)' = RequestID(r) /\ LogRequestID(r)' = LogRequestID(r)
  BY DEF RequestID, LogRequestID
<1>9. LogUser(r)' = LogUser(r)
  BY DEF LogUser
<1> QED
  BY <1>1, <1>2, <1>3, <1>4, <1>6, <1>7, <1>8, <1>9

\* A request that a step does not touch stays sound, whoever loses a token or a rule.
LEMMA Elsewhere ==
    ASSUME NEW r, Sound(r), UNCHANGED config, valid' \subseteq valid, rules' \subseteq rules,
           request'[r] = request[r], trail'[r] = trail[r]
    PROVE  Sound(r)'
<1>1. CASE request[r].pc = "idle"
  BY <1>1 DEF Sound, Fields, NewRequest
<1>2. CASE request[r].pc # "idle"
  <2> USE SameInput DEF Place
  <2>1. /\ DOMAIN request[r] = Fields /\ Walks(r) /\ Remembers(r) /\ Checked(r) /\ Confined(r)
        /\ PolicyTraced(r) /\ ApiTraced(r) /\ IsSeq(trail[r])
    BY <1>2 DEF Sound
  <2>2. Walks(r)'
    BY <2>1 DEF Walks, Linked, Checks
  <2>3. Remembers(r)'
    BY <2>1 DEF Remembers, RulesFor
  <2>4. \A kind : Events(r, kind)' = Events(r, kind)
    BY DEF Events
  <2>5. Checked(r)'
    BY <2>1, <2>4 DEF Checked, Current, Allowed
  <2>6. Confined(r)'
    BY <2>1 DEF Confined
  <2>7. PolicyTraced(r)'
    BY <2>1, <2>4 DEF PolicyTraced
  <2>8. ApiTraced(r)'
    BY <2>1, <2>4 DEF ApiTraced, Noted, InsideLog, OutsideLog
  <2> QED
    BY <1>2, <2>1, <2>2, <2>3, <2>5, <2>6, <2>7, <2>8 DEF Sound, Fields, IsSeq
<1> QED
  BY <1>1, <1>2

\* An event that is appended is the only new one.
LEMMA AppendedEvent ==
    ASSUME NEW s, IsSeq(s), NEW e
    PROVE  /\ IsSeq(Append(s, e)) /\ Len(Append(s, e)) = Len(s) + 1 /\ Len(s) \in Nat
           /\ DOMAIN s = 1..Len(s) /\ DOMAIN Append(s, e) = DOMAIN s \cup {Len(s) + 1}
           /\ Append(s, e)[Len(s) + 1] = e
           /\ \A i \in DOMAIN s : Append(s, e)[i] = s[i]
<1> DEFINE S == {s[i] : i \in DOMAIN s} \cup {e}
           t == Append(s, e)
<1>1. s \in Seq(S)
  <2>1. s \in Seq({s[i] : i \in DOMAIN s})
    BY DEF IsSeq
  <2> QED
    BY <2>1
<1> HIDE DEF S
<1>2. e \in S
  BY DEF S
<1>3. /\ Len(t) = Len(s) + 1 /\ Len(s) \in Nat
      /\ DOMAIN s = 1..Len(s) /\ DOMAIN t = 1..Len(s) + 1
      /\ t[Len(s) + 1] = e /\ t \in Seq(S)
      /\ \A i \in 1..Len(s) : t[i] = s[i]
  BY <1>1, <1>2
<1>4. t \in Seq({t[i] : i \in DOMAIN t})
  BY <1>3
<1> QED
  BY <1>3, <1>4 DEF IsSeq


-----------------------------------------------------------------------------
(* The steps of a request. *)

\* A step of r that keeps what it asks and what held when it came.
Keeps(r) ==
    /\ DOMAIN request'[r] = Fields
    /\ UNCHANGED config /\ valid' \subseteq valid /\ rules' \subseteq rules
    /\ request'[r].input = request[r].input
    /\ request'[r].heldThen = request[r].heldThen /\ request'[r].rulesThen = request[r].rulesThen

\* Without a new event, and unless a refused request came back, all of that stays true.
LEMMA Kept ==
    ASSUME NEW r, Sound(r), request[r].pc # "idle", Keeps(r), trail'[r] = trail[r],
           request[r].pc = "down" \/ (request'[r].pc # "down" /\ request'[r].reply = request[r].reply)
    PROVE  /\ Remembers(r)' /\ PolicyTraced(r)' /\ IsSeq(trail[r])'
           /\ \A kind : Events(r, kind)' = Events(r, kind)
<1> USE SameInput DEF Keeps
<1>1. Remembers(r) /\ PolicyTraced(r) /\ IsSeq(trail[r])
  BY DEF Sound
<1>2. \A kind : Events(r, kind)' = Events(r, kind)
  BY DEF Events
<1>3. Remembers(r)'
  BY <1>1 DEF Remembers, RulesFor
<1>4. PolicyTraced(r)'
  BY <1>1, <1>2 DEF PolicyTraced
<1> QED
  BY <1>1, <1>2, <1>3, <1>4 DEF IsSeq

LEMMA Pair == ASSUME NEW x, NEW y PROVE <<x>> \o <<y>> = <<x, y>>
<1> DEFINE S == {x, y}
<1>1. <<x>> \in Seq(S) /\ <<y>> \in Seq(S) /\ <<x, y>> \in Seq(S) /\ Len(<<x, y>>) = 2
  OBVIOUS
<1>2. /\ Len(<<x>> \o <<y>>) = 2 /\ (<<x>> \o <<y>>)[1] = x /\ (<<x>> \o <<y>>)[2] = y
      /\ <<x>> \o <<y>> \in Seq(S)
  BY <1>1
<1>3. \A i \in 1..2 : (<<x>> \o <<y>>)[i] = <<x, y>>[i]
  BY <1>2
<1> QED
  BY <1>1, <1>2, <1>3, SeqEqual

\* A request is not both inside and outside the log.
LEMMA LogDisjoint == ASSUME NEW r, InsideLog(r) PROVE ~OutsideLog(r)
<1>1. request[r].wraps # <<>>
  BY DEF InsideLog
<1>2. request[r].wraps # <<"i18n">>
  BY DEF InsideLog
<1> QED
  BY <1>1, <1>2 DEF OutsideLog

\* A stage that answers by itself, or the handler: the request turns back.
LEMMA Turns ==
    ASSUME NEW r, Sound(r), Keeps(r), trail'[r] = trail[r],
           request[r].pc = "down", Place(r) \notin {"i18n", "logging"},
           request'[r].pc = "up", request'[r].handled => Place(r) = "handler",
           request'[r].panicked = request[r].panicked, request'[r].wraps = request[r].wraps,
           request'[r].identity = request[r].identity, request'[r].claims = request[r].claims,
           request'[r].message = request[r].message, request'[r].log = request[r].log
    PROVE  Sound(r)'
<1>1. /\ Walks(r) /\ Checked(r) /\ Confined(r) /\ ApiTraced(r) /\ DOMAIN request[r] = Fields
  BY DEF Sound
<1>2. /\ Remembers(r)' /\ PolicyTraced(r)' /\ IsSeq(trail[r])'
      /\ \A kind : Events(r, kind)' = Events(r, kind)
  BY Kept
<1>3. Place(r)' = "out" \/ (Place(r)' = "handler" /\ Place(r) = "handler")
  BY DEF Place
<1> USE SameInput DEF Keeps
<1>4. Walks(r)'
  BY <1>1 DEF Walks
<1>5. Checked(r)'
  BY <1>1, <1>2, <1>3 DEF Checked, Passed, Current, Allowed, Checks
<1>6. Confined(r)'
  BY <1>1, <1>3 DEF Confined, BeyondScope, Passed
<1>7. ApiTraced(r)'
  <2>1. (InsideLog(r)' <=> InsideLog(r)) /\ (OutsideLog(r)' <=> OutsideLog(r))
    BY DEF InsideLog, OutsideLog
  <2>2. Logged(r) => InsideLog(r) /\ ~OutsideLog(r) /\ Events(r, "api") = {} /\ Noted(r)
    BY <1>1, LogDisjoint DEF ApiTraced, Walks
  <2>3. ~Logged(r) => OutsideLog(r) /\ Events(r, "api") = {}
    BY <1>1 DEF ApiTraced
  <2>4. Noted(r) => Noted(r)'
    BY DEF Noted
  <2> QED
    BY <1>2, <2>1, <2>2, <2>3, <2>4 DEF ApiTraced
<1> QED
  BY <1>2, <1>4, <1>5, <1>6, <1>7 DEF Sound, Fields, NewRequest

\* The next stage of a request that goes on.
LEMMA OnwardPlace ==
    ASSUME NEW r, Sound(r), Keeps(r), request[r].pc = "down", Place(r) # "handler",
           request'[r].pc = "down", request'[r].todo = Tail(request[r].todo)
    PROVE  /\ Linked(In(r).via, request[r].todo)'
           /\ <<Place(r), Place(r)'>> \in Links(In(r).via)
           /\ Place(r) \in IF In(r).via = "docs" THEN {"docs"} ELSE Stages \ {"docs"}
<1>1. Walks(r)
  BY DEF Sound
<1>2. Linked(In(r).via, request[r].todo) /\ Place(r) = Head(request[r].todo)
  BY <1>1 DEF Walks, Place
<1>3. /\ Linked(In(r).via, Tail(request[r].todo))
      /\ <<Place(r), Head(Tail(request[r].todo))>> \in Links(In(r).via)
  BY <1>2, LinkedTail
<1>4. Place(r)' = Head(Tail(request[r].todo))
  BY DEF Place
<1>5. Linked(In(r).via, request[r].todo)'
  BY <1>3, SameInput DEF Linked, Keeps
<1> QED
  BY <1>1, <1>3, <1>4, <1>5 DEF Walks

\* The stages after the tenant scope change nothing that the invariant speaks of.
LEMMA PassesLate ==
    ASSUME NEW r, Sound(r), Keeps(r), trail'[r] = trail[r], request[r].pc = "down",
           Place(r) \in {"validate", "ratelimit"},
           request'[r].pc = "down", request'[r].todo = Tail(request[r].todo),
           request'[r].handled = request[r].handled,
           request'[r].panicked = request[r].panicked, request'[r].wraps = request[r].wraps,
           request'[r].identity = request[r].identity, request'[r].claims = request[r].claims,
           request'[r].message = request[r].message, request'[r].log = request[r].log
    PROVE  Sound(r)'
<1>1. /\ Walks(r) /\ Checked(r) /\ Confined(r) /\ ApiTraced(r) /\ DOMAIN request[r] = Fields
  BY DEF Sound
<1>2. /\ Remembers(r)' /\ PolicyTraced(r)' /\ IsSeq(trail[r])'
      /\ \A kind : Events(r, kind)' = Events(r, kind)
  BY Kept
<1>3. /\ Linked(In(r).via, request[r].todo)' /\ Place(r)' \in {"ratelimit", "handler"}
      /\ In(r).via # "docs"
  BY OnwardPlace DEF Links
<1> USE SameInput DEF Keeps
<1>4. Walks(r)'
  BY <1>1, <1>3 DEF Walks, Checks, Stages
<1>5. Checked(r)'
  BY <1>1, <1>2, <1>3 DEF Checked, Passed, Current, Allowed, Checks
<1>6. Confined(r)'
  BY <1>1, <1>3 DEF Confined, BeyondScope, Passed
<1>7. ApiTraced(r)'
  BY <1>1, <1>2, <1>3 DEF ApiTraced, Noted, InsideLog, OutsideLog
<1> QED
  BY <1>2, <1>4, <1>5, <1>6, <1>7 DEF Sound, Fields, NewRequest


\* A step of r writes the record of r.
LEMMA Written ==
    ASSUME GatewayInv, NEW r \in Requests, NEW to, Becomes(r, to)
    PROVE  /\ request'[r] = to /\ DOMAIN request' = Requests
           /\ \A q \in Requests \ {r} : request'[q] = request[q]
  BY DEF GatewayInv, Becomes

\* A record with an error, and one with a stage less.
LEMMA FailsFields ==
    ASSUME NEW r, DOMAIN request[r] = Fields, NEW err, NEW to, to = Fails(r, err)
    PROVE  /\ DOMAIN to = Fields /\ to.pc = "up" /\ to.reply = err
           /\ to.input = request[r].input /\ to.todo = request[r].todo /\ to.wraps = request[r].wraps
           /\ to.identity = request[r].identity /\ to.claims = request[r].claims
           /\ to.message = request[r].message /\ to.log = request[r].log
           /\ to.handled = request[r].handled /\ to.panicked = request[r].panicked
           /\ to.heldThen = request[r].heldThen /\ to.rulesThen = request[r].rulesThen
           /\ to.took = request[r].took /\ to.retryAfter = request[r].retryAfter
           /\ to.shown = request[r].shown /\ to.fallback = request[r].fallback
  BY DEF Fails, Fields, NewRequest

LEMMA OnwardFields ==
    ASSUME NEW r, DOMAIN request[r] = Fields, NEW to, to = Onward(r)
    PROVE  /\ DOMAIN to = Fields /\ to.pc = request[r].pc /\ to.todo = Tail(request[r].todo)
           /\ to.input = request[r].input /\ to.wraps = request[r].wraps /\ to.reply = request[r].reply
           /\ to.identity = request[r].identity /\ to.claims = request[r].claims
           /\ to.message = request[r].message /\ to.log = request[r].log
           /\ to.handled = request[r].handled /\ to.panicked = request[r].panicked
           /\ to.heldThen = request[r].heldThen /\ to.rulesThen = request[r].rulesThen
           /\ to.took = request[r].took /\ to.retryAfter = request[r].retryAfter
           /\ to.shown = request[r].shown /\ to.fallback = request[r].fallback
  BY DEF Onward, Fields, NewRequest

\* A request at a stage is on its way down.
LEMMA AtStage ==
    ASSUME GatewayInv, NEW r \in Requests, NEW stage, At(r, stage)
    PROVE  /\ Sound(r) /\ DOMAIN request[r] = Fields
           /\ request[r].pc = "down" /\ Place(r) = stage /\ ~request[r].handled
           /\ Walks(r) /\ Checked(r) /\ Confined(r) /\ PolicyTraced(r) /\ ApiTraced(r)
  BY DEF GatewayInv, Sound, At, Place, Walks

LEMMA FailingSound ==
    ASSUME GatewayInv, NEW r \in Requests, NEW stage, At(r, stage), stage \notin {"i18n", "logging"},
           NEW err, request'[r] = Fails(r, err), UNCHANGED <<config, valid, rules, trail>>
    PROVE  Sound(r)'
<1>1. /\ Sound(r) /\ DOMAIN request[r] = Fields /\ request[r].pc = "down" /\ Place(r) = stage /\ ~request[r].handled
  BY AtStage
<1>2. Keeps(r)
  BY <1>1, FailsFields DEF Keeps
<1> QED
  BY <1>1, <1>2, FailsFields, Turns

LEMMA ValidateSound ==
    ASSUME GatewayInv, NEW r \in Requests, Validate(r) PROVE Sound(r)'
<1>1. At(r, "validate") /\ UNCHANGED <<config, valid, rules, trail>>
  BY DEF Validate, shared
<1>2. request'[r] = Onward(r) \/ \E err : request'[r] = Fails(r, err)
  BY Written DEF Validate
<1>3. CASE request'[r] = Onward(r)
  <2>1. Sound(r) /\ DOMAIN request[r] = Fields /\ request[r].pc = "down" /\ Place(r) = "validate"
    BY <1>1, AtStage
  <2>2. Keeps(r)
    BY <1>1, <1>3, <2>1, OnwardFields DEF Keeps
  <2> QED
    BY <1>1, <1>3, <2>1, <2>2, OnwardFields, PassesLate
<1> QED
  BY <1>1, <1>2, <1>3, FailingSound

\* Whatever a rate limit does to the buckets, the request passes or turns back.
LEMMA RateLimitSound ==
    ASSUME GatewayInv, NEW r \in Requests, NEW resolved \in BOOLEAN, RateLimit(r, resolved)
    PROVE  Sound(r)'
<1>1. At(r, "ratelimit") /\ UNCHANGED <<config, valid, rules, trail>>
  BY DEF RateLimit
<1>2. Sound(r) /\ DOMAIN request[r] = Fields /\ request[r].pc = "down" /\ Place(r) = "ratelimit" /\ ~request[r].handled
  BY <1>1, AtStage
<1>3. \/ request'[r] = Onward(r)
      \/ \E policies : request'[r] = [Onward(r) EXCEPT !.took = policies]
      \/ \E err : request'[r] = Fails(r, err)
      \/ request'[r] = [Fails(r, Limited) EXCEPT !.retryAfter = TRUE]
  <2> DEFINE policies == config.limits[In(r).op]
             taken    == [Onward(r) EXCEPT !.took = policies]
             limited  == [Fails(r, Limited) EXCEPT !.retryAfter = TRUE]
  <2>1. ASSUME NEW to, Becomes(r, to) PROVE request'[r] = to
    BY <2>1, Written
  <2>2. ASSUME TakeRateLimits(r, Keys_(r, policies), policies)
        PROVE  Becomes(r, taken) \/ Becomes(r, limited)
    BY <2>2, Zenon DEF TakeRateLimits
  <2>3. \/ Becomes(r, Onward(r)) \/ Becomes(r, Fails(r, Unavailable))
        \/ TakeRateLimits(r, Keys_(r, policies), policies)
    BY Zenon DEF RateLimit
  <2> HIDE DEF limited
  <2>4. CASE Becomes(r, Onward(r))
    BY <2>1, <2>4, Zenon
  <2>5. CASE Becomes(r, Fails(r, Unavailable))
    BY <2>1, <2>5, Zenon
  <2>6. CASE Becomes(r, taken)
    BY <2>1, <2>6, Zenon
  <2>7. CASE Becomes(r, limited)
    BY <2>1, <2>7, Zenon DEF limited
  <2> QED
    BY <2>2, <2>3, <2>4, <2>5, <2>6, <2>7
<1>4. CASE request'[r] = Onward(r) \/ \E policies : request'[r] = [Onward(r) EXCEPT !.took = policies]
  <2>1. /\ DOMAIN request'[r] = Fields /\ request'[r].pc = "down" /\ request'[r].todo = Tail(request[r].todo)
        /\ request'[r].input = request[r].input /\ request'[r].wraps = request[r].wraps
        /\ request'[r].identity = request[r].identity /\ request'[r].claims = request[r].claims
        /\ request'[r].message = request[r].message /\ request'[r].log = request[r].log
        /\ request'[r].handled = request[r].handled /\ request'[r].panicked = request[r].panicked
        /\ request'[r].heldThen = request[r].heldThen /\ request'[r].rulesThen = request[r].rulesThen
    <3>1. CASE request'[r] = Onward(r)
      BY <1>2, <3>1, OnwardFields
    <3>2. CASE \E policies : request'[r] = [Onward(r) EXCEPT !.took = policies]
      <4>1. PICK policies : request'[r] = [Onward(r) EXCEPT !.took = policies]
        BY <3>2
      <4> DEFINE on == Onward(r)
                 to == request'[r]
      <4>2. /\ DOMAIN on = Fields /\ on.pc = request[r].pc /\ on.todo = Tail(request[r].todo)
            /\ on.input = request[r].input /\ on.wraps = request[r].wraps
            /\ on.identity = request[r].identity /\ on.claims = request[r].claims
            /\ on.message = request[r].message /\ on.log = request[r].log
            /\ on.handled = request[r].handled /\ on.panicked = request[r].panicked
            /\ on.heldThen = request[r].heldThen /\ on.rulesThen = request[r].rulesThen
        BY <1>2, OnwardFields
      <4>3. to = [on EXCEPT !.took = policies]
        BY <4>1
      <4> HIDE DEF on, to
      <4>4. /\ DOMAIN to = Fields /\ to.pc = request[r].pc /\ to.todo = Tail(request[r].todo)
            /\ to.input = request[r].input /\ to.wraps = request[r].wraps
            /\ to.identity = request[r].identity /\ to.claims = request[r].claims
            /\ to.message = request[r].message /\ to.log = request[r].log
            /\ to.handled = request[r].handled /\ to.panicked = request[r].panicked
            /\ to.heldThen = request[r].heldThen /\ to.rulesThen = request[r].rulesThen
        BY <4>2, <4>3 DEF Fields, NewRequest
      <4> QED
        BY <1>2, <4>4 DEF to
    <3> QED
      BY <1>4, <3>1, <3>2, Zenon
  <2>2. Keeps(r)
    BY <1>1, <2>1 DEF Keeps
  <2> QED
    BY <1>1, <1>2, <2>1, <2>2, PassesLate
<1>5. CASE request'[r] = [Fails(r, Limited) EXCEPT !.retryAfter = TRUE]
  <2>1. /\ DOMAIN request'[r] = Fields /\ request'[r].pc = "up"
        /\ request'[r].input = request[r].input /\ request'[r].wraps = request[r].wraps
        /\ request'[r].identity = request[r].identity /\ request'[r].claims = request[r].claims
        /\ request'[r].message = request[r].message /\ request'[r].log = request[r].log
        /\ request'[r].handled = request[r].handled /\ request'[r].panicked = request[r].panicked
        /\ request'[r].heldThen = request[r].heldThen /\ request'[r].rulesThen = request[r].rulesThen
    BY <1>2, <1>5 DEF Fails, Fields, NewRequest
  <2>2. Keeps(r)
    BY <1>1, <2>1 DEF Keeps
  <2> QED
    BY <1>1, <1>2, <2>1, <2>2, Turns
<1> QED
  BY <1>1, <1>3, <1>4, <1>5, FailingSound


LEMMA DocsSound ==
    ASSUME GatewayInv, NEW r \in Requests, Docs(r) PROVE Sound(r)'
<1>1. At(r, "docs") /\ UNCHANGED <<config, valid, rules, trail>>
  BY DEF Docs, shared
<1>2. \/ /\ request'[r] = Onward(r)
         /\ Secured => /\ Authenticated(r)
                       /\ Claimed(r).user = 0 \/ In(r).token \in valid
      \/ request'[r] = Fails(r, Plain(401, None))
  BY Written DEF Docs, Secured
<1>3. CASE /\ request'[r] = Onward(r)
           /\ Secured => /\ Authenticated(r)
                         /\ Claimed(r).user = 0 \/ In(r).token \in valid
  <2>1. /\ Sound(r) /\ DOMAIN request[r] = Fields /\ request[r].pc = "down" /\ Place(r) = "docs"
        /\ Walks(r) /\ Checked(r) /\ Confined(r) /\ ApiTraced(r)
    BY <1>1, AtStage
  <2>2. Keeps(r)
    BY <1>1, <1>3, <2>1, OnwardFields DEF Keeps
  <2>3. request'[r].pc = "down" /\ request'[r].todo = Tail(request[r].todo)
    BY <1>3, <2>1, OnwardFields
  <2>4. Linked(In(r).via, request[r].todo)' /\ Place(r)' = "handler" /\ In(r).via = "docs"
    BY <2>1, <2>2, <2>3, OnwardPlace DEF Links, Stages
  <2>5. /\ Remembers(r)' /\ PolicyTraced(r)' /\ IsSeq(trail[r])'
        /\ \A kind : Events(r, kind)' = Events(r, kind)
    BY <1>1, <2>1, <2>2, Kept
  <2>6. /\ request'[r].wraps = request[r].wraps /\ request'[r].identity = request[r].identity
        /\ request'[r].handled = request[r].handled /\ request'[r].panicked = request[r].panicked
    BY <1>3, <2>1, OnwardFields
  <2> USE SameInput DEF Keeps
  <2>7. Walks(r)'
    BY <2>1, <2>2, <2>3, <2>4, <2>6 DEF Walks, Checks
  <2>8. Secured => Authenticated(r) /\ Current(r)
    BY <1>3, <2>1 DEF Sound, Remembers, Current
  <2>9. ~Guarded(r) /\ ~Logged(r)
    BY <2>1, <2>4, <2>2 DEF Guarded, Logged
  <2>10. Checked(r)'
    BY <2>1, <2>2, <2>4, <2>5, <2>8, <2>9 DEF Checked, Current, Checks
  <2>11. Confined(r)'
    BY <2>2, <2>4 DEF Confined, BeyondScope, Passed
  <2>12. ApiTraced(r)'
    BY <2>1, <2>2, <2>5, <2>6, <2>9 DEF ApiTraced, OutsideLog
  <2> QED
    BY <2>2, <2>3, <2>5, <2>7, <2>10, <2>11, <2>12 DEF Sound, Fields
<1> QED
  BY <1>1, <1>2, <1>3, FailingSound

LEMMA HandleSound ==
    ASSUME GatewayInv, NEW r \in Requests, Handle(r) PROVE Sound(r)'
<1>1. At(r, "handler") /\ UNCHANGED <<config, valid, rules, trail>>
  BY DEF Handle, shared
<1>2. /\ Sound(r) /\ DOMAIN request[r] = Fields /\ request[r].pc = "down" /\ Place(r) = "handler"
  BY <1>1, AtStage
<1>3. request'[r] = [request[r] EXCEPT !.pc = "up", !.handled = TRUE, !.reply = In(r).answer]
  BY Written DEF Handle
<1>4. /\ DOMAIN request'[r] = Fields /\ request'[r].pc = "up"
      /\ request'[r].input = request[r].input /\ request'[r].wraps = request[r].wraps
      /\ request'[r].identity = request[r].identity /\ request'[r].claims = request[r].claims
      /\ request'[r].message = request[r].message /\ request'[r].log = request[r].log
      /\ request'[r].panicked = request[r].panicked
      /\ request'[r].heldThen = request[r].heldThen /\ request'[r].rulesThen = request[r].rulesThen
  BY <1>2, <1>3 DEF Fields, NewRequest
<1>5. Keeps(r)
  BY <1>1, <1>4 DEF Keeps
<1> QED
  BY <1>1, <1>2, <1>4, <1>5, Turns

\* After a panic no middleware speaks of the request again.
LEMMA HandlerPanicsSound ==
    ASSUME GatewayInv, NEW r \in Requests, HandlerPanics(r) PROVE Sound(r)'
<1>1. At(r, "handler") /\ UNCHANGED <<config, valid, rules, trail>>
  BY DEF HandlerPanics, shared
<1>2. /\ Sound(r) /\ DOMAIN request[r] = Fields /\ request[r].pc = "down" /\ Place(r) = "handler"
      /\ Walks(r) /\ Checked(r) /\ Confined(r) /\ ApiTraced(r)
  BY <1>1, AtStage
<1>3. request'[r] = [request[r] EXCEPT !.pc = "done", !.handled = TRUE, !.panicked = TRUE,
                         !.wraps = <<>>, !.reply = Plain(500, None)]
  BY Written DEF HandlerPanics
<1>4. /\ DOMAIN request'[r] = Fields /\ request'[r].pc = "done" /\ request'[r].handled = TRUE
      /\ request'[r].panicked = TRUE /\ request'[r].wraps = <<>>
      /\ request'[r].input = request[r].input /\ request'[r].message = request[r].message
      /\ request'[r].identity = request[r].identity
      /\ request'[r].heldThen = request[r].heldThen /\ request'[r].rulesThen = request[r].rulesThen
  BY <1>2, <1>3 DEF Fields, NewRequest
<1>5. Keeps(r)
  BY <1>1, <1>4 DEF Keeps
<1>6. /\ Remembers(r)' /\ PolicyTraced(r)' /\ IsSeq(trail[r])'
      /\ \A kind : Events(r, kind)' = Events(r, kind)
  BY <1>1, <1>2, <1>5, Kept
<1>7. Place(r)' = "handler"
  BY <1>4 DEF Place
<1> USE SameInput DEF Keeps
<1>8. Walks(r)'
  BY <1>2, <1>4, <1>5 DEF Walks
<1>9. Checked(r)'
  BY <1>2, <1>4, <1>5, <1>6, <1>7, <1>1 DEF Checked, Passed, Current, Allowed, Checks
<1>10. Confined(r)'
  BY <1>2, <1>4, <1>5, <1>7 DEF Confined
<1>11. ApiTraced(r)'
  <2>1. OutsideLog(r)' /\ ~InsideLog(r)'
    <3>1. OutsideLog(r)'
      BY <1>4 DEF OutsideLog
    <3>2. InsideLog(r)' => request'[r].wraps # <<>>
      BY DEF InsideLog
    <3> QED
      BY <1>4, <3>1, <3>2
  <2> QED
    BY <1>2, <1>4, <1>5, <1>6, <2>1 DEF ApiTraced
<1> QED
  BY <1>4, <1>6, <1>8, <1>9, <1>10, <1>11 DEF Sound, Fields


\* The wrappers that return, and the end.
LEMMA Returns ==
    ASSUME NEW r, Sound(r), Keeps(r), trail'[r] = trail[r],
           request[r].pc = "up", request'[r].pc \in {"up", "done"}, OutsideLog(r), OutsideLog(r)',
           request'[r].handled = request[r].handled, request'[r].reply = request[r].reply,
           request'[r].panicked = request[r].panicked,
           request'[r].identity = request[r].identity, request'[r].message = request[r].message
    PROVE  Sound(r)'
<1>1. /\ Walks(r) /\ Checked(r) /\ Confined(r) /\ ApiTraced(r)
  BY DEF Sound
<1>2. /\ Remembers(r)' /\ PolicyTraced(r)' /\ IsSeq(trail[r])'
      /\ \A kind : Events(r, kind)' = Events(r, kind)
  BY Kept
<1>3. Place(r)' = Place(r) /\ Place(r) \in {"handler", "out"}
  BY DEF Place
<1> USE SameInput DEF Keeps
<1>4. Walks(r)'
  BY <1>1 DEF Walks
<1>5. Checked(r)'
  BY <1>1, <1>2, <1>3 DEF Checked, Passed, Current, Allowed, Checks
<1>6. Confined(r)'
  BY <1>1, <1>3 DEF Confined
<1>7. ApiTraced(r)'
  <2>1. ~InsideLog(r) /\ (InsideLog(r)' => ~OutsideLog(r)')
    BY LogDisjoint DEF InsideLog, OutsideLog
  <2> QED
    BY <1>1, <1>2, <2>1 DEF ApiTraced
<1> QED
  BY <1>2, <1>4, <1>5, <1>6, <1>7 DEF Sound, Fields, NewRequest

\* What a wrapper that returns takes off the stack.
LEMMA UpwardFields ==
    ASSUME NEW r, DOMAIN request[r] = Fields, NEW to, to = Upward(r)
    PROVE  /\ DOMAIN to = Fields /\ to.pc = request[r].pc /\ to.wraps = Tail(request[r].wraps)
           /\ to.input = request[r].input /\ to.reply = request[r].reply
           /\ to.identity = request[r].identity /\ to.message = request[r].message
           /\ to.log = request[r].log
           /\ to.handled = request[r].handled /\ to.panicked = request[r].panicked
           /\ to.heldThen = request[r].heldThen /\ to.rulesThen = request[r].rulesThen
  BY DEF Upward, Fields, NewRequest

LEMMA I18nEndsSound ==
    ASSUME GatewayInv, NEW r \in Requests, I18nEnds(r) PROVE Sound(r)'
<1>1. /\ request[r].pc = "up" /\ request[r].wraps # <<>> /\ Head(request[r].wraps) = "i18n"
      /\ UNCHANGED <<config, valid, rules, trail>>
  BY DEF I18nEnds, Above, shared
<1>2. Sound(r) /\ DOMAIN request[r] = Fields /\ Walks(r) /\ ApiTraced(r)
  BY <1>1 DEF GatewayInv, Sound
<1>3. \E shown : request'[r] = [Upward(r) EXCEPT !.shown = shown]
  BY Written DEF I18nEnds
<1>4. /\ DOMAIN request'[r] = Fields /\ request'[r].pc = "up"
      /\ request'[r].wraps = Tail(request[r].wraps)
      /\ request'[r].input = request[r].input /\ request'[r].reply = request[r].reply
      /\ request'[r].identity = request[r].identity /\ request'[r].message = request[r].message
      /\ request'[r].handled = request[r].handled /\ request'[r].panicked = request[r].panicked
      /\ request'[r].heldThen = request[r].heldThen /\ request'[r].rulesThen = request[r].rulesThen
  BY <1>1, <1>2, <1>3 DEF Upward, Fields, NewRequest
<1>5. Keeps(r)
  BY <1>1, <1>4 DEF Keeps
<1>6. InsideLog(r) \/ OutsideLog(r)
  BY <1>1, <1>2 DEF ApiTraced, Walks
<1>7. request[r].wraps = <<"i18n">>
  BY <1>1, <1>6 DEF InsideLog, OutsideLog
<1>8. OutsideLog(r) /\ OutsideLog(r)'
  BY <1>4, <1>7 DEF OutsideLog
<1> QED
  BY <1>1, <1>2, <1>4, <1>5, <1>8, Returns

LEMMA ReplySound ==
    ASSUME GatewayInv, NEW r \in Requests, Reply(r) PROVE Sound(r)'
<1>1. request[r].pc = "up" /\ request[r].wraps = <<>> /\ UNCHANGED <<config, valid, rules, trail>>
  BY DEF Reply, shared
<1>2. Sound(r) /\ DOMAIN request[r] = Fields
  BY <1>1 DEF GatewayInv, Sound
<1>3. request'[r] = [request[r] EXCEPT !.pc = "done"]
  BY Written DEF Reply
<1>4. /\ DOMAIN request'[r] = Fields /\ request'[r].pc = "done"
      /\ request'[r].wraps = request[r].wraps
      /\ request'[r].input = request[r].input /\ request'[r].reply = request[r].reply
      /\ request'[r].identity = request[r].identity /\ request'[r].message = request[r].message
      /\ request'[r].handled = request[r].handled /\ request'[r].panicked = request[r].panicked
      /\ request'[r].heldThen = request[r].heldThen /\ request'[r].rulesThen = request[r].rulesThen
  BY <1>1, <1>2, <1>3 DEF Fields, NewRequest
<1>5. Keeps(r) /\ OutsideLog(r) /\ OutsideLog(r)'
  BY <1>1, <1>4 DEF Keeps, OutsideLog
<1> QED
  BY <1>1, <1>2, <1>4, <1>5, Returns


LEMMA LogEndsSound ==
    ASSUME GatewayInv, NEW r \in Requests, LogEnds(r) PROVE Sound(r)'
<1>1. /\ request[r].pc = "up" /\ request[r].wraps # <<>> /\ Head(request[r].wraps) = "logging"
      /\ UNCHANGED <<config, valid, rules>>
  BY DEF LogEnds, Above, shared
<1>2. /\ Sound(r) /\ DOMAIN request[r] = Fields /\ Walks(r) /\ Remembers(r) /\ Checked(r) /\ Confined(r)
      /\ PolicyTraced(r) /\ ApiTraced(r) /\ IsSeq(trail[r])
  BY <1>1 DEF GatewayInv, Sound
<1>3. request'[r] = Upward(r) /\ trail'[r] = Append(trail[r], ApiLog(r))
  BY Written DEF LogEnds, GatewayInv
<1>4. /\ DOMAIN request'[r] = Fields /\ request'[r].pc = "up"
      /\ request'[r].wraps = Tail(request[r].wraps)
      /\ request'[r].input = request[r].input /\ request'[r].reply = request[r].reply
      /\ request'[r].identity = request[r].identity /\ request'[r].message = request[r].message
      /\ request'[r].handled = request[r].handled /\ request'[r].panicked = request[r].panicked
      /\ request'[r].heldThen = request[r].heldThen /\ request'[r].rulesThen = request[r].rulesThen
  BY <1>1, <1>2, <1>3, UpwardFields
<1>5. Keeps(r)
  BY <1>1, <1>4 DEF Keeps
<1>6. ~OutsideLog(r)
  BY <1>1 DEF OutsideLog
<1>7. ~request[r].panicked
  BY <1>1, <1>2 DEF Walks
<1>8. Logged(r) /\ InsideLog(r) /\ Events(r, "api") = {} /\ Noted(r)
  BY <1>1, <1>2, <1>6, <1>7 DEF ApiTraced
<1>9. OutsideLog(r)'
  <2>1. Tail(<<"logging">>) = <<>> /\ Tail(<<"logging", "i18n">>) = <<"i18n">>
    OBVIOUS
  <2>2. Tail(request[r].wraps) \in {<<>>, <<"i18n">>}
    BY <1>8, <2>1, Zenon DEF InsideLog
  <2> QED
    BY <1>4, <2>2 DEF OutsideLog
<1>10. ~InsideLog(r)'
  BY <1>9, LogDisjoint DEF InsideLog, OutsideLog
<1> DEFINE n == Len(trail[r])
           e == ApiLog(r)
<1>11. /\ n \in Nat /\ Len(trail'[r]) = n + 1 /\ IsSeq(trail[r])'
       /\ DOMAIN trail[r] = 1..n /\ DOMAIN trail'[r] = DOMAIN trail[r] \cup {n + 1}
       /\ trail'[r][n + 1] = e
       /\ \A i \in DOMAIN trail[r] : trail'[r][i] = trail[r][i]
  <2>1. IsSeq(trail[r]) /\ trail'[r] = Append(trail[r], e)
    BY <1>2, <1>3
  <2> HIDE DEF e
  <2>2. /\ IsSeq(Append(trail[r], e)) /\ Len(Append(trail[r], e)) = n + 1 /\ n \in Nat
        /\ DOMAIN trail[r] = 1..n /\ DOMAIN Append(trail[r], e) = DOMAIN trail[r] \cup {n + 1}
        /\ Append(trail[r], e)[n + 1] = e
        /\ \A i \in DOMAIN trail[r] : Append(trail[r], e)[i] = trail[r][i]
    BY <2>1, AppendedEvent
  <2>3. IsSeq(trail'[r])
    BY <2>1, <2>2
  <2> QED
    BY <2>1, <2>2, <2>3, Zenon DEF IsSeq
<1>12. /\ e.kind = "api" /\ (e.success <=> request[r].reply = NoError)
       /\ e.op = request[r].log.op /\ e.id = request[r].log.id /\ e.user = request[r].log.user
  BY DEF ApiLog
<1> HIDE DEF n, e
<1>13. Events(r, "policy")' = Events(r, "policy")
  BY <1>11, <1>12 DEF Events
<1>14. Events(r, "api")' = {n + 1}
  BY <1>8, <1>11, <1>12 DEF Events
<1>15. \A i \in Events(r, "policy") : trail'[r][i] = trail[r][i]
  BY <1>11 DEF Events
<1>16. Place(r)' = Place(r) /\ Place(r) \in {"handler", "out"}
  BY <1>1, <1>4 DEF Place
<1> USE SameInput DEF Keeps
<1>17. Walks(r)'
  BY <1>1, <1>2, <1>4, <1>5 DEF Walks
<1>18. Remembers(r)'
  BY <1>1, <1>2, <1>4, <1>5 DEF Remembers, RulesFor
<1>19. Checked(r)'
  <2>1. Allowed(r) => Allowed(r)'
    BY <1>5, <1>13, <1>15 DEF Allowed
  <2> QED
    BY <1>1, <1>2, <1>4, <1>5, <1>13, <1>16, <2>1 DEF Checked, Passed, Current, Checks
<1>20. Confined(r)'
  BY <1>1, <1>2, <1>4, <1>5, <1>16 DEF Confined
<1>21. PolicyTraced(r)'
  BY <1>1, <1>2, <1>4, <1>5, <1>13, <1>15 DEF PolicyTraced
<1>22. ApiTraced(r)'
  <2>1. Logged(r)'
    BY <1>5, <1>8
  <2> QED
    BY <1>4, <1>5, <1>8, <1>9, <1>10, <1>11, <1>12, <1>14, <2>1 DEF ApiTraced, Noted
<1> QED
  BY <1>4, <1>11, <1>17, <1>18, <1>19, <1>20, <1>21, <1>22 DEF Sound, Fields, NewRequest

-----------------------------------------------------------------------------
(* Before the checks. *)

\* A stage in front of the tenant scope that changes nothing of what was checked.
LEMMA BeforeScope ==
    ASSUME NEW r, Sound(r), Keeps(r), trail'[r] = trail[r], request[r].pc = "down",
           Place(r) \notin BeyondScope, request'[r].pc = "down",
           Place(r)' \notin BeyondScope, request'[r].message = request[r].message
    PROVE  Remembers(r)' /\ Confined(r)' /\ PolicyTraced(r)' /\ IsSeq(trail[r])'
<1>1. Confined(r)
  BY DEF Sound
<1>2. Confined(r)'
  BY <1>1, SameInput DEF Confined, Keeps
<1> QED
  BY <1>2, Kept

LEMMA I18nSound ==
    ASSUME GatewayInv, NEW r \in Requests, I18n(r) PROVE Sound(r)'
<1>1. At(r, "i18n") /\ UNCHANGED <<config, valid, rules, trail>>
  BY DEF I18n, shared
<1>2. /\ Sound(r) /\ DOMAIN request[r] = Fields /\ request[r].pc = "down" /\ Place(r) = "i18n"
      /\ ~request[r].handled /\ Walks(r) /\ Checked(r) /\ ApiTraced(r)
  BY <1>1, AtStage
<1>3. \E language : request'[r] = [Onward(r) EXCEPT !.fallback = language, !.wraps = <<"i18n">> \o @]
  BY Written DEF I18n
<1>4. request[r].wraps = <<>>
  BY <1>2 DEF Walks
<1>5. /\ DOMAIN request'[r] = Fields /\ request'[r].pc = "down"
      /\ request'[r].todo = Tail(request[r].todo)
      /\ request'[r].input = request[r].input
      /\ request'[r].identity = request[r].identity /\ request'[r].message = request[r].message
      /\ request'[r].handled = request[r].handled /\ request'[r].panicked = request[r].panicked
      /\ request'[r].heldThen = request[r].heldThen /\ request'[r].rulesThen = request[r].rulesThen
  BY <1>2, <1>3 DEF Onward, Fields, NewRequest
<1>6. request'[r].wraps = <<"i18n">>
  <2>1. request'[r].wraps = <<"i18n">> \o request[r].wraps
    BY <1>2, <1>3 DEF Onward, Fields, NewRequest
  <2> QED
    BY <1>4, <2>1
<1>7. Keeps(r)
  BY <1>1, <1>5 DEF Keeps
<1>8. /\ Linked(In(r).via, request[r].todo)' /\ Place(r)' = AfterI18n(In(r).via)
      /\ In(r).via # "docs"
  BY <1>1, <1>2, <1>5, <1>7, OnwardPlace DEF Links, Stages
<1>9. /\ Place(r)' \in {"logging", "auth", "tenant"}
      /\ Place(r)' = "logging" <=> Logs(In(r).via)
      /\ Place(r)' = "auth" => Secured
  BY <1>8 DEF AfterI18n, AfterLogging
<1>10. Remembers(r)' /\ Confined(r)' /\ PolicyTraced(r)' /\ IsSeq(trail[r])'
  BY <1>1, <1>2, <1>5, <1>7, <1>9, BeforeScope DEF BeyondScope, Passed
<1>11. \A kind : Events(r, kind)' = Events(r, kind)
  BY <1>1 DEF Events
<1> USE SameInput DEF Keeps
<1>12. Walks(r)'
  BY <1>2, <1>5, <1>7, <1>8, <1>9 DEF Walks, Checks, Stages
<1>13. Checked(r)'
  <2>1. Guarded(r) => Secured
    BY DEF Guarded, Secured
  <2>2. Guarded(r) => Place(r)' # "tenant"
    BY <1>8, <2>1 DEF AfterI18n, AfterLogging
  <2> QED
    BY <1>2, <1>5, <1>7, <1>9, <1>11, <2>2 DEF Checked, Passed, Checks
<1>14. ApiTraced(r)'
  <2>1. OutsideLog(r)'
    BY <1>6 DEF OutsideLog
  <2>2. Logged(r) <=> Logs(In(r).via)
    BY DEF Logged, Logs
  <2>3. ~InsideLog(r)'
    BY <2>1, LogDisjoint DEF InsideLog, OutsideLog
  <2> QED
    BY <1>2, <1>5, <1>7, <1>9, <1>11, <2>1, <2>2, <2>3 DEF ApiTraced
<1> QED
  BY <1>5, <1>10, <1>12, <1>13, <1>14 DEF Sound, Fields, NewRequest


LEMMA LoggingSound ==
    ASSUME GatewayInv, NEW r \in Requests, Logging(r) PROVE Sound(r)'
<1>1. At(r, "logging") /\ UNCHANGED <<config, valid, rules, trail>>
  BY DEF Logging, shared
<1>2. /\ Sound(r) /\ DOMAIN request[r] = Fields /\ request[r].pc = "down" /\ Place(r) = "logging"
      /\ ~request[r].handled /\ Walks(r) /\ Checked(r) /\ ApiTraced(r)
  BY <1>1, AtStage
<1>3. PICK log :
         /\ log.op = In(r).op
         /\ In(r).via = "http" => log.id = LogRequestID(r) /\ log.user = LogUser(r)
         /\ request'[r] = [Onward(r) EXCEPT !.wraps = <<"logging">> \o @, !.log = log]
  <2> DEFINE known == In(r).via = "http"
             log   == [op |-> In(r).op, id |-> IF known THEN LogRequestID(r) ELSE None,
                       user |-> IF known THEN LogUser(r) ELSE 0,
                       ip |-> IF known THEN LogIP(r) ELSE None,
                       body |-> known /\ In(r).op \notin config.files]
  <2>1. Becomes(r, [Onward(r) EXCEPT !.wraps = <<"logging">> \o @, !.log = log])
    BY DEF Logging
  <2>2. log.op = In(r).op /\ (In(r).via = "http" => log.id = LogRequestID(r) /\ log.user = LogUser(r))
    OBVIOUS
  <2> HIDE DEF log
  <2> QED
    BY <2>1, <2>2, Written
<1>4. /\ DOMAIN request'[r] = Fields /\ request'[r].pc = "down" /\ request'[r].log = log
      /\ request'[r].todo = Tail(request[r].todo)
      /\ request'[r].input = request[r].input
      /\ request'[r].identity = request[r].identity /\ request'[r].message = request[r].message
      /\ request'[r].handled = request[r].handled /\ request'[r].panicked = request[r].panicked
      /\ request'[r].heldThen = request[r].heldThen /\ request'[r].rulesThen = request[r].rulesThen
      /\ request'[r].wraps = <<"logging">> \o request[r].wraps
  BY <1>2, <1>3 DEF Onward, Fields, NewRequest
<1>5. Logged(r) /\ OutsideLog(r)
  <2>1. Logged(r)
    BY <1>2 DEF Walks, Logged, Logs
  <2> QED
    BY <1>2, <2>1 DEF ApiTraced
<1>6. InsideLog(r)' /\ ~OutsideLog(r)'
  <2>1. <<"logging">> \o <<>> = <<"logging">> /\ <<"logging">> \o <<"i18n">> = <<"logging", "i18n">>
    <3>1. <<"logging">> \o <<>> = <<"logging">>
      OBVIOUS
    <3> QED
      BY <3>1, Pair
  <2>2. <<"logging">> \o request[r].wraps \in {<<"logging">>, <<"logging", "i18n">>}
    BY <1>5, <2>1, Zenon DEF OutsideLog
  <2>3. InsideLog(r)'
    BY <1>4, <2>2 DEF InsideLog
  <2> QED
    BY <2>3, LogDisjoint DEF InsideLog, OutsideLog
<1>7. Keeps(r)
  BY <1>1, <1>4 DEF Keeps
<1>8. /\ Linked(In(r).via, request[r].todo)' /\ Place(r)' = AfterLogging
      /\ In(r).via # "docs"
  BY <1>1, <1>2, <1>4, <1>7, OnwardPlace DEF Links, Stages
<1>9. Place(r)' \in {"auth", "tenant"} /\ (Place(r)' = "auth" <=> Secured)
  BY <1>8 DEF AfterLogging
<1>10. Remembers(r)' /\ Confined(r)' /\ PolicyTraced(r)' /\ IsSeq(trail[r])'
  BY <1>1, <1>2, <1>4, <1>7, <1>9, BeforeScope DEF BeyondScope, Passed
<1>11. \A kind : Events(r, kind)' = Events(r, kind)
  BY <1>1 DEF Events
<1> USE SameInput DEF Keeps
<1>12. Walks(r)'
  BY <1>2, <1>4, <1>7, <1>8, <1>9 DEF Walks, Checks, Stages
<1>13. Checked(r)'
  <2>1. Guarded(r) => Place(r)' = "auth"
    BY <1>9 DEF Guarded, Secured
  <2> QED
    BY <1>2, <1>4, <1>7, <1>9, <1>11, <2>1 DEF Checked, Passed, Checks
<1>14. ApiTraced(r)'
  <2>1. Noted(r)'
    BY <1>3, <1>4, <1>7 DEF Noted
  <2>2. Events(r, "api")' = {}
    BY <1>2, <1>5, <1>11 DEF ApiTraced
  <2>3. Logged(r)'
    BY <1>5, <1>7
  <2> QED
    BY <1>4, <1>6, <1>9, <2>1, <2>2, <2>3 DEF ApiTraced
<1> QED
  BY <1>4, <1>10, <1>12, <1>13, <1>14 DEF Sound, Fields, NewRequest

\* The stages of authentication leave the log as it is.
LEMMA LogStays ==
    ASSUME NEW r, Sound(r), Keeps(r), request[r].pc = "down",
           Place(r) \notin {"i18n", "logging"}, Events(r, "api")' = Events(r, "api"),
           request'[r].pc \in {"down", "up"}, Place(r)' \notin {"i18n", "logging"},
           request'[r].panicked = request[r].panicked, request'[r].wraps = request[r].wraps,
           request'[r].log = request[r].log
    PROVE  ApiTraced(r)'
<1> USE SameInput DEF Keeps
<1>1. Walks(r) /\ ApiTraced(r)
  BY DEF Sound
<1>2. (InsideLog(r)' <=> InsideLog(r)) /\ (OutsideLog(r)' <=> OutsideLog(r))
  BY DEF InsideLog, OutsideLog
<1>3. Logged(r) => InsideLog(r) /\ ~OutsideLog(r) /\ Events(r, "api") = {} /\ Noted(r)
  BY <1>1, LogDisjoint DEF ApiTraced, Walks
<1>4. ~Logged(r) => OutsideLog(r) /\ Events(r, "api") = {}
  BY <1>1 DEF ApiTraced
<1>5. Noted(r) => Noted(r)'
  BY DEF Noted
<1> QED
  BY <1>2, <1>3, <1>4, <1>5 DEF ApiTraced

LEMMA AuthSound ==
    ASSUME GatewayInv, NEW r \in Requests, Auth(r) PROVE Sound(r)'
<1>1. At(r, "auth") /\ UNCHANGED <<config, valid, rules, trail>>
  BY DEF Auth, shared
<1>2. /\ Sound(r) /\ DOMAIN request[r] = Fields /\ request[r].pc = "down" /\ Place(r) = "auth"
      /\ ~request[r].handled /\ Walks(r) /\ Checked(r) /\ ApiTraced(r)
  BY <1>1, AtStage
<1> DEFINE open == MatchWhiteList(config.optional, In(r).op) \/ MatchWhiteList(config.white, In(r).op)
<1>3. \/ /\ open
         /\ \E identity : /\ identity # None => identity = Claimed(r) /\ Authenticated(r)
                          /\ request'[r] = [Onward(r) EXCEPT !.identity = identity]
      \/ open /\ request'[r] = Onward(r)
      \/ ~open /\ request'[r] = [request[r] EXCEPT !.todo = <<"authn", "claims", "authorize">> \o Tail(@)]
  <2>1. Becomes(r,
             IF MatchWhiteList(config.optional, In(r).op)
             THEN [Onward(r) EXCEPT !.identity =
                       IF Authenticated(r) /\ (Claimed(r).user = 0 \/ In(r).token \in valid)
                       THEN Claimed(r) ELSE None]
             ELSE IF MatchWhiteList(config.white, In(r).op) THEN Onward(r)
             ELSE [request[r] EXCEPT !.todo = <<"authn", "claims", "authorize">> \o Tail(@)])
    BY DEF Auth
  <2> QED
    BY <2>1, Written
<1>4. /\ DOMAIN request'[r] = Fields /\ request'[r].pc = "down"
      /\ request'[r].input = request[r].input /\ request'[r].message = request[r].message
      /\ request'[r].handled = request[r].handled /\ request'[r].panicked = request[r].panicked
      /\ request'[r].wraps = request[r].wraps /\ request'[r].log = request[r].log
      /\ request'[r].heldThen = request[r].heldThen /\ request'[r].rulesThen = request[r].rulesThen
      /\ open => request'[r].todo = Tail(request[r].todo)
      /\ ~open => request'[r].todo = <<"authn", "claims", "authorize">> \o Tail(request[r].todo)
      /\ request'[r].identity # None => request'[r].identity = Claimed(r) /\ Authenticated(r)
  <2>1. request[r].identity # None => request[r].identity = Claimed(r) /\ Authenticated(r)
    BY <1>2 DEF Walks
  <2>2. ASSUME open, NEW identity, identity # None => identity = Claimed(r) /\ Authenticated(r),
               request'[r] = [Onward(r) EXCEPT !.identity = identity]
        PROVE  /\ DOMAIN request'[r] = Fields /\ request'[r].pc = "down"
               /\ request'[r].input = request[r].input /\ request'[r].message = request[r].message
               /\ request'[r].handled = request[r].handled /\ request'[r].panicked = request[r].panicked
               /\ request'[r].wraps = request[r].wraps /\ request'[r].log = request[r].log
               /\ request'[r].heldThen = request[r].heldThen /\ request'[r].rulesThen = request[r].rulesThen
               /\ request'[r].todo = Tail(request[r].todo) /\ request'[r].identity = identity
    BY <1>2, <2>2 DEF Onward, Fields, NewRequest
  <2>3. CASE open /\ request'[r] = Onward(r)
    BY <1>2, <2>1, <2>3, OnwardFields
  <2>4. CASE ~open /\ request'[r] = [request[r] EXCEPT !.todo = <<"authn", "claims", "authorize">> \o Tail(@)]
    BY <1>2, <2>1, <2>4 DEF Fields, NewRequest
  <2> QED
    BY <1>3, <2>2, <2>3, <2>4
<1>5. Keeps(r)
  BY <1>1, <1>4 DEF Keeps
<1>6. In(r).via # "docs" /\ Secured
  BY <1>2 DEF Walks
<1>7. /\ Linked(In(r).via, Tail(request[r].todo)) /\ Head(Tail(request[r].todo)) = "tenant"
  <2>1. Linked(In(r).via, request[r].todo) /\ Head(request[r].todo) = "auth"
    BY <1>2 DEF Walks, Place
  <2> QED
    BY <2>1, LinkedTail DEF Links
<1>8. /\ Linked(In(r).via, request'[r].todo)
      /\ Head(request'[r].todo) = IF open THEN "tenant" ELSE "authn"
  BY <1>4, <1>7, LinkedChecks
<1>9. Guarded(r) <=> ~open
  BY <1>6 DEF Guarded, Secured
<1> HIDE DEF open
<1>10. Place(r)' = IF open THEN "tenant" ELSE "authn"
  BY <1>4, <1>8 DEF Place
<1>11. Linked(In(r).via, request[r].todo)'
  BY <1>5, <1>8, SameInput DEF Linked, Keeps
<1>12. Remembers(r)' /\ Confined(r)' /\ PolicyTraced(r)' /\ IsSeq(trail[r])'
  BY <1>1, <1>2, <1>4, <1>5, <1>10, BeforeScope DEF BeyondScope, Passed
<1>13. \A kind : Events(r, kind)' = Events(r, kind)
  BY <1>1 DEF Events
<1>14. ApiTraced(r)'
  BY <1>2, <1>4, <1>5, <1>10, <1>13, LogStays
<1> USE SameInput DEF Keeps
<1>15. Walks(r)'
  BY <1>2, <1>4, <1>5, <1>6, <1>10, <1>11 DEF Walks, Checks, Stages
<1>16. Checked(r)'
  BY <1>2, <1>4, <1>5, <1>6, <1>9, <1>10, <1>13 DEF Checked, Passed, Checks
<1> QED
  BY <1>4, <1>12, <1>14, <1>15, <1>16 DEF Sound, Fields, NewRequest

LEMMA AuthnSound ==
    ASSUME GatewayInv, NEW r \in Requests, Authn(r) PROVE Sound(r)'
<1>1. At(r, "authn") /\ UNCHANGED <<config, valid, rules, trail>>
  BY DEF Authn, shared
<1>2. \/ Authenticated(r) /\ request'[r] = [Onward(r) EXCEPT !.identity = Claimed(r)]
      \/ \E err : request'[r] = Fails(r, err)
  <2>1. \E err : Becomes(r, IF Authenticated(r) THEN [Onward(r) EXCEPT !.identity = Claimed(r)]
                            ELSE Fails(r, err))
    BY DEF Authn
  <2> QED
    BY <2>1, Written
<1>3. CASE Authenticated(r) /\ request'[r] = [Onward(r) EXCEPT !.identity = Claimed(r)]
  <2>1. /\ Sound(r) /\ DOMAIN request[r] = Fields /\ request[r].pc = "down" /\ Place(r) = "authn"
        /\ ~request[r].handled /\ Walks(r) /\ Checked(r) /\ ApiTraced(r)
    BY <1>1, AtStage
  <2>2. /\ DOMAIN request'[r] = Fields /\ request'[r].pc = "down"
        /\ request'[r].todo = Tail(request[r].todo)
        /\ request'[r].input = request[r].input /\ request'[r].message = request[r].message
        /\ request'[r].handled = request[r].handled /\ request'[r].panicked = request[r].panicked
        /\ request'[r].wraps = request[r].wraps /\ request'[r].log = request[r].log
        /\ request'[r].heldThen = request[r].heldThen /\ request'[r].rulesThen = request[r].rulesThen
        /\ request'[r].identity = Claimed(r)
    BY <1>3, <2>1 DEF Onward, Fields, NewRequest
  <2>3. Keeps(r)
    BY <1>1, <2>2 DEF Keeps
  <2>4. /\ Linked(In(r).via, request[r].todo)' /\ Place(r)' = "claims" /\ In(r).via # "docs"
    BY <2>1, <2>2, <2>3, OnwardPlace DEF Links, Stages
  <2>5. Secured /\ Guarded(r)
    BY <2>1 DEF Walks, Checked, Checks
  <2>6. Remembers(r)' /\ Confined(r)' /\ PolicyTraced(r)' /\ IsSeq(trail[r])'
    BY <1>1, <2>1, <2>2, <2>3, <2>4, BeforeScope DEF BeyondScope, Passed
  <2>7. \A kind : Events(r, kind)' = Events(r, kind)
    BY <1>1 DEF Events
  <2>8. ApiTraced(r)'
    BY <2>1, <2>2, <2>3, <2>4, <2>7, LogStays
  <2> USE SameInput DEF Keeps
  <2>9. Walks(r)'
    BY <1>3, <2>1, <2>2, <2>3, <2>4, <2>5 DEF Walks, Stages
  <2>10. Checked(r)'
    BY <1>3, <2>1, <2>2, <2>3, <2>4, <2>5, <2>7 DEF Checked, Passed, Checks
  <2> QED
    BY <2>2, <2>6, <2>8, <2>9, <2>10 DEF Sound, Fields, NewRequest
<1> QED
  BY <1>1, <1>2, <1>3, FailingSound


LEMMA AuthClaimsSound ==
    ASSUME GatewayInv, NEW r \in Requests, AuthClaims(r) PROVE Sound(r)'
<1>1. At(r, "claims") /\ UNCHANGED <<config, valid, rules, trail>>
  BY DEF AuthClaims, shared
<1> DEFINE passes == [Onward(r) EXCEPT !.claims = AuthzClaims(request[r].identity, In(r).op, RequestAction(r))]
<1>2. \/ VerifyAccessToken(r) /\ request'[r] = passes
      \/ \E err : request'[r] = Fails(r, err)
  <2>1. \E err : \/ Becomes(r, passes) /\ VerifyAccessToken(r)
                 \/ Becomes(r, Fails(r, err))
    BY DEF AuthClaims
  <2> QED
    BY <2>1, Written
<1>3. CASE VerifyAccessToken(r) /\ request'[r] = passes
  <2>1. /\ Sound(r) /\ DOMAIN request[r] = Fields /\ request[r].pc = "down" /\ Place(r) = "claims"
        /\ ~request[r].handled /\ Walks(r) /\ Checked(r) /\ ApiTraced(r)
    BY <1>1, AtStage
  <2>2. /\ DOMAIN request'[r] = Fields /\ request'[r].pc = "down"
        /\ request'[r].todo = Tail(request[r].todo)
        /\ request'[r].input = request[r].input /\ request'[r].message = request[r].message
        /\ request'[r].handled = request[r].handled /\ request'[r].panicked = request[r].panicked
        /\ request'[r].wraps = request[r].wraps /\ request'[r].log = request[r].log
        /\ request'[r].heldThen = request[r].heldThen /\ request'[r].rulesThen = request[r].rulesThen
        /\ request'[r].identity = request[r].identity
        /\ request'[r].claims = AuthzClaims(request[r].identity, In(r).op, RequestAction(r))
    BY <1>3, <2>1 DEF Onward, Fields, NewRequest
  <2>3. Keeps(r)
    BY <1>1, <2>2 DEF Keeps
  <2>4. /\ Linked(In(r).via, request[r].todo)' /\ Place(r)' = "authorize" /\ In(r).via # "docs"
    BY <2>1, <2>2, <2>3, OnwardPlace DEF Links, Stages
  <2>5. Secured /\ Guarded(r) /\ Authenticated(r) /\ request[r].identity = Claimed(r)
    BY <2>1 DEF Walks, Checked, Checks
  <2>6. Current(r) /\ request'[r].claims = Needed(r)
    <3>1. Claimed(r).user = 0 \/ In(r).token \in valid
      BY <1>3, <2>5 DEF VerifyAccessToken
    <3>2. Remembers(r)
      BY <2>1 DEF Sound
    <3> QED
      BY <2>2, <2>5, <3>1, <3>2 DEF Remembers, Current, Needed, AuthzClaims
  <2>7. Remembers(r)' /\ Confined(r)' /\ PolicyTraced(r)' /\ IsSeq(trail[r])'
    BY <1>1, <2>1, <2>2, <2>3, <2>4, BeforeScope DEF BeyondScope, Passed
  <2>8. \A kind : Events(r, kind)' = Events(r, kind)
    BY <1>1 DEF Events
  <2>9. ApiTraced(r)'
    BY <2>1, <2>2, <2>3, <2>4, <2>8, LogStays
  <2> USE SameInput DEF Keeps
  <2>10. Walks(r)'
    BY <2>1, <2>2, <2>3, <2>4, <2>5 DEF Walks, Stages
  <2>11. Checked(r)'
    BY <2>1, <2>2, <2>3, <2>4, <2>5, <2>6, <2>8 DEF Checked, Passed, Checks, Current
  <2> QED
    BY <2>2, <2>7, <2>9, <2>10, <2>11 DEF Sound, Fields, NewRequest
<1> QED
  BY <1>1, <1>2, <1>3, FailingSound

\* The one evaluation of a guarded request leaves its event, whatever it decides.
LEMMA AuthorizeSound ==
    ASSUME GatewayInv, NEW r \in Requests, NEW decision, Authorize(r, decision) PROVE Sound(r)'
<1>1. At(r, "authorize") /\ UNCHANGED <<config, valid, rules>>
  BY DEF Authorize, shared
<1>2. /\ Sound(r) /\ DOMAIN request[r] = Fields /\ request[r].pc = "down" /\ Place(r) = "authorize"
      /\ ~request[r].handled /\ Walks(r) /\ Checked(r) /\ Confined(r) /\ PolicyTraced(r) /\ ApiTraced(r)
  BY <1>1, AtStage
<1>3. /\ Secured /\ Guarded(r) /\ Authenticated(r) /\ request[r].identity = Claimed(r)
      /\ Current(r) /\ request[r].claims = Needed(r) /\ Events(r, "policy") = {}
  BY <1>2 DEF Walks, Checked, Checks, Passed
<1>4. PICK e :
         /\ e.kind = "policy" /\ e.decision = decision /\ e.id = RequestID(r) /\ e.op = In(r).op
         /\ e.user = Claimed(r).user
         /\ trail'[r] = Append(trail[r], e)
  <2> DEFINE e == [kind |-> "policy", decision |-> decision, id |-> RequestID(r), op |-> In(r).op,
                   user |-> request[r].identity.user,
                   code |-> CASE decision = "allow" -> 200 [] decision = "deny" -> 403 [] OTHER -> 500]
  <2>1. trail' = [trail EXCEPT ![r] = Append(@, e)]
    BY DEF Authorize
  <2>2. /\ e.kind = "policy" /\ e.decision = decision /\ e.id = RequestID(r) /\ e.op = In(r).op
        /\ e.user = Claimed(r).user
    BY <1>3
  <2> HIDE DEF e
  <2>3. trail'[r] = Append(trail[r], e)
    BY <2>1 DEF GatewayInv
  <2> QED
    BY <2>2, <2>3
<1> DEFINE n == Len(trail[r])
<1>5. /\ n \in Nat /\ Len(trail'[r]) = n + 1 /\ IsSeq(trail[r])'
      /\ DOMAIN trail[r] = 1..n /\ DOMAIN trail'[r] = DOMAIN trail[r] \cup {n + 1}
      /\ trail'[r][n + 1] = e
      /\ \A i \in DOMAIN trail[r] : trail'[r][i] = trail[r][i]
  <2>1. IsSeq(trail[r]) /\ trail'[r] = Append(trail[r], e)
    BY <1>2, <1>4 DEF Sound
  <2>2. /\ IsSeq(Append(trail[r], e)) /\ Len(Append(trail[r], e)) = n + 1 /\ n \in Nat
        /\ DOMAIN trail[r] = 1..n /\ DOMAIN Append(trail[r], e) = DOMAIN trail[r] \cup {n + 1}
        /\ Append(trail[r], e)[n + 1] = e
        /\ \A i \in DOMAIN trail[r] : Append(trail[r], e)[i] = trail[r][i]
    BY <2>1, AppendedEvent
  <2>3. IsSeq(trail'[r])
    BY <2>1, <2>2
  <2> QED
    BY <2>1, <2>2, <2>3, Zenon DEF IsSeq
<1> HIDE DEF n
<1>6. Events(r, "policy")' = {n + 1} /\ Events(r, "api")' = Events(r, "api")
  BY <1>3, <1>4, <1>5 DEF Events
<1>7. \/ decision = "allow" /\ Needed(r) \in rules /\ request'[r] = Onward(r)
      \/ decision # "allow" /\ \E err : err # NoError /\ request'[r] = Fails(r, err)
  <2> DEFINE err == Reasoned(403, "FORBIDDEN", "not yours")
  <2>1. err # NoError
    <3>1. err.code = 403 /\ NoError.code = 200
      BY DEF Reasoned, NoError
    <3> HIDE DEF err
    <3>2. err = NoError => err.code = NoError.code
      OBVIOUS
    <3> QED
      BY <3>1, <3>2
  <2>2. /\ decision = "allow" => request[r].claims \in rules
        /\ Becomes(r, IF decision = "allow" THEN Onward(r) ELSE Fails(r, err))
    BY DEF Authorize
  <2> HIDE DEF err
  <2> QED
    BY <1>3, <2>1, <2>2, Written
<1>8. /\ DOMAIN request'[r] = Fields
      /\ request'[r].input = request[r].input /\ request'[r].message = request[r].message
      /\ request'[r].handled = request[r].handled /\ request'[r].panicked = request[r].panicked
      /\ request'[r].wraps = request[r].wraps /\ request'[r].log = request[r].log
      /\ request'[r].identity = request[r].identity
      /\ request'[r].heldThen = request[r].heldThen /\ request'[r].rulesThen = request[r].rulesThen
      /\ decision = "allow" => request'[r].pc = "down" /\ request'[r].todo = Tail(request[r].todo)
      /\ decision # "allow" => request'[r].pc = "up" /\ request'[r].reply # NoError
  BY <1>2, <1>7, OnwardFields, FailsFields
<1>9. Keeps(r)
  BY <1>1, <1>8 DEF Keeps
<1>10. In(r).via # "docs"
  BY <1>3 DEF Guarded
<1>11. decision = "allow" => Linked(In(r).via, request[r].todo)' /\ Place(r)' = "tenant"
  BY <1>2, <1>8, <1>9, OnwardPlace DEF Links
<1>12. decision # "allow" => Place(r)' = "out"
  BY <1>2, <1>8 DEF Place
<1>13. decision = "allow" => Needed(r) \in request[r].rulesThen
  <2>1. In(r).token # None
    BY <1>2, <1>3, GatewayConstants DEF Walks, Authenticated, In
  <2>2. Needed(r) \in rules => Needed(r) \in RulesFor(In(r))
    BY <2>1 DEF Needed, RulesFor, Claimed
  <2>3. RulesFor(In(r)) \subseteq request[r].rulesThen
    BY <1>2 DEF Sound, Remembers
  <2> QED
    BY <1>7, <2>2, <2>3
<1>14. ApiTraced(r)'
  BY <1>2, <1>6, <1>8, <1>9, <1>11, <1>12, LogStays
<1> USE SameInput DEF Keeps
<1>15. Walks(r)'
  BY <1>2, <1>3, <1>8, <1>9, <1>10, <1>11, <1>12 DEF Walks, Stages, Checks
<1>16. Remembers(r)'
  BY <1>2, <1>8, <1>9 DEF Sound, Remembers, RulesFor
<1>17. Checked(r)'
  <2>1. decision = "allow" => Allowed(r)'
    BY <1>4, <1>5, <1>6, <1>8, <1>9, <1>13 DEF Allowed
  <2> QED
    BY <1>2, <1>3, <1>8, <1>9, <1>11, <1>12, <2>1 DEF Checked, Passed, Checks, Current
<1>18. Confined(r)'
  BY <1>2, <1>8, <1>9, <1>11, <1>12 DEF Confined, BeyondScope, Passed
<1>19. PolicyTraced(r)'
  BY <1>3, <1>4, <1>5, <1>6, <1>8, <1>9 DEF PolicyTraced
<1> QED
  BY <1>5, <1>8, <1>14, <1>15, <1>16, <1>17, <1>18, <1>19 DEF Sound, Fields, NewRequest


-----------------------------------------------------------------------------
(* The tenant scope. *)

\* What an ordinary tenant's message holds when none of its fields was refused.
LEMMA ScopedFields ==
    ASSUME NEW id, id.tenant \in Int, NEW message,
           \A f \in message : "value" \in DOMAIN f /\ f.value \in Int,
           \A f \in Scope(message) : TenantError(f, id) = None,
           NEW to, to = {IF f \in Scope(message) THEN Scoped(f, id) ELSE f : f \in message}
    PROVE  \A g \in Scope(to) : g.value = id.tenant \/ g.value < 0
<1> SUFFICES ASSUME NEW g \in Scope(to) PROVE g.value = id.tenant \/ g.value < 0
  OBVIOUS
<1>1. g \in to /\ Visited(g) /\ g.int64
  BY DEF Scope
<1>2. PICK f \in message : g = IF f \in Scope(message) THEN Scoped(f, id) ELSE f
  BY <1>1
<1>3. f \in Scope(message)
  BY <1>1, <1>2 DEF Scope
<1>4. "value" \in DOMAIN f /\ f.value \in Int /\ g = Scoped(f, id)
  BY <1>2, <1>3
<1>5. CASE f.value = 0
  <2>1. g = [f EXCEPT !.value = id.tenant, !.has = TRUE]
    BY <1>4, <1>5 DEF Scoped
  <2> QED
    BY <1>4, <2>1
<1>6. CASE f.value # 0
  <2>1. g = f
    BY <1>4, <1>6 DEF Scoped
  <2>2. f.value > 0 => f.value = id.tenant
    <3>1. TenantError(f, id) = None
      BY <1>3
    <3>2. None \notin {"INVALID_ARGUMENT", "PERMISSION_DENIED"}
      BY GatewayConstants
    <3> QED
      BY <3>1, <3>2, Zenon DEF TenantError
  <2> QED
    BY <1>4, <1>6, <2>1, <2>2
<1> QED
  BY <1>5, <1>6

LEMMA TenantSound ==
    ASSUME GatewayInv, NEW r \in Requests, Tenant(r) PROVE Sound(r)'
<1>1. At(r, "tenant") /\ UNCHANGED <<config, valid, rules, trail>>
  BY DEF Tenant, shared
<1>2. /\ Sound(r) /\ DOMAIN request[r] = Fields /\ request[r].pc = "down" /\ Place(r) = "tenant"
      /\ ~request[r].handled /\ Walks(r) /\ Checked(r) /\ Confined(r) /\ ApiTraced(r)
  BY <1>1, AtStage
<1> DEFINE id       == request[r].identity
           message  == request[r].message
           ordinary == id # None /\ id.code # DefaultTenantCode
           scoped   == {IF f \in Scope(message) THEN Scoped(f, id) ELSE f : f \in message}
<1>3. \/ \E err : request'[r] = Fails(r, err)
      \/ request'[r] = Onward(r) /\ ~HasTenantField(message)
      \/ /\ id # None
         /\ request'[r] = [Onward(r) EXCEPT !.message = IF ordinary THEN scoped ELSE @]
         /\ ordinary => \A f \in Scope(message) : TenantError(f, id) = None
  <2> DEFINE errors == IF ordinary THEN {TenantError(f, id) : f \in Scope(message)} \ {None} ELSE {}
  <2>1. IF ~HasTenantField(message) THEN Becomes(r, Onward(r))
        ELSE IF id = None THEN Becomes(r, Fails(r, Structured("UNAUTHENTICATED", "sign in again")))
        ELSE IF errors # {}
        THEN \E reason \in errors : Becomes(r, Fails(r, Structured(reason, "not yours")))
        ELSE Becomes(r, [Onward(r) EXCEPT !.message =
                 IF ordinary THEN {IF f \in Scope(message) THEN Scoped(f, id) ELSE f : f \in @} ELSE @])
    BY Zenon DEF Tenant
  <2>2. CASE ~HasTenantField(message)
    BY <2>1, <2>2, Written
  <2>3. CASE HasTenantField(message) /\ (id = None \/ errors # {})
    <3> HIDE DEF errors, ordinary
    <3> QED
      BY <2>1, <2>3, Written
  <2>4. CASE HasTenantField(message) /\ id # None /\ errors = {}
    <3>1. ordinary => \A f \in Scope(message) : TenantError(f, id) = None
      BY <2>4
    <3>2. Onward(r).message = message
      BY <1>2, OnwardFields
    <3>3. Becomes(r, [Onward(r) EXCEPT !.message = IF ordinary THEN scoped ELSE message])
      <4> HIDE DEF errors, ordinary
      <4> QED
        BY <2>1, <2>4, <3>2
    <3>4. request'[r] = [Onward(r) EXCEPT !.message = IF ordinary THEN scoped ELSE @]
      <4> HIDE DEF ordinary, scoped
      <4> QED
        BY <3>2, <3>3, Written
    <3> QED
      BY <2>4, <3>1, <3>4
  <2> QED
    BY <2>2, <2>3, <2>4
<1>4. CASE \E err : request'[r] = Fails(r, err)
  BY <1>1, <1>4, FailingSound
<1>5. CASE \/ request'[r] = Onward(r) /\ ~HasTenantField(message)
           \/ /\ id # None
              /\ request'[r] = [Onward(r) EXCEPT !.message = IF ordinary THEN scoped ELSE @]
              /\ ordinary => \A f \in Scope(message) : TenantError(f, id) = None
  <2> HIDE DEF ordinary, scoped
  <2>1. /\ DOMAIN request'[r] = Fields /\ request'[r].pc = "down"
        /\ request'[r].todo = Tail(request[r].todo)
        /\ request'[r].input = request[r].input
        /\ request'[r].handled = request[r].handled /\ request'[r].panicked = request[r].panicked
        /\ request'[r].wraps = request[r].wraps /\ request'[r].log = request[r].log
        /\ request'[r].heldThen = request[r].heldThen /\ request'[r].rulesThen = request[r].rulesThen
        /\ request'[r].identity = request[r].identity
        /\ \/ request'[r].message = message /\ ~HasTenantField(message)
           \/ id # None /\ ordinary /\ request'[r].message = scoped
           \/ id # None /\ ~ordinary /\ request'[r].message = message
    BY <1>2, <1>5 DEF Onward, Fields, NewRequest
  <2>2. Keeps(r)
    BY <1>1, <2>1 DEF Keeps
  <2>3. /\ Linked(In(r).via, request[r].todo)' /\ Place(r)' \in {"validate", "ratelimit"}
        /\ In(r).via # "docs"
    BY <1>2, <2>1, <2>2, OnwardPlace DEF Links, Stages
  <2>4. /\ Remembers(r)' /\ PolicyTraced(r)' /\ IsSeq(trail[r])'
        /\ \A kind : Events(r, kind)' = Events(r, kind)
    BY <1>1, <1>2, <2>1, <2>2, Kept
  <2>5. ApiTraced(r)'
    BY <1>2, <2>1, <2>2, <2>3, <2>4, LogStays
  <2>6. message = In(r).message
    BY <1>2 DEF Confined, BeyondScope
  <2>7. id # None => id = Claimed(r) /\ id.tenant \in Int
    BY <1>2, GatewayConstants DEF Walks, Authenticated, In, Claimed
  <2>8. \A f \in message : "value" \in DOMAIN f /\ f.value \in Int
    BY <1>2, <2>6, GatewayConstants DEF Walks, In
  <2>9. Confined(r)'
    <3>1. ~HasTenantField(message) => Scope(message) = {}
      BY DEF HasTenantField, Scope
    <3>2. CASE request'[r].message = message /\ ~HasTenantField(message)
      BY <2>1, <2>2, <2>3, <2>6, <3>1, <3>2, SameInput DEF Confined, BeyondScope, Passed, Keeps
    <3>3. CASE id # None /\ ordinary /\ request'[r].message = scoped
      <4>1. \A g \in Scope(scoped) : g.value = id.tenant \/ g.value < 0
        <5>1. \A f \in Scope(message) : TenantError(f, id) = None
          BY <1>2, <1>5, <2>1, <3>3, <3>1
        <5> QED
          BY <2>7, <2>8, <3>3, <5>1, ScopedFields DEF scoped
      <4> QED
        BY <2>1, <2>2, <2>3, <2>7, <3>3, <4>1, SameInput DEF Confined, BeyondScope, Passed, Keeps, ordinary
    <3>4. CASE id # None /\ ~ordinary /\ request'[r].message = message
      BY <2>1, <2>2, <2>3, <2>6, <3>4, SameInput DEF Confined, BeyondScope, Passed, Keeps, ordinary
    <3> QED
      BY <2>1, <3>2, <3>3, <3>4
  <2> USE SameInput DEF Keeps
  <2>10. Walks(r)'
    BY <1>2, <2>1, <2>2, <2>3 DEF Walks, Stages, Checks
  <2>11. Checked(r)'
    BY <1>1, <1>2, <2>1, <2>2, <2>3, <2>4 DEF Checked, Passed, Checks, Current, Allowed
  <2> QED
    BY <2>1, <2>4, <2>5, <2>9, <2>10, <2>11 DEF Sound, Fields, NewRequest
<1> QED
  BY <1>3, <1>4, <1>5


-----------------------------------------------------------------------------
(* The beginning of a request, and of all. *)

LEMMA NoEvents ==
    ASSUME NEW r, trail[r] = <<>>
    PROVE  IsSeq(trail[r]) /\ \A kind : Events(r, kind) = {}
<1>1. DOMAIN trail[r] = {} /\ trail[r] \in Seq({})
  OBVIOUS
<1> QED
  BY <1>1 DEF IsSeq, Events

LEMMA ArriveSound ==
    ASSUME GatewayInv, NEW r \in Requests, NEW input \in Inputs[r], Arrive(r, input) PROVE Sound(r)'
<1>1. /\ request[r] = NewRequest /\ trail[r] = <<>> /\ UNCHANGED <<config, valid, rules, trail>>
  BY DEF GatewayInv, Sound, Arrive, shared
<1>2. request'[r] = [NewRequest EXCEPT
         !.pc = "down", !.input = input, !.message = input.message,
         !.todo = IF input.via = "docs" THEN <<"docs", "handler">> ELSE Chain(input.via),
         !.heldThen = input.token \in valid,
         !.rulesThen = RulesFor(input)]
  BY Written DEF Arrive
<1>3. /\ DOMAIN request'[r] = Fields /\ request'[r].pc = "down" /\ request'[r].input = input
      /\ request'[r].message = input.message
      /\ request'[r].todo = (IF input.via = "docs" THEN <<"docs", "handler">> ELSE Chain(input.via))
      /\ request'[r].heldThen = (input.token \in valid)
      /\ request'[r].rulesThen = RulesFor(input)
      /\ request'[r].wraps = <<>> /\ request'[r].identity = None
      /\ request'[r].handled = FALSE /\ request'[r].panicked = FALSE
  BY <1>2 DEF NewRequest, Fields
<1> DEFINE via == input.via
<1>4. /\ In(r)' = input /\ Claimed(r)' = Claims[input.token]
  BY <1>3 DEF In, Claimed
<1>5. /\ (Secured' <=> Secured) /\ (Logs(via)' <=> Logs(via)) /\ (Logged(r)' <=> Logs(via))
      /\ Links(via)' = Links(via) /\ AfterI18n(via)' = AfterI18n(via)
  <2>1. (Secured' <=> Secured) /\ (HasAuthenticator' <=> HasAuthenticator)
    BY <1>1 DEF Secured, HasAuthenticator, HasUserToken
  <2>2. (Logs(via)' <=> Logs(via)) /\ (Logged(r)' <=> Logs(via))
    BY <1>1, <1>4, <2>1 DEF Logs, Logged
  <2>3. AfterLogging' = AfterLogging
    BY <2>1 DEF AfterLogging
  <2>4. AfterI18n(via)' = AfterI18n(via)
    BY <2>2, <2>3 DEF AfterI18n
  <2> QED
    BY <2>1, <2>2, <2>3, <2>4 DEF Links
<1>6. Linked(via, request'[r].todo)
  <2>1. CASE via = "docs"
    <3>1. request'[r].todo = <<"docs", "handler">>
      BY <1>3, <2>1
    <3> QED
      BY <3>1 DEF Linked, Links, Stages
  <2>2. CASE via # "docs"
    BY <1>3, <2>2, ChainLinked
  <2> QED
    BY <2>1, <2>2
<1>7. Place(r)' \in IF via = "docs" THEN {"docs"} ELSE {"i18n", AfterI18n(via)}
  <2>1. Place(r)' = Head(request'[r].todo)
    BY <1>3 DEF Place
  <2>2. CASE via = "docs"
    BY <1>3, <2>1, <2>2
  <2>3. CASE via # "docs"
    BY <1>3, <2>1, <2>3, ChainLinked
  <2> QED
    BY <2>2, <2>3
<1>8. /\ Place(r)' \in {"docs", "i18n", "logging", "auth", "tenant"}
      /\ Place(r)' = "docs" <=> via = "docs"
      /\ Place(r)' = "logging" => Logs(via)
      /\ Place(r)' = "auth" => Secured
      /\ Place(r)' = "tenant" => ~Secured /\ ~Logs(via)
      /\ Place(r)' = "auth" => ~Logs(via)
  BY <1>7 DEF AfterI18n, AfterLogging
<1>9. Linked(via, request[r].todo)'
  BY <1>5, <1>6 DEF Linked
<1>10. IsSeq(trail[r])' /\ \A kind : Events(r, kind)' = {}
  BY <1>1, NoEvents DEF IsSeq, Events
<1>11. Walks(r)'
  BY <1>3, <1>4, <1>5, <1>8, <1>9 DEF Walks, Stages, Checks
<1>12. Remembers(r)'
  BY <1>1, <1>3, <1>4 DEF Remembers, RulesFor
<1>13. Checked(r)'
  <2>1. Guarded(r)' => Secured
    BY <1>5 DEF Guarded, Secured
  <2> QED
    BY <1>3, <1>4, <1>5, <1>8, <1>10, <2>1 DEF Checked, Passed, Checks
<1>14. Confined(r)'
  BY <1>3, <1>4, <1>8 DEF Confined, BeyondScope, Passed
<1>15. PolicyTraced(r)'
  BY <1>10 DEF PolicyTraced
<1>16. ApiTraced(r)'
  <2>1. OutsideLog(r)' /\ ~InsideLog(r)'
    <3>1. OutsideLog(r)'
      BY <1>3 DEF OutsideLog
    <3> QED
      BY <3>1, LogDisjoint DEF InsideLog, OutsideLog
  <2>2. Logs(via) => via # "docs"
    BY DEF Logs
  <2> QED
    BY <1>3, <1>5, <1>8, <1>10, <2>1, <2>2 DEF ApiTraced
<1> QED
  BY <1>3, <1>10, <1>11, <1>12, <1>13, <1>14, <1>15, <1>16 DEF Sound, Fields, NewRequest

LEMMA InitInv == Init => GatewayInv
<1> SUFFICES ASSUME Init PROVE GatewayInv
  OBVIOUS
<1>1. ASSUME NEW r \in Requests PROVE Sound(r)
  BY DEF Init, Sound, Fields, NewRequest
<1> QED
  BY <1>1 DEF Init, GatewayInv

\* One request moves, and the others stay sound.
LEMMA StepsSound ==
    ASSUME GatewayInv, NEW r \in Requests, Step(r)
    PROVE  /\ Sound(r)'
           /\ \E to : Becomes(r, to)
           /\ trail' = trail \/ \E events : trail' = [trail EXCEPT ![r] = events]
           /\ UNCHANGED <<config, valid, rules>>
<1>1. ASSUME NEW input \in Inputs[r], Arrive(r, input)
      PROVE  Sound(r)' /\ (\E to : Becomes(r, to)) /\ trail' = trail /\ UNCHANGED <<config, valid, rules>>
  BY <1>1, ArriveSound, Zenon DEF Arrive, shared
<1>2. CASE I18n(r)
  BY <1>2, I18nSound, Zenon DEF I18n, shared
<1>3. CASE Logging(r)
  BY <1>3, LoggingSound, Zenon DEF Logging, shared
<1>4. CASE Auth(r)
  BY <1>4, AuthSound, Zenon DEF Auth, shared
<1>5. CASE Authn(r)
  <2>1. trail' = trail /\ UNCHANGED <<config, valid, rules>>
    BY <1>5 DEF Authn, shared
  <2>2. \E err : Becomes(r, IF Authenticated(r) THEN [Onward(r) EXCEPT !.identity = Claimed(r)]
                            ELSE Fails(r, err))
    BY <1>5 DEF Authn
  <2>3. \E to : Becomes(r, to)
    BY <2>2, Zenon
  <2> QED
    BY <1>5, <2>1, <2>3, AuthnSound
<1>6. CASE AuthClaims(r)
  <2>1. (\E to : Becomes(r, to)) /\ trail' = trail /\ UNCHANGED <<config, valid, rules>>
    BY <1>6 DEF AuthClaims, shared
  <2> QED
    BY <1>6, <2>1, AuthClaimsSound
<1>7. ASSUME NEW decision \in {"allow", "deny", "error"}, Authorize(r, decision)
      PROVE  /\ Sound(r)' /\ (\E to : Becomes(r, to)) /\ UNCHANGED <<config, valid, rules>>
             /\ \E events : trail' = [trail EXCEPT ![r] = events]
  <2>1. Sound(r)'
    BY <1>7, AuthorizeSound
  <2>2. (\E to : Becomes(r, to)) /\ UNCHANGED <<config, valid, rules>>
    BY <1>7, Zenon DEF Authorize, shared
  <2> DEFINE event == [kind |-> "policy", decision |-> decision, id |-> RequestID(r), op |-> In(r).op,
                       user |-> request[r].identity.user,
                       code |-> CASE decision = "allow" -> 200 [] decision = "deny" -> 403 [] OTHER -> 500]
  <2>3. trail' = [trail EXCEPT ![r] = Append(@, event)]
    BY <1>7 DEF Authorize
  <2> HIDE DEF event
  <2>4. \E events : trail' = [trail EXCEPT ![r] = events]
    BY <2>3, Zenon
  <2> QED
    BY <2>1, <2>2, <2>4
<1>8. CASE Tenant(r)
  <2>1. \E to : Becomes(r, to)
    BY <1>8 DEF Tenant
  <2> QED
    BY <1>8, <2>1, TenantSound, Zenon DEF Tenant, shared
<1>9. CASE Validate(r)
  BY <1>9, ValidateSound, Zenon DEF Validate, shared
<1>10. CASE Docs(r)
  BY <1>10, DocsSound, Zenon DEF Docs, shared
<1>11. ASSUME NEW resolved \in BOOLEAN, RateLimit(r, resolved)
       PROVE  Sound(r)' /\ (\E to : Becomes(r, to)) /\ trail' = trail /\ UNCHANGED <<config, valid, rules>>
  <2>1. \E to : Becomes(r, to)
    BY <1>11 DEF RateLimit, TakeRateLimits
  <2> QED
    BY <1>11, <2>1, RateLimitSound, Zenon DEF RateLimit
<1>12. CASE Handle(r)
  BY <1>12, HandleSound, Zenon DEF Handle, shared
<1>13. CASE HandlerPanics(r)
  BY <1>13, HandlerPanicsSound, Zenon DEF HandlerPanics, shared
<1>14. CASE LogEnds(r)
  BY <1>14, LogEndsSound, Zenon DEF LogEnds, shared
<1>15. CASE I18nEnds(r)
  BY <1>15, I18nEndsSound, Zenon DEF I18nEnds, shared
<1>16. CASE Reply(r)
  BY <1>16, ReplySound, Zenon DEF Reply, shared
<1> QED
  BY <1>1, <1>2, <1>3, <1>4, <1>5, <1>6, <1>7, <1>8, <1>9, <1>10, <1>11, <1>12, <1>13, <1>14,
     <1>15, <1>16, Zenon DEF Step

LEMMA StepInv == GatewayInv /\ [Next]_vars => GatewayInv'
<1> SUFFICES ASSUME GatewayInv, [Next]_vars PROVE GatewayInv'
  OBVIOUS
<1>1. ASSUME NEW r \in Requests, Step(r) PROVE GatewayInv'
  <2>1. /\ Sound(r)' /\ UNCHANGED <<config, valid, rules>>
        /\ \E to : Becomes(r, to)
        /\ trail' = trail \/ \E events : trail' = [trail EXCEPT ![r] = events]
    BY <1>1, StepsSound
  <2>2. /\ DOMAIN request' = Requests /\ \A q \in Requests \ {r} : request'[q] = request[q]
    BY <2>1, Written
  <2>3. /\ DOMAIN trail' = Requests /\ \A q \in Requests \ {r} : trail'[q] = trail[q]
    BY <2>1 DEF GatewayInv
  <2>4. ASSUME NEW q \in Requests PROVE Sound(q)'
    <3>1. CASE q = r
      BY <2>1, <3>1
    <3>2. CASE q # r
      <4>1. Sound(q) /\ request'[q] = request[q] /\ trail'[q] = trail[q]
        BY <2>2, <2>3, <3>2 DEF GatewayInv
      <4> QED
        BY <2>1, <4>1, Elsewhere
    <3> QED
      BY <3>1, <3>2
  <2> QED
    BY <2>2, <2>3, <2>4 DEF GatewayInv
<1>2. CASE /\ UNCHANGED <<config, request, trail>> /\ valid' \subseteq valid /\ rules' \subseteq rules
  <2>1. \A q \in Requests : Sound(q)'
    BY <1>2, Elsewhere DEF GatewayInv
  <2> QED
    BY <1>2, <2>1 DEF GatewayInv
<1>3. ASSUME NEW t \in Revoked, Revoke(t) PROVE GatewayInv'
  BY <1>2, <1>3 DEF Revoke
<1>4. ASSUME NEW rule \in Withdrawn, Withdraw(rule) PROVE GatewayInv'
  BY <1>2, <1>4 DEF Withdraw
<1>5. ASSUME NEW key \in DOMAIN spent, Refill(key) PROVE GatewayInv'
  BY <1>2, <1>5 DEF Refill
<1>6. CASE UNCHANGED vars
  BY <1>2, <1>6 DEF vars
<1> QED
  BY <1>1, <1>3, <1>4, <1>5, <1>6 DEF Next

\* Where every request is in its chain, what its checks have established, what its
\* message holds and what its events say (NewHTTPMiddleware, NewGRPCMiddleware).
THEOREM GatewayInvariant == Spec => []GatewayInv
  BY InitInv, StepInv, PTL DEF Spec


-----------------------------------------------------------------------------
(* What follows for the properties. *)

\* The id of a request, of the first place that has one.
LEMMA LeastIn ==
    ASSUME NEW G, G \subseteq Nat, G # {}
    PROVE  Min(G) \in G /\ \A i \in G : Min(G) <= i
<1>1. \E x \in G : \A y \in G : <<y, x>> \notin OpToRel(<, Nat)
  BY NatLessThanWellFounded, WFMin
<1>2. \E x \in G : \A y \in G : x <= y
  <2>1. PICK x \in G : \A y \in G : <<y, x>> \notin OpToRel(<, Nat)
    BY <1>1
  <2>2. ASSUME NEW y \in G PROVE x <= y
    <3>1. <<y, x>> \in Nat \X Nat /\ <<y, x>>[1] = y /\ <<y, x>>[2] = x
      OBVIOUS
    <3>2. ~(<<y, x>>[1] < <<y, x>>[2])
      BY <2>1, <3>1, Zenon DEF OpToRel
    <3> QED
      BY <3>1, <3>2
  <2> QED
    BY <2>2
<1> QED
  BY <1>2 DEF Min

LEMMA SameRequestID ==
    ASSUME NEW r, NEW a, NEW b, NEW c, NEW d, NEW e,
           In(r).ids.context = <<a, b>>, In(r).ids.headers = <<c, d, e>>
    PROVE  LogRequestID(r) = RequestID(r)
<1> DEFINE S  == {a, b, c, d, e, RequestID(r)}
           v  == <<a, b>> \o <<c, d, e>>
           w  == <<RequestID(r)>> \o <<c, d, e>>
           gv == {i \in DOMAIN v : v[i] # None}
           gw == {i \in DOMAIN w : w[i] # None}
<1>1. <<a, b>> \in Seq(S) /\ <<c, d, e>> \in Seq(S) /\ <<RequestID(r)>> \in Seq(S)
  OBVIOUS
<1>2. /\ v \in Seq(S) /\ Len(v) = 5 /\ v[3] = c /\ v[4] = d /\ v[5] = e
      /\ w \in Seq(S) /\ Len(w) = 4 /\ w[1] = RequestID(r) /\ w[2] = c /\ w[3] = d /\ w[4] = e
  <2> HIDE DEF S
  <2> QED
    BY <1>1
<1>3. RequestID(r) = IF gv = {} THEN None ELSE v[Min(gv)]
  BY DEF RequestID, FirstGiven
<1>4. LogRequestID(r) = IF gw = {} THEN None ELSE w[Min(gw)]
  BY DEF LogRequestID, FirstGiven
<1> HIDE DEF S, v, w
<1>5. DOMAIN v = 1..5 /\ DOMAIN w = 1..4
  BY <1>2
<1>6. gv \subseteq Nat /\ gw \subseteq Nat
  BY <1>5
<1>7. CASE RequestID(r) # None
  <2>1. 1 \in gw
    BY <1>2, <1>5, <1>7
  <2>2. Min(gw) \in gw /\ Min(gw) <= 1
    BY <1>6, <2>1, LeastIn
  <2>3. Min(gw) = 1
    BY <1>5, <2>2
  <2> QED
    BY <1>2, <1>4, <2>1, <2>3
<1>8. CASE RequestID(r) = None
  <2>1. gv = {}
    <3>1. gv # {} => Min(gv) \in gv
      BY <1>6, LeastIn
    <3> QED
      BY <1>3, <1>8, <3>1
  <2>2. c = None /\ d = None /\ e = None
    BY <1>2, <1>5, <2>1
  <2>3. gw = {}
    BY <1>2, <1>5, <1>8, <2>2
  <2> QED
    BY <1>4, <1>8, <2>3
<1> QED
  BY <1>7, <1>8

\* A handler behind full authentication runs only for a token and a policy that held
\* when the request came, after the one evaluation that allowed it (NewAuthMiddleware,
\* newOpenAPIAuthorizer).
THEOREM HandlersOnlyAllowed == Spec => []HandledIsAllowed
<1>1. GatewayInv => HandledIsAllowed
  <2> SUFFICES ASSUME GatewayInv, NEW r \in Requests, request[r].handled
               PROVE  LET Held == /\ In(r).scheme # None /\ Claimed(r).state = "live"
                                  /\ Claimed(r).user = 0 \/ request[r].heldThen
                          decisions == Events(r, "policy")
                      IN  /\ Guarded(r) =>
                               /\ Held
                               /\ \E i \in decisions : decisions = {i} /\ trail[r][i].decision = "allow"
                               /\ Needed(r) \in request[r].rulesThen
                          /\ ~Guarded(r) => decisions = {}
                          /\ In(r).via = "docs" /\ HasAuthenticator /\ HasUserToken => Held
    BY DEF HandledIsAllowed
  <2>1. /\ Walks(r) /\ Checked(r)
    BY DEF GatewayInv, Sound, NewRequest
  <2>2. Place(r) = "handler"
    BY <2>1 DEF Walks, Place
  <2> QED
    BY <2>1, <2>2 DEF Checked, Passed, Allowed, Authenticated, Current, Needed, Secured
<1> QED
  BY <1>1, GatewayInvariant, PTL

\* What a handler sees names no tenant but the caller's (NewTenantScopeMiddleware).
THEOREM OwnTenantOnly == Spec => []TenantConfined
<1>1. GatewayInv => TenantConfined
  <2>1. ASSUME GatewayInv, NEW r \in Requests, request[r].handled
        PROVE  Confined(r) /\ Place(r) = "handler"
    <3>1. Walks(r) /\ Confined(r)
      BY <2>1 DEF GatewayInv, Sound, NewRequest
    <3> QED
      BY <2>1, <3>1 DEF Walks, Place
  <2> QED
    BY <2>1 DEF TenantConfined, Confined, BeyondScope, Passed
<1> QED
  BY <1>1, GatewayInvariant, PTL

\* The events of a request agree with each other and with what the client is told
\* (logging.Server, emitPolicyEvaluation).
THEOREM EventsAgree == Spec => []OneTrail
<1>1. GatewayInv => OneTrail
  <2> SUFFICES ASSUME GatewayInv, NEW r \in Requests, request[r].pc = "done", ~request[r].panicked
               PROVE  IF ~Logged(r) THEN Events(r, "api") = {}
                      ELSE LET api == trail[r][Len(trail[r])]
                           IN  /\ Events(r, "api") = {Len(trail[r])}
                               /\ api.success <=> request[r].reply = NoError
                               /\ \A i \in Events(r, "policy") :
                                    LET policy == trail[r][i]
                                    IN  /\ policy.op = api.op
                                        /\ policy.decision # "allow" => ~api.success
                                        /\ In(r).via = "http" => policy.id = api.id
                                        /\ In(r).via = "http" /\ In(r).scheme = "Bearer" => policy.user = api.user
    BY DEF OneTrail
  <2>1. Walks(r) /\ PolicyTraced(r) /\ ApiTraced(r)
    BY DEF GatewayInv, Sound
  <2>2. CASE ~Logged(r)
    BY <2>1, <2>2 DEF ApiTraced
  <2>3. CASE Logged(r)
    <3> DEFINE api == trail[r][Len(trail[r])]
    <3>1. /\ Events(r, "api") = {Len(trail[r])}
          /\ api.success <=> request[r].reply = NoError
          /\ api.op = In(r).op
          /\ In(r).via = "http" => api.id = LogRequestID(r) /\ api.user = LogUser(r)
      BY <2>1, <2>3 DEF ApiTraced
    <3>2. LogRequestID(r) = RequestID(r)
      BY <2>1, GatewayConstants, SameRequestID DEF Walks, In
    <3>3. Authenticated(r) /\ In(r).scheme = "Bearer" => LogUser(r) = Claimed(r).user
      BY DEF Authenticated, LogUser
    <3> HIDE DEF api
    <3>4. ASSUME NEW i \in Events(r, "policy")
          PROVE  /\ trail[r][i].op = api.op
                 /\ trail[r][i].decision # "allow" => ~api.success
                 /\ In(r).via = "http" => trail[r][i].id = api.id
                 /\ In(r).via = "http" /\ In(r).scheme = "Bearer" => trail[r][i].user = api.user
      BY <2>1, <3>1, <3>2, <3>3, <3>4 DEF PolicyTraced
    <3> QED
      BY <2>3, <3>1, <3>4 DEF api
  <2> QED
    BY <2>2, <2>3
<1> QED
  BY <1>1, GatewayInvariant, PTL


-----------------------------------------------------------------------------
(* The rate limits, in terms of the records of all requests. *)

\* PolicyIdentity and Counted, of a record.
IdentityOf(q, dimension) ==
    CASE dimension = "GLOBAL" -> "global"
      [] dimension = "IP"     -> q.input.remote
      [] dimension = "TENANT" -> IF q.identity # None /\ q.identity.tenant > 0 THEN ToString(q.identity.tenant) ELSE None
      [] dimension = "USER"   -> IF q.identity # None /\ q.identity.user # 0 THEN ToString(q.identity.user) ELSE None
      [] dimension = "OAUTH_CLIENT" ->
           IF q.input.client # None THEN q.input.client
           ELSE IF q.identity # None /\ q.identity.user < 0 THEN q.identity.name ELSE None
      [] OTHER -> None

CountedOf(q, policy) ==
    <<q.input.op, policy.dimension, IdentityOf(q, policy.dimension),
      IF policy.algorithm = None THEN "TOKEN_BUCKET" ELSE policy.algorithm>>

TakenIn(all) == UNION {{r} \X DOMAIN all[r].took : r \in Requests}

\* What was given under one key.
Sharing(all, key) == {p \in TakenIn(all) : CountedOf(all[p[1]], all[p[1]].took[p[2]]) = key}

\* The policies of q that ask for one key.
Asking(q, policies, key) == {i \in DOMAIN policies : CountedOf(q, policies[i]) = key}

SpentOn(buckets, key) == IF key \in DOMAIN buckets THEN buckets[key] ELSE 0

\* A bucket has taken what was given, less what came back.
Balanced(all, buckets, returned) ==
    /\ returned \in Nat /\ IsFiniteSet(TakenIn(all))
    /\ \A key :
         /\ SpentOn(buckets, key) \in Nat
         /\ SpentOn(buckets, key) <= Cardinality(Sharing(all, key))
         /\ Cardinality(Sharing(all, key)) <= SpentOn(buckets, key) + returned

\* Behind the limits nothing changes what a request counts as.
Settled(q) == q.pc \in {"up", "done"} \/ (q.pc = "down" /\ Head(q.todo) = "handler")

\* Who was let through is in buckets that hold no more than their limits.
Admitted(q, limits, buckets) ==
    q.took # <<>> =>
        /\ Settled(q) /\ q.input.via # "docs" /\ q.took = limits[q.input.op]
        /\ \A i \in DOMAIN q.took : SpentOn(buckets, CountedOf(q, q.took[i])) <= q.took[i].capacity

\* Who was refused would have exceeded one of them.
Refused(q, limits, all) ==
    q.retryAfter =>
        /\ q.pc \in {"up", "done"} /\ q.input.via # "docs" /\ q.took = <<>>
        /\ LET policies == limits[q.input.op]
           IN  \E i \in DOMAIN policies :
                 LET key == CountedOf(q, policies[i])
                 IN  Cardinality(Sharing(all, key)) + Cardinality(Asking(q, policies, key)) > policies[i].capacity

LimitInv ==
    /\ config \in Assignments
    /\ Balanced(request, spent, refills)
    /\ \A r \in Requests :
         Admitted(request[r], config.limits, spent) /\ Refused(request[r], config.limits, request)

LEMMA CountedIs ==
    ASSUME NEW r, NEW policy
    PROVE  Counted(r, policy) = CountedOf(request[r], policy)
  BY Zenon DEF Counted, CountedOf, PolicyIdentity, IdentityOf, In

LEMMA PairIn ==
    ASSUME NEW all, NEW p \in TakenIn(all)
    PROVE  p[1] \in Requests /\ p[2] \in DOMAIN all[p[1]].took /\ p = <<p[1], p[2]>>
  BY DEF TakenIn

\* Nothing is given where no request takes anything or becomes another.
LEMMA SameShares ==
    ASSUME NEW a, NEW b,
           \A r \in Requests :
               /\ b[r].took = a[r].took
               /\ a[r].took # <<>> => b[r].input = a[r].input /\ b[r].identity = a[r].identity
    PROVE  TakenIn(b) = TakenIn(a) /\ \A key : Sharing(b, key) = Sharing(a, key)
<1>1. TakenIn(b) = TakenIn(a)
  BY DEF TakenIn
<1>2. ASSUME NEW p \in TakenIn(a)
      PROVE  CountedOf(b[p[1]], b[p[1]].took[p[2]]) = CountedOf(a[p[1]], a[p[1]].took[p[2]])
  <2>1. p[1] \in Requests /\ p[2] \in DOMAIN a[p[1]].took
    BY PairIn
  <2>2. a[p[1]].took # <<>>
    BY <2>1
  <2>3. /\ b[p[1]].took = a[p[1]].took
        /\ b[p[1]].input = a[p[1]].input /\ b[p[1]].identity = a[p[1]].identity
    BY <2>1, <2>2
  <2> QED
    BY <2>3 DEF CountedOf, IdentityOf
<1> QED
  BY <1>1, <1>2 DEF Sharing

\* A request that takes adds to each key as often as it asks for it.
LEMMA MoreShares ==
    ASSUME NEW a, NEW b, NEW r \in Requests, a[r].took = <<>>, IsFiniteSet(TakenIn(a)),
           IsFiniteSet(DOMAIN b[r].took), \A q \in Requests \ {r} : b[q] = a[q]
    PROVE  /\ IsFiniteSet(TakenIn(b))
           /\ \A key : Cardinality(Sharing(b, key)) =
                         Cardinality(Sharing(a, key)) + Cardinality(Asking(b[r], b[r].took, key))
<1> DEFINE new == {r} \X DOMAIN b[r].took
<1>1. TakenIn(b) = TakenIn(a) \cup new
  <2>1. DOMAIN a[r].took = {}
    OBVIOUS
  <2> QED
    BY <2>1 DEF TakenIn
<1>2. IsFiniteSet({r}) /\ Cardinality({r}) = 1
  BY FS_Singleton
<1>3. IsFiniteSet(new)
  BY <1>2, FS_Product
<1>4. IsFiniteSet(TakenIn(b))
  <2> HIDE DEF new
  <2>1. IsFiniteSet(TakenIn(a) \cup new)
    BY <1>3, FS_Union
  <2> QED
    BY <1>1, <2>1
<1>5. ASSUME NEW key
      PROVE  Cardinality(Sharing(b, key)) =
               Cardinality(Sharing(a, key)) + Cardinality(Asking(b[r], b[r].took, key))
  <2> DEFINE I == Asking(b[r], b[r].took, key)
             N == {r} \X I
  <2>1. \A p \in TakenIn(a) : p[1] \in Requests \ {r}
    <3>1. DOMAIN a[r].took = {}
      OBVIOUS
    <3> QED
      BY <3>1, PairIn
  <2>2. Sharing(b, key) = Sharing(a, key) \cup N
    <3>1. ASSUME NEW p \in TakenIn(a) PROVE p \in Sharing(b, key) <=> p \in Sharing(a, key)
      <4>1. b[p[1]] = a[p[1]] /\ p \in TakenIn(b)
        BY <1>1, <2>1
      <4> QED
        BY <4>1 DEF Sharing
    <3>2. ASSUME NEW p \in new PROVE p \in Sharing(b, key) <=> p \in N
      <4>1. p[1] = r /\ p[2] \in DOMAIN b[r].took /\ p = <<r, p[2]>> /\ p \in TakenIn(b)
        BY <1>1
      <4> QED
        BY <4>1 DEF Sharing, Asking
    <3>3. Sharing(a, key) \subseteq TakenIn(a) /\ N \subseteq new /\ Sharing(b, key) \subseteq TakenIn(a) \cup new
      BY <1>1 DEF Sharing, Asking
    <3>4. ASSUME NEW p \in N PROVE p \notin TakenIn(a)
      BY <2>1
    <3> HIDE DEF new, N
    <3> QED
      BY <3>1, <3>2, <3>3
  <2>3. Sharing(a, key) \cap N = {}
    <3>1. Sharing(a, key) \subseteq TakenIn(a)
      BY DEF Sharing
    <3>2. \A p \in N : p[1] = r
      OBVIOUS
    <3> QED
      BY <2>1, <3>1, <3>2
  <2>4. IsFiniteSet(Sharing(a, key))
    <3>1. Sharing(a, key) \in SUBSET TakenIn(a)
      BY DEF Sharing
    <3> QED
      BY <3>1, FS_Subset
  <2>5. IsFiniteSet(I)
    <3>1. I \in SUBSET DOMAIN b[r].took
      BY DEF Asking
    <3> QED
      BY <3>1, FS_Subset
  <2>6. IsFiniteSet(N) /\ Cardinality(N) = Cardinality(I)
    <3>1. IsFiniteSet(N) /\ Cardinality(N) = Cardinality({r}) * Cardinality(I)
      BY <1>2, <2>5, FS_Product
    <3>2. Cardinality(I) \in Nat
      BY <2>5, FS_CardinalityType
    <3> HIDE DEF I, N
    <3> QED
      BY <1>2, <3>1, <3>2
  <2>7. Cardinality(Sharing(a, key) \cup N) = Cardinality(Sharing(a, key)) + Cardinality(N) - Cardinality({})
    BY <2>3, <2>4, <2>6, FS_Union
  <2>8. Cardinality(Sharing(a, key)) \in Nat /\ Cardinality(N) \in Nat /\ Cardinality({}) = 0
    BY <2>4, <2>6, FS_CardinalityType, FS_EmptySet
  <2> HIDE DEF I, N
  <2> QED
    BY <2>2, <2>6, <2>7, <2>8 DEF I
<1> QED
  BY <1>4, <1>5


\* A bucket that gives and takes nothing leaves what is known of a record.
LEMMA AdmittedStays ==
    ASSUME NEW p, NEW q, NEW limits, NEW buckets, Admitted(p, limits, buckets),
           q.took = p.took,
           p.took # <<>> => q.input = p.input /\ q.identity = p.identity /\ Settled(q)
    PROVE  Admitted(q, limits, buckets)
  BY DEF Admitted, CountedOf, IdentityOf

LEMMA RefusedStays ==
    ASSUME NEW p, NEW q, NEW limits, NEW all, NEW more, Refused(p, limits, all),
           q.took = p.took, q.retryAfter = p.retryAfter,
           p.retryAfter => q.input = p.input /\ q.identity = p.identity /\ q.pc \in {"up", "done"},
           \A key : Sharing(more, key) = Sharing(all, key)
    PROVE  Refused(q, limits, more)
<1>1. CASE q.retryAfter
  <2>1. q.input = p.input /\ q.identity = p.identity /\ q.pc \in {"up", "done"} /\ q.took = p.took /\ p.retryAfter
    BY <1>1
  <2>2. \A policy : CountedOf(q, policy) = CountedOf(p, policy)
    BY <2>1 DEF CountedOf, IdentityOf
  <2>3. \A policies, key : Asking(q, policies, key) = Asking(p, policies, key)
    BY <2>2 DEF Asking
  <2> QED
    BY <2>1, <2>2, <2>3 DEF Refused
<1> QED
  BY <1>1 DEF Refused

\* A step of r that neither takes nor is refused.
LEMMA QuietStep ==
    ASSUME GatewayInv, LimitInv, NEW r \in Requests, NEW to, Becomes(r, to),
           UNCHANGED <<config, spent, refills>>,
           to.took = request[r].took, to.retryAfter = request[r].retryAfter,
           request[r].took # <<>> \/ request[r].retryAfter =>
               to.input = request[r].input /\ to.identity = request[r].identity /\ to.pc \in {"up", "done"}
    PROVE  LimitInv'
<1>1. request'[r] = to /\ \A q \in Requests \ {r} : request'[q] = request[q]
  BY Written
<1>2. ASSUME NEW q \in Requests
      PROVE  /\ request'[q].took = request[q].took
             /\ request[q].took # <<>> =>
                  request'[q].input = request[q].input /\ request'[q].identity = request[q].identity
  BY <1>1
<1>3. TakenIn(request') = TakenIn(request) /\ \A key : Sharing(request', key) = Sharing(request, key)
  BY <1>2, SameShares
<1>4. Balanced(request', spent, refills)
  BY <1>3 DEF LimitInv, Balanced
<1>5. ASSUME NEW q \in Requests
      PROVE  Admitted(request'[q], config.limits, spent) /\ Refused(request'[q], config.limits, request')
  <2>1. Admitted(request[q], config.limits, spent) /\ Refused(request[q], config.limits, request)
    BY DEF LimitInv
  <2>2. request'[q].took = request[q].took /\ request'[q].retryAfter = request[q].retryAfter
    BY <1>1
  <2>3. CASE q = r
    <3>1. to.pc \in {"up", "done"} => Settled(to)
      BY DEF Settled
    <3> QED
      BY <1>1, <1>3, <2>1, <2>2, <2>3, <3>1, AdmittedStays, RefusedStays
  <2>4. CASE q # r
    <3>1. request'[q] = request[q]
      BY <1>1, <2>4
    <3>2. request[q].retryAfter => request[q].pc \in {"up", "done"}
      BY <2>1 DEF Refused
    <3> QED
      BY <1>3, <2>1, <3>1, <3>2, RefusedStays
  <2> QED
    BY <2>3, <2>4
<1> QED
  BY <1>4, <1>5 DEF LimitInv


LEMMA BeforeLimits ==
    ASSUME GatewayInv, LimitInv, NEW r \in Requests, NEW stage, At(r, stage), stage # "handler"
    PROVE  request[r].took = <<>> /\ ~request[r].retryAfter
<1>1. request[r].pc = "down" /\ Head(request[r].todo) = stage
  BY DEF At
<1>2. Admitted(request[r], config.limits, spent) /\ Refused(request[r], config.limits, request)
  BY DEF LimitInv
<1> QED
  BY <1>1, <1>2 DEF Admitted, Refused, Settled

\* Every stage but the limits and the handler, whatever it writes.
LEMMA EarlyStep ==
    ASSUME GatewayInv, LimitInv, NEW r \in Requests, NEW stage, At(r, stage), stage # "handler",
           UNCHANGED <<config, spent, refills>>,
           NEW to, Becomes(r, to), to.took = request[r].took, to.retryAfter = request[r].retryAfter
    PROVE  LimitInv'
  BY BeforeLimits, QuietStep

LEMMA I18nLimits ==
    ASSUME GatewayInv, LimitInv, NEW r \in Requests, I18n(r) PROVE LimitInv'
<1>1. At(r, "i18n") /\ DOMAIN request[r] = Fields /\ UNCHANGED <<config, spent, refills>>
  BY AtStage DEF I18n, shared
<1> DEFINE to == [Onward(r) EXCEPT
         !.fallback = DefaultLanguage(config), !.wraps = <<"i18n">> \o @]
<1>2. to.took = request[r].took /\ to.retryAfter = request[r].retryAfter
  BY <1>1, OnwardFields DEF Fields, NewRequest
<1>3. Becomes(r, to)
  BY DEF I18n
<1> QED
  BY <1>1, <1>2, <1>3, EarlyStep

LEMMA LoggingLimits ==
    ASSUME GatewayInv, LimitInv, NEW r \in Requests, Logging(r) PROVE LimitInv'
<1>1. At(r, "logging") /\ DOMAIN request[r] = Fields /\ UNCHANGED <<config, spent, refills>>
  BY AtStage DEF Logging, shared
<1>2. \E log : Becomes(r, [Onward(r) EXCEPT !.wraps = <<"logging">> \o @, !.log = log])
  BY Zenon DEF Logging
<1>3. PICK log : Becomes(r, [Onward(r) EXCEPT !.wraps = <<"logging">> \o @, !.log = log])
  BY <1>2
<1> DEFINE to == [Onward(r) EXCEPT !.wraps = <<"logging">> \o @, !.log = log]
<1>4. to.took = request[r].took /\ to.retryAfter = request[r].retryAfter
  BY <1>1, OnwardFields DEF Fields, NewRequest
<1> QED
  BY <1>1, <1>3, <1>4, EarlyStep

\* What goes on as it is, or turns back with an error.
LEMMA PlainLimits ==
    ASSUME GatewayInv, LimitInv, NEW r \in Requests, NEW stage, At(r, stage), stage # "handler",
           UNCHANGED <<config, spent, refills>>,
           Becomes(r, Onward(r)) \/ \E err : Becomes(r, Fails(r, err))
    PROVE  LimitInv'
<1>1. DOMAIN request[r] = Fields
  BY AtStage
<1>2. CASE Becomes(r, Onward(r))
  BY <1>1, <1>2, OnwardFields, EarlyStep
<1>3. CASE \E err : Becomes(r, Fails(r, err))
  BY <1>1, <1>3, FailsFields, EarlyStep
<1> QED
  BY <1>2, <1>3

LEMMA IdentifiedLimits ==
    ASSUME GatewayInv, LimitInv, NEW r \in Requests, NEW stage, At(r, stage), stage # "handler",
           UNCHANGED <<config, spent, refills>>,
           NEW id, Becomes(r, [Onward(r) EXCEPT !.identity = id])
    PROVE  LimitInv'
<1>1. DOMAIN request[r] = Fields
  BY AtStage
<1> DEFINE to == [Onward(r) EXCEPT !.identity = id]
<1>2. to.took = request[r].took /\ to.retryAfter = request[r].retryAfter
  BY <1>1, OnwardFields DEF Fields, NewRequest
<1> QED
  BY <1>1, <1>2, EarlyStep

LEMMA AuthLimits ==
    ASSUME GatewayInv, LimitInv, NEW r \in Requests, Auth(r) PROVE LimitInv'
<1>1. At(r, "auth") /\ DOMAIN request[r] = Fields /\ UNCHANGED <<config, spent, refills>>
  BY AtStage DEF Auth, shared
<1>2. \/ \E id : Becomes(r, [Onward(r) EXCEPT !.identity = id])
      \/ Becomes(r, Onward(r))
      \/ Becomes(r, [request[r] EXCEPT !.todo = <<"authn", "claims", "authorize">> \o Tail(@)])
  BY Zenon DEF Auth
<1>3. CASE Becomes(r, [request[r] EXCEPT !.todo = <<"authn", "claims", "authorize">> \o Tail(@)])
  <2> DEFINE to == [request[r] EXCEPT !.todo = <<"authn", "claims", "authorize">> \o Tail(@)]
  <2>1. to.took = request[r].took /\ to.retryAfter = request[r].retryAfter
    BY <1>1 DEF Fields, NewRequest
  <2> QED
    BY <1>1, <1>3, <2>1, EarlyStep
<1> QED
  BY <1>1, <1>2, <1>3, IdentifiedLimits, PlainLimits

LEMMA AuthnLimits ==
    ASSUME GatewayInv, LimitInv, NEW r \in Requests, Authn(r) PROVE LimitInv'
<1>1. At(r, "authn") /\ UNCHANGED <<config, spent, refills>>
  BY DEF Authn, shared
<1>2. Becomes(r, [Onward(r) EXCEPT !.identity = Claimed(r)]) \/ \E err : Becomes(r, Fails(r, err))
  BY Zenon DEF Authn
<1> QED
  BY <1>1, <1>2, IdentifiedLimits, PlainLimits

LEMMA AuthClaimsLimits ==
    ASSUME GatewayInv, LimitInv, NEW r \in Requests, AuthClaims(r) PROVE LimitInv'
<1>1. At(r, "claims") /\ DOMAIN request[r] = Fields /\ UNCHANGED <<config, spent, refills>>
  BY AtStage DEF AuthClaims, shared
<1>2. (\E claims : Becomes(r, [Onward(r) EXCEPT !.claims = claims])) \/ \E err : Becomes(r, Fails(r, err))
  BY Zenon DEF AuthClaims
<1>3. CASE \E claims : Becomes(r, [Onward(r) EXCEPT !.claims = claims])
  <2>1. PICK claims : Becomes(r, [Onward(r) EXCEPT !.claims = claims])
    BY <1>3
  <2> DEFINE to == [Onward(r) EXCEPT !.claims = claims]
  <2>2. to.took = request[r].took /\ to.retryAfter = request[r].retryAfter
    BY <1>1, OnwardFields DEF Fields, NewRequest
  <2> QED
    BY <1>1, <2>1, <2>2, EarlyStep
<1> QED
  BY <1>1, <1>2, <1>3, PlainLimits

LEMMA AuthorizeLimits ==
    ASSUME GatewayInv, LimitInv, NEW r \in Requests, NEW decision, Authorize(r, decision) PROVE LimitInv'
<1>1. At(r, "authorize") /\ UNCHANGED <<config, spent, refills>>
  BY DEF Authorize, shared
<1>2. Becomes(r, Onward(r)) \/ \E err : Becomes(r, Fails(r, err))
  BY Zenon DEF Authorize
<1> QED
  BY <1>1, <1>2, PlainLimits

LEMMA TenantLimits ==
    ASSUME GatewayInv, LimitInv, NEW r \in Requests, Tenant(r) PROVE LimitInv'
<1>1. At(r, "tenant") /\ DOMAIN request[r] = Fields /\ UNCHANGED <<config, spent, refills>>
  BY AtStage DEF Tenant, shared
<1>2. \/ \E message : Becomes(r, [Onward(r) EXCEPT !.message = message])
      \/ Becomes(r, Onward(r)) \/ \E err : Becomes(r, Fails(r, err))
  <2>1. \E message : [Onward(r) EXCEPT !.message =
           IF request[r].identity # None /\ request[r].identity.code # DefaultTenantCode
           THEN {IF f \in Scope(request[r].message) THEN Scoped(f, request[r].identity) ELSE f : f \in @} ELSE @]
             = [Onward(r) EXCEPT !.message = message]
    OBVIOUS
  <2> QED
    BY <2>1, Zenon DEF Tenant
<1>3. CASE \E message : Becomes(r, [Onward(r) EXCEPT !.message = message])
  <2>1. PICK message : Becomes(r, [Onward(r) EXCEPT !.message = message])
    BY <1>3
  <2> DEFINE to == [Onward(r) EXCEPT !.message = message]
  <2>2. to.took = request[r].took /\ to.retryAfter = request[r].retryAfter
    BY <1>1, OnwardFields DEF Fields, NewRequest
  <2> QED
    BY <1>1, <2>1, <2>2, EarlyStep
<1> QED
  BY <1>1, <1>2, <1>3, PlainLimits

LEMMA ValidateLimits ==
    ASSUME GatewayInv, LimitInv, NEW r \in Requests, Validate(r) PROVE LimitInv'
<1>1. At(r, "validate") /\ UNCHANGED <<config, spent, refills>>
  BY DEF Validate, shared
<1>2. Becomes(r, Onward(r)) \/ \E err : Becomes(r, Fails(r, err))
  BY Zenon DEF Validate
<1> QED
  BY <1>1, <1>2, PlainLimits

LEMMA DocsLimits ==
    ASSUME GatewayInv, LimitInv, NEW r \in Requests, Docs(r) PROVE LimitInv'
<1>1. At(r, "docs") /\ UNCHANGED <<config, spent, refills>>
  BY DEF Docs, shared
<1>2. Becomes(r, Onward(r)) \/ \E err : Becomes(r, Fails(r, err))
  BY Zenon DEF Docs
<1> QED
  BY <1>1, <1>2, PlainLimits


LEMMA ArriveLimits ==
    ASSUME GatewayInv, LimitInv, NEW r \in Requests, NEW input, Arrive(r, input) PROVE LimitInv'
<1>1. request[r] = NewRequest /\ UNCHANGED <<config, spent, refills>>
  BY DEF GatewayInv, Sound, Arrive, shared
<1> DEFINE to == [NewRequest EXCEPT
         !.pc = "down", !.input = input, !.message = input.message,
         !.todo = IF input.via = "docs" THEN <<"docs", "handler">> ELSE Chain(input.via),
         !.heldThen = input.token \in valid,
         !.rulesThen = RulesFor(input)]
<1>2. Becomes(r, to)
  BY DEF Arrive
<1>3. to.took = <<>> /\ to.retryAfter = FALSE /\ request[r].took = <<>> /\ request[r].retryAfter = FALSE
  BY <1>1 DEF NewRequest
<1> HIDE DEF to
<1> QED
  BY <1>1, <1>2, <1>3, QuietStep

\* The handler and the way up keep the request and whom it comes from.
LEMMA LateStep ==
    ASSUME GatewayInv, LimitInv, NEW r \in Requests, UNCHANGED <<config, spent, refills>>,
           NEW to, Becomes(r, to), to.took = request[r].took, to.retryAfter = request[r].retryAfter,
           to.input = request[r].input, to.identity = request[r].identity, to.pc \in {"up", "done"}
    PROVE  LimitInv'
  BY QuietStep

LEMMA WayUpLimits ==
    ASSUME GatewayInv, LimitInv, NEW r \in Requests,
           Handle(r) \/ HandlerPanics(r) \/ LogEnds(r) \/ I18nEnds(r) \/ Reply(r)
    PROVE  LimitInv'
<1>1. DOMAIN request[r] = Fields
  BY DEF GatewayInv, Sound
<1> USE DEF Fields, NewRequest
<1>2. CASE Handle(r)
  <2> DEFINE to == [request[r] EXCEPT !.pc = "up", !.handled = TRUE, !.reply = In(r).answer]
  <2>1. Becomes(r, to) /\ UNCHANGED <<config, spent, refills>>
    BY <1>2 DEF Handle, shared
  <2>2. /\ to.took = request[r].took /\ to.retryAfter = request[r].retryAfter
        /\ to.input = request[r].input /\ to.identity = request[r].identity /\ to.pc = "up"
    BY <1>1
  <2> QED
    BY <2>1, <2>2, LateStep
<1>3. CASE HandlerPanics(r)
  <2> DEFINE to == [request[r] EXCEPT !.pc = "done", !.handled = TRUE, !.panicked = TRUE,
                      !.wraps = <<>>, !.reply = Plain(500, None)]
  <2>1. Becomes(r, to) /\ UNCHANGED <<config, spent, refills>>
    BY <1>3 DEF HandlerPanics, shared
  <2>2. /\ to.took = request[r].took /\ to.retryAfter = request[r].retryAfter
        /\ to.input = request[r].input /\ to.identity = request[r].identity /\ to.pc = "done"
    BY <1>1
  <2> QED
    BY <2>1, <2>2, LateStep
<1>4. CASE LogEnds(r)
  <2>1. Becomes(r, Upward(r)) /\ UNCHANGED <<config, spent, refills>> /\ request[r].pc = "up"
    BY <1>4 DEF LogEnds, shared, Above
  <2>2. /\ Upward(r).took = request[r].took /\ Upward(r).retryAfter = request[r].retryAfter
        /\ Upward(r).input = request[r].input /\ Upward(r).identity = request[r].identity
        /\ Upward(r).pc = request[r].pc
    BY <1>1 DEF Upward
  <2> QED
    BY <2>1, <2>2, LateStep
<1>5. CASE I18nEnds(r)
  <2>1. /\ \E shown : Becomes(r, [Upward(r) EXCEPT !.shown = shown])
        /\ UNCHANGED <<config, spent, refills>> /\ request[r].pc = "up"
    BY <1>5, Zenon DEF I18nEnds, shared, Above
  <2>2. PICK shown : Becomes(r, [Upward(r) EXCEPT !.shown = shown])
    BY <2>1
  <2> DEFINE to == [Upward(r) EXCEPT !.shown = shown]
  <2>3. /\ to.took = request[r].took /\ to.retryAfter = request[r].retryAfter
        /\ to.input = request[r].input /\ to.identity = request[r].identity /\ to.pc = request[r].pc
    BY <1>1 DEF Upward
  <2> QED
    BY <2>1, <2>2, <2>3, LateStep
<1>6. CASE Reply(r)
  <2> DEFINE to == [request[r] EXCEPT !.pc = "done"]
  <2>1. Becomes(r, to) /\ UNCHANGED <<config, spent, refills>>
    BY <1>6 DEF Reply, shared
  <2>2. /\ to.took = request[r].took /\ to.retryAfter = request[r].retryAfter
        /\ to.input = request[r].input /\ to.identity = request[r].identity /\ to.pc = "done"
    BY <1>1
  <2> QED
    BY <2>1, <2>2, LateStep
<1> QED
  BY <1>2, <1>3, <1>4, <1>5, <1>6

\* The limits of a request are numbers.
LEMMA Capacities ==
    ASSUME GatewayInv, LimitInv, NEW r \in Requests, request[r].pc # "idle", request[r].input.via # "docs",
           NEW policies, policies = config.limits[request[r].input.op]
    PROVE  /\ IsFiniteSet(DOMAIN policies)
           /\ \A i \in DOMAIN policies : policies[i].capacity \in Int
<1>1. request[r].input \in Inputs[r] /\ config \in Assignments
  BY DEF GatewayInv, Sound, Walks, LimitInv
<1>2. ASSUME NEW q \in Requests, NEW input \in Inputs[q], NEW c \in Assignments, input.via # "docs"
      PROVE  /\ c.limits[input.op] \in Seq({c.limits[input.op][i] : i \in DOMAIN c.limits[input.op]})
             /\ \A i \in DOMAIN c.limits[input.op] : c.limits[input.op][i].capacity \in Int
  BY <1>2, GatewayConstants, Zenon
<1>3. ASSUME NEW S, policies \in Seq(S) PROVE IsFiniteSet(DOMAIN policies)
  <2>1. DOMAIN policies = 1..Len(policies) /\ Len(policies) \in Nat
    BY <1>3
  <2> QED
    BY <2>1, FS_Interval
<1> DEFINE S == {config.limits[request[r].input.op][i] : i \in DOMAIN config.limits[request[r].input.op]}
<1>4. policies \in Seq(S)
  BY <1>1, <1>2, Zenon
<1>5. \A i \in DOMAIN policies : policies[i].capacity \in Int
  BY <1>1, <1>2, Zenon
<1> QED
  BY <1>3, <1>4, <1>5

\* Room that comes back is counted.
LEMMA RefillLimits ==
    ASSUME GatewayInv, LimitInv, NEW key \in DOMAIN spent, Refill(key) PROVE LimitInv'
<1>1. /\ UNCHANGED <<config, request>> /\ spent[key] > 0
      /\ refills' = refills + 1 /\ spent' = [spent EXCEPT ![key] = @ - 1]
  BY DEF Refill
<1>2. Balanced(request, spent, refills)
  BY DEF LimitInv
<1>3. spent[key] \in Nat
  <2>1. SpentOn(spent, key) \in Nat
    BY <1>2 DEF Balanced
  <2> QED
    BY <2>1 DEF SpentOn
<1>4. DOMAIN spent' = DOMAIN spent /\ spent'[key] = spent[key] - 1
      /\ \A k \in DOMAIN spent \ {key} : spent'[k] = spent[k]
  BY <1>1
<1>5. ASSUME NEW k
      PROVE  SpentOn(spent', k) = SpentOn(spent, k) \/ (SpentOn(spent', k) = SpentOn(spent, k) - 1 /\ SpentOn(spent, k) > 0)
  BY <1>1, <1>4 DEF SpentOn
<1>6. refills \in Nat /\ refills' \in Nat
  BY <1>1, <1>2 DEF Balanced
<1>7. ASSUME NEW k
      PROVE  /\ SpentOn(spent', k) \in Nat /\ SpentOn(spent, k) \in Nat /\ SpentOn(spent', k) <= SpentOn(spent, k)
             /\ SpentOn(spent', k) <= Cardinality(Sharing(request, k))
             /\ Cardinality(Sharing(request, k)) <= SpentOn(spent', k) + refills'
  <2>1. /\ SpentOn(spent, k) \in Nat
        /\ SpentOn(spent, k) <= Cardinality(Sharing(request, k))
        /\ Cardinality(Sharing(request, k)) <= SpentOn(spent, k) + refills
    BY <1>2 DEF Balanced
  <2>2. Cardinality(Sharing(request, k)) \in Nat
    <3>1. Sharing(request, k) \in SUBSET TakenIn(request) /\ IsFiniteSet(TakenIn(request))
      BY <1>2 DEF Sharing, Balanced
    <3>2. IsFiniteSet(Sharing(request, k))
      BY <3>1, FS_Subset
    <3> QED
      BY <3>2, FS_CardinalityType
  <2>3. refills' = refills + 1
    BY <1>1
  <2>4. CASE SpentOn(spent', k) = SpentOn(spent, k)
    BY <1>6, <2>1, <2>2, <2>3, <2>4
  <2>5. CASE SpentOn(spent', k) = SpentOn(spent, k) - 1 /\ SpentOn(spent, k) > 0
    BY <1>6, <2>1, <2>2, <2>3, <2>5
  <2> QED
    BY <1>5, <2>4, <2>5
<1>8. Balanced(request, spent', refills')
  BY <1>2, <1>6, <1>7 DEF Balanced
<1>9. ASSUME NEW r \in Requests PROVE Admitted(request[r], config.limits, spent')
  <2>1. Admitted(request[r], config.limits, spent)
    BY DEF LimitInv
  <2>2. CASE request[r].took # <<>>
    <3>1. Settled(request[r]) /\ request[r].input.via # "docs" /\ request[r].took = config.limits[request[r].input.op]
      BY <2>1, <2>2 DEF Admitted
    <3>2. request[r].pc # "idle"
      BY <3>1 DEF Settled
    <3>3. \A i \in DOMAIN request[r].took : request[r].took[i].capacity \in Int
      BY <3>1, <3>2, Capacities
    <3> QED
      BY <1>7, <2>1, <3>3 DEF Admitted
  <2>3. CASE request[r].took = <<>>
    BY <2>3 DEF Admitted
  <2> QED
    BY <2>2, <2>3
<1> QED
  BY <1>1, <1>8, <1>9 DEF LimitInv


\* The keys of the buckets are what the policies count together.
LEMMA KeysCount ==
    ASSUME NEW r, NEW policies
    PROVE  /\ DOMAIN Keys_(r, policies) = DOMAIN policies
           /\ \A i \in DOMAIN policies : Keys_(r, policies)[i] = CountedOf(request[r], policies[i])
           /\ \A key : {i \in DOMAIN Keys_(r, policies) : Keys_(r, policies)[i] = key} = Asking(request[r], policies, key)
<1>1. /\ DOMAIN Keys_(r, policies) = DOMAIN policies
      /\ \A i \in DOMAIN policies : Keys_(r, policies)[i] =
             BucketKey(In(r).op, policies[i].dimension, PolicyIdentity(r, policies[i].dimension), policies[i].algorithm)
  BY DEF Keys_
<1>2. ASSUME NEW i \in DOMAIN policies
      PROVE  BucketKey(In(r).op, policies[i].dimension, PolicyIdentity(r, policies[i].dimension), policies[i].algorithm)
               = CountedOf(request[r], policies[i])
  BY Zenon DEF BucketKey, CountedOf, PolicyIdentity, IdentityOf, In
<1>3. \A i \in DOMAIN policies : Keys_(r, policies)[i] = CountedOf(request[r], policies[i])
  BY <1>1, <1>2
<1> HIDE DEF Keys_
<1> QED
  BY <1>1, <1>3 DEF Asking

\* As many tokens more, and as many shares.
LEMMA TakesAlike ==
    ASSUME NEW held \in Nat, NEW sharing \in Nat, NEW asking \in Nat, NEW room \in Nat, NEW now, NEW more,
           held <= sharing, sharing <= held + room, now = held + asking, more = sharing + asking
    PROVE  now \in Nat /\ now <= more /\ more <= now + room
  OBVIOUS

\* A request for which all its buckets have room.
LEMMA TakenLimits ==
    ASSUME GatewayInv, LimitInv, NEW r \in Requests, At(r, "ratelimit"),
           NEW policies, policies = config.limits[request[r].input.op],
           UNCHANGED <<config, refills>>,
           \A i \in DOMAIN policies :
               LET key == CountedOf(request[r], policies[i])
               IN  SpentOn(spent, key) + Cardinality(Asking(request[r], policies, key)) <= policies[i].capacity,
           \A key : SpentOn(spent', key) = SpentOn(spent, key) + Cardinality(Asking(request[r], policies, key)),
           Becomes(r, [Onward(r) EXCEPT !.took = policies])
    PROVE  LimitInv'
<1> DEFINE was == request[r]
           to  == [Onward(r) EXCEPT !.took = policies]
<1>1. /\ was.took = <<>> /\ ~was.retryAfter
      /\ DOMAIN was = Fields /\ was.pc = "down" /\ Place(r) = "ratelimit" /\ Walks(r)
  BY BeforeLimits, AtStage
<1>2. /\ to.took = policies /\ to.retryAfter = was.retryAfter /\ to.input = was.input
      /\ to.identity = was.identity /\ to.pc = "down" /\ to.todo = Tail(was.todo)
  BY <1>1, OnwardFields DEF Fields, NewRequest
<1>3. request'[r] = to /\ \A q \in Requests \ {r} : request'[q] = request[q]
  BY Written
<1>4. was.input.via # "docs" /\ Head(to.todo) = "handler"
  <2>1. Linked(In(r).via, was.todo) /\ Head(was.todo) = "ratelimit"
    BY <1>1 DEF Walks, Place
  <2>2. <<Head(was.todo), Head(Tail(was.todo))>> \in Links(In(r).via)
    BY <2>1, LinkedTail
  <2>3. Head(Tail(was.todo)) = "handler"
    BY <2>1, <2>2 DEF Links
  <2> QED
    BY <1>1, <1>2, <2>3 DEF Walks, In
<1> HIDE DEF to
<1>5. IsFiniteSet(DOMAIN policies) /\ \A i \in DOMAIN policies : policies[i].capacity \in Int
  BY <1>1, <1>4, Capacities
<1>6. Balanced(request, spent, refills)
  BY DEF LimitInv
<1>7. \A policy : CountedOf(to, policy) = CountedOf(was, policy)
  BY <1>2 DEF CountedOf, IdentityOf
<1>8. \A key : Asking(to, policies, key) = Asking(was, policies, key)
  BY <1>7 DEF Asking
<1>9. ASSUME NEW key
      PROVE  /\ Cardinality(Asking(was, policies, key)) \in Nat
             /\ Cardinality(Sharing(request, key)) \in Nat
             /\ SpentOn(spent, key) \in Nat
  <2>1. Asking(was, policies, key) \in SUBSET DOMAIN policies
    BY DEF Asking
  <2>2. Sharing(request, key) \in SUBSET TakenIn(request)
    BY DEF Sharing
  <2>3. IsFiniteSet(Asking(was, policies, key)) /\ IsFiniteSet(Sharing(request, key))
    BY <1>5, <1>6, <2>1, <2>2, FS_Subset DEF Balanced
  <2> QED
    BY <1>6, <2>3, FS_CardinalityType DEF Balanced
<1>10. /\ IsFiniteSet(TakenIn(request'))
       /\ \A key : Cardinality(Sharing(request', key)) =
                     Cardinality(Sharing(request, key)) + Cardinality(Asking(was, policies, key))
  <2>1. IsFiniteSet(TakenIn(request)) /\ request'[r].took = policies
    BY <1>2, <1>3, <1>6 DEF Balanced
  <2>2. /\ IsFiniteSet(TakenIn(request'))
        /\ \A key : Cardinality(Sharing(request', key)) =
                      Cardinality(Sharing(request, key)) + Cardinality(Asking(request'[r], request'[r].took, key))
    <3>1. request[r].took = <<>> /\ IsFiniteSet(DOMAIN request'[r].took) /\ IsFiniteSet(TakenIn(request))
      BY <1>1, <1>5, <2>1
    <3>2. \A q \in Requests \ {r} : request'[q] = request[q]
      BY <1>3
    <3> DEFINE before == request
               after  == request'
    <3>3. /\ before[r].took = <<>> /\ IsFiniteSet(DOMAIN after[r].took) /\ IsFiniteSet(TakenIn(before))
          /\ \A q \in Requests \ {r} : after[q] = before[q]
      BY <3>1, <3>2
    <3> HIDE DEF before, after, was
    <3>4. /\ IsFiniteSet(TakenIn(after))
          /\ \A key : Cardinality(Sharing(after, key)) =
                        Cardinality(Sharing(before, key)) + Cardinality(Asking(after[r], after[r].took, key))
      BY <3>3, MoreShares
    <3> QED
      BY <3>4 DEF before, after
  <2> QED
    BY <1>2, <1>3, <1>8, <2>2
<1>11. Balanced(request', spent', refills')
  <2>1. refills' = refills /\ refills \in Nat
    BY <1>6 DEF Balanced
  <2>2. ASSUME NEW key
        PROVE  /\ SpentOn(spent', key) \in Nat
               /\ SpentOn(spent', key) <= Cardinality(Sharing(request', key))
               /\ Cardinality(Sharing(request', key)) <= SpentOn(spent', key) + refills
    <3>1. /\ SpentOn(spent, key) <= Cardinality(Sharing(request, key))
          /\ Cardinality(Sharing(request, key)) <= SpentOn(spent, key) + refills
      BY <1>6 DEF Balanced
    <3>2. SpentOn(spent', key) = SpentOn(spent, key) + Cardinality(Asking(was, policies, key))
      OBVIOUS
    <3>3. Cardinality(Sharing(request', key)) = Cardinality(Sharing(request, key)) + Cardinality(Asking(was, policies, key))
      BY <1>10, Zenon
    <3>4. /\ Cardinality(Asking(was, policies, key)) \in Nat
          /\ Cardinality(Sharing(request, key)) \in Nat
          /\ SpentOn(spent, key) \in Nat
      BY <1>9, Zenon
    <3> DEFINE asking  == Cardinality(Asking(was, policies, key))
               sharing == Cardinality(Sharing(request, key))
               held    == SpentOn(spent, key)
               more    == Cardinality(Sharing(request', key))
               now     == SpentOn(spent', key)
    <3> HIDE DEF asking, sharing, held, more, now, was
    <3>5. /\ asking \in Nat /\ sharing \in Nat /\ held \in Nat /\ refills \in Nat
          /\ held <= sharing /\ sharing <= held + refills
          /\ more = sharing + asking /\ now = held + asking
      BY <2>1, <3>1, <3>2, <3>3, <3>4 DEF asking, sharing, held, more, now
    <3>6. now \in Nat /\ now <= more /\ more <= now + refills
      BY <3>5, TakesAlike
    <3> QED
      BY <3>6 DEF more, now
  <2> QED
    BY <1>10, <2>1, <2>2 DEF Balanced
<1>12. Admitted(to, config.limits, spent')
  <2>1. Settled(to)
    BY <1>2, <1>4 DEF Settled
  <2>2. ASSUME NEW i \in DOMAIN policies
        PROVE  SpentOn(spent', CountedOf(to, policies[i])) <= policies[i].capacity
    <3>1. CountedOf(to, policies[i]) = CountedOf(was, policies[i])
      BY <1>7
    <3> QED
      BY <3>1
  <2> QED
    BY <1>2, <1>4, <2>1, <2>2 DEF Admitted
<1>13. Refused(to, config.limits, request')
  BY <1>1, <1>2 DEF Refused
<1>14. ASSUME NEW q \in Requests \ {r}
       PROVE  /\ Admitted(request[q], config.limits, spent')
              /\ Refused(request[q], config.limits, request')
  <2> DEFINE other == request[q]
  <2>1. Admitted(other, config.limits, spent) /\ Refused(other, config.limits, request)
    BY DEF LimitInv
  <2>2. Admitted(other, config.limits, spent')
    <3> SUFFICES ASSUME other.took # <<>>, NEW i \in DOMAIN other.took
                 PROVE  SpentOn(spent', CountedOf(other, other.took[i])) <= other.took[i].capacity
      BY <2>1 DEF Admitted
    <3> DEFINE key == CountedOf(other, other.took[i])
    <3>1. /\ other.took = config.limits[other.input.op]
          /\ SpentOn(spent, key) <= other.took[i].capacity
      BY <2>1 DEF Admitted
    <3>2. CASE Asking(was, policies, key) = {}
      <4>1. SpentOn(spent', key) = SpentOn(spent, key) + Cardinality({})
        BY <3>2
      <4>2. Cardinality({}) = 0 /\ SpentOn(spent, key) \in Nat
        BY <1>9, FS_EmptySet
      <4> HIDE DEF key, other
      <4>3. SpentOn(spent', key) = SpentOn(spent, key)
        BY <4>1, <4>2
      <4> QED
        BY <3>1, <4>3 DEF key
    <3>3. CASE Asking(was, policies, key) # {}
      <4>1. PICK j \in DOMAIN policies : CountedOf(was, policies[j]) = key
        BY <3>3 DEF Asking
      <4>2. /\ was.input.op = other.input.op
            /\ policies[j].dimension = other.took[i].dimension
            /\ IdentityOf(was, policies[j].dimension) = IdentityOf(other, other.took[i].dimension)
            /\ (IF policies[j].algorithm = None THEN "TOKEN_BUCKET" ELSE policies[j].algorithm) =
                 (IF other.took[i].algorithm = None THEN "TOKEN_BUCKET" ELSE other.took[i].algorithm)
        BY <4>1 DEF CountedOf
      <4>3. other.took = policies
        BY <3>1, <4>2
      <4>4. CountedOf(was, policies[i]) = key
        BY <4>2, <4>3 DEF CountedOf
      <4> HIDE DEF key
      <4> QED
        BY <4>3, <4>4 DEF key
    <3> QED
      BY <3>2, <3>3
  <2>3. Refused(other, config.limits, request')
    <3> SUFFICES ASSUME other.retryAfter
                 PROVE  Refused(other, config.limits, request')
      BY DEF Refused
    <3> DEFINE theirs == config.limits[other.input.op]
    <3>1. /\ other.pc \in {"up", "done"} /\ other.input.via # "docs" /\ other.took = <<>>
          /\ \E i \in DOMAIN theirs :
               LET key == CountedOf(other, theirs[i])
               IN  Cardinality(Sharing(request, key)) + Cardinality(Asking(other, theirs, key)) > theirs[i].capacity
      BY <2>1 DEF Refused
    <3>2. IsFiniteSet(DOMAIN theirs) /\ \A i \in DOMAIN theirs : theirs[i].capacity \in Int
      BY <3>1, Capacities
    <3>3. PICK i \in DOMAIN theirs :
             Cardinality(Sharing(request, CountedOf(other, theirs[i])))
               + Cardinality(Asking(other, theirs, CountedOf(other, theirs[i]))) > theirs[i].capacity
      BY <3>1
    <3> DEFINE key == CountedOf(other, theirs[i])
    <3>4. Cardinality(Asking(other, theirs, key)) \in Nat
      <4>1. Asking(other, theirs, key) \in SUBSET DOMAIN theirs
        BY DEF Asking
      <4>2. IsFiniteSet(Asking(other, theirs, key))
        BY <3>2, <4>1, FS_Subset
      <4> QED
        BY <4>2, FS_CardinalityType
    <3>5. Cardinality(Sharing(request', key)) + Cardinality(Asking(other, theirs, key)) > theirs[i].capacity
      <4>1. /\ Cardinality(Sharing(request', key)) =
                 Cardinality(Sharing(request, key)) + Cardinality(Asking(was, policies, key))
            /\ Cardinality(Sharing(request, key)) \in Nat /\ Cardinality(Asking(was, policies, key)) \in Nat
            /\ Cardinality(Sharing(request, key)) + Cardinality(Asking(other, theirs, key)) > theirs[i].capacity
            /\ theirs[i].capacity \in Int
        BY <1>9, <1>10, <3>2, <3>3
      <4> DEFINE before == Cardinality(Sharing(request, key))
                 more   == Cardinality(Asking(was, policies, key))
                 wanted == Cardinality(Asking(other, theirs, key))
                 room   == theirs[i].capacity
      <4>2. Cardinality(Sharing(request', key)) = before + more
        BY <4>1
      <4>3. before \in Nat /\ more \in Nat /\ wanted \in Nat /\ room \in Int /\ before + wanted > room
        BY <3>4, <4>1
      <4> HIDE DEF before, more, wanted, room
      <4>4. (before + more) + wanted > room
        BY <4>3
      <4> QED
        BY <4>2, <4>4 DEF wanted, room
    <3> QED
      BY <3>1, <3>5 DEF Refused
  <2> QED
    BY <2>2, <2>3
<1>15. \A q \in Requests :
         Admitted(request'[q], config.limits, spent') /\ Refused(request'[q], config.limits, request')
  BY <1>3, <1>12, <1>13, <1>14
<1> QED
  BY <1>11, <1>15 DEF LimitInv


LEMMA RefusedFields ==
    ASSUME NEW r, DOMAIN request[r] = Fields, NEW to, to = [Fails(r, Limited) EXCEPT !.retryAfter = TRUE]
    PROVE  /\ to.took = request[r].took /\ to.input = request[r].input
           /\ to.identity = request[r].identity /\ to.pc = "up"
<1> DEFINE fails == Fails(r, Limited)
<1>1. /\ DOMAIN fails = Fields /\ fails.pc = "up" /\ fails.input = request[r].input
      /\ fails.identity = request[r].identity /\ fails.took = request[r].took
  BY FailsFields
<1>2. to = [fails EXCEPT !.retryAfter = TRUE]
  OBVIOUS
<1> HIDE DEF fails
<1> QED
  BY <1>1, <1>2 DEF Fields, NewRequest

LEMMA NoRoom ==
    ASSUME NEW held \in Nat, NEW sharing \in Nat, NEW asking \in Nat, NEW room \in Int,
           held <= sharing, ~(held + asking <= room)
    PROVE  sharing + asking > room
  OBVIOUS

\* A request for which one of them has none.
LEMMA RefusedLimits ==
    ASSUME GatewayInv, LimitInv, NEW r \in Requests, At(r, "ratelimit"),
           NEW policies, policies = config.limits[request[r].input.op],
           UNCHANGED <<config, spent, refills>>,
           ~ \A i \in DOMAIN policies :
               LET key == CountedOf(request[r], policies[i])
               IN  SpentOn(spent, key) + Cardinality(Asking(request[r], policies, key)) <= policies[i].capacity,
           Becomes(r, [Fails(r, Limited) EXCEPT !.retryAfter = TRUE])
    PROVE  LimitInv'
<1> DEFINE was == request[r]
           to  == [Fails(r, Limited) EXCEPT !.retryAfter = TRUE]
<1>1. /\ was.took = <<>> /\ ~was.retryAfter
      /\ DOMAIN was = Fields /\ was.pc = "down" /\ Place(r) = "ratelimit" /\ Walks(r)
  BY BeforeLimits, AtStage
<1>2. /\ to.took = <<>> /\ to.input = was.input /\ to.identity = was.identity /\ to.pc = "up"
  BY <1>1, RefusedFields
<1>3. request'[r] = to /\ \A q \in Requests \ {r} : request'[q] = request[q]
  BY Written
<1>4. was.input.via # "docs"
  BY <1>1 DEF Walks, In
<1> HIDE DEF to
<1>5. IsFiniteSet(DOMAIN policies) /\ \A i \in DOMAIN policies : policies[i].capacity \in Int
  BY <1>1, <1>4, Capacities
<1>6. Balanced(request, spent, refills)
  BY DEF LimitInv
<1>7. TakenIn(request') = TakenIn(request) /\ \A key : Sharing(request', key) = Sharing(request, key)
  <2>1. ASSUME NEW q \in Requests
        PROVE  /\ request'[q].took = request[q].took
               /\ request[q].took # <<>> =>
                    request'[q].input = request[q].input /\ request'[q].identity = request[q].identity
    BY <1>1, <1>2, <1>3
  <2> QED
    BY <2>1, SameShares
<1>8. Balanced(request', spent, refills)
  BY <1>6, <1>7 DEF Balanced
<1>9. \A policy : CountedOf(to, policy) = CountedOf(was, policy)
  BY <1>2 DEF CountedOf, IdentityOf
<1>10. Refused(to, config.limits, request')
  <2>1. PICK i \in DOMAIN policies :
           ~(SpentOn(spent, CountedOf(was, policies[i]))
               + Cardinality(Asking(was, policies, CountedOf(was, policies[i]))) <= policies[i].capacity)
    OBVIOUS
  <2> DEFINE key == CountedOf(was, policies[i])
  <2>2. Asking(to, policies, key) = Asking(was, policies, key) /\ CountedOf(to, policies[i]) = key
    BY <1>9 DEF Asking
  <2>3. /\ Cardinality(Asking(was, policies, key)) \in Nat /\ Cardinality(Sharing(request, key)) \in Nat
        /\ SpentOn(spent, key) \in Nat /\ SpentOn(spent, key) <= Cardinality(Sharing(request, key))
    <3>1. Asking(was, policies, key) \in SUBSET DOMAIN policies /\ Sharing(request, key) \in SUBSET TakenIn(request)
      BY DEF Asking, Sharing
    <3>2. IsFiniteSet(Asking(was, policies, key)) /\ IsFiniteSet(Sharing(request, key))
      BY <1>5, <1>6, <3>1, FS_Subset DEF Balanced
    <3> QED
      BY <1>6, <3>2, FS_CardinalityType DEF Balanced
  <2>4. Cardinality(Sharing(request', key)) + Cardinality(Asking(to, policies, key)) > policies[i].capacity
    <3>1. ~(SpentOn(spent, key) + Cardinality(Asking(was, policies, key)) <= policies[i].capacity)
      BY <2>1
    <3>2. Sharing(request', key) = Sharing(request, key) /\ policies[i].capacity \in Int
      BY <1>5, <1>7
    <3>3. /\ Cardinality(Asking(to, policies, key)) = Cardinality(Asking(was, policies, key))
          /\ Cardinality(Sharing(request', key)) = Cardinality(Sharing(request, key))
      BY <2>2, <3>2
    <3> DEFINE asking  == Cardinality(Asking(was, policies, key))
               sharing == Cardinality(Sharing(request, key))
               held    == SpentOn(spent, key)
               room    == policies[i].capacity
    <3>4. asking \in Nat /\ sharing \in Nat /\ held \in Nat /\ room \in Int /\ held <= sharing
      BY <2>3, <3>2
    <3>5. ~(held + asking <= room)
      BY <3>1
    <3> HIDE DEF asking, sharing, held, room
    <3>6. sharing + asking > room
      BY <3>4, <3>5, NoRoom, Zenon
    <3> QED
      BY <3>3, <3>6 DEF asking, sharing, room
  <2> QED
    BY <1>2, <1>4, <2>2, <2>4 DEF Refused
<1>11. Admitted(to, config.limits, spent)
  BY <1>2 DEF Admitted
<1>12. ASSUME NEW q \in Requests \ {r}
       PROVE  Admitted(request[q], config.limits, spent) /\ Refused(request[q], config.limits, request')
  <2>1. Admitted(request[q], config.limits, spent) /\ Refused(request[q], config.limits, request)
    BY DEF LimitInv
  <2>2. request[q].retryAfter => request[q].pc \in {"up", "done"}
    BY <2>1 DEF Refused
  <2> QED
    BY <1>7, <2>1, <2>2, RefusedStays
<1>13. \A q \in Requests :
         Admitted(request'[q], config.limits, spent) /\ Refused(request'[q], config.limits, request')
  BY <1>3, <1>10, <1>11, <1>12
<1> QED
  BY <1>8, <1>13 DEF LimitInv

LEMMA RateLimitLimits ==
    ASSUME GatewayInv, LimitInv, NEW r \in Requests, NEW resolved \in BOOLEAN, RateLimit(r, resolved)
    PROVE  LimitInv'
<1> DEFINE policies == config.limits[In(r).op]
           keys == Keys_(r, policies)
           Asked(key) == Cardinality({i \in DOMAIN keys : keys[i] = key})
           room == \A i \in DOMAIN keys : Spent(keys[i]) + Asked(keys[i]) <= policies[i].capacity
<1>1. At(r, "ratelimit") /\ UNCHANGED <<config, refills>>
  BY DEF RateLimit
<1>2. \/ (Becomes(r, Onward(r)) \/ \E err : Becomes(r, Fails(r, err))) /\ UNCHANGED spent
      \/ TakeRateLimits(r, keys, policies)
  BY Zenon DEF RateLimit
<1>3. policies = config.limits[request[r].input.op]
  BY DEF In
<1>4. \A key : Spent(key) = SpentOn(spent, key)
  BY DEF Spent, SpentOn
<1>5. /\ DOMAIN keys = DOMAIN policies
      /\ \A i \in DOMAIN policies : keys[i] = CountedOf(request[r], policies[i])
      /\ \A key : Asked(key) = Cardinality(Asking(request[r], policies, key))
  <2>1. ASSUME NEW key PROVE {i \in DOMAIN keys : keys[i] = key} = Asking(request[r], policies, key)
    BY KeysCount, Zenon
  <2>2. ASSUME NEW key PROVE Asked(key) = Cardinality(Asking(request[r], policies, key))
    BY <2>1, Zenon
  <2>3. DOMAIN keys = DOMAIN policies /\ \A i \in DOMAIN policies : keys[i] = CountedOf(request[r], policies[i])
    <3> HIDE DEF Asked, policies
    <3> QED
      BY KeysCount
  <2> HIDE DEF keys, Asked, policies
  <2> QED
    BY <2>2, <2>3
<1> HIDE DEF keys, Asked
<1>6. room <=> \A i \in DOMAIN policies :
                 LET key == CountedOf(request[r], policies[i])
                 IN  SpentOn(spent, key) + Cardinality(Asking(request[r], policies, key)) <= policies[i].capacity
  BY <1>4, <1>5
<1>7. CASE (Becomes(r, Onward(r)) \/ \E err : Becomes(r, Fails(r, err))) /\ UNCHANGED spent
  BY <1>1, <1>7, PlainLimits
<1>8. CASE TakeRateLimits(r, keys, policies)
  <2>1. \/ /\ room /\ spent' = [k \in DOMAIN spent \cup ToSet(keys) |-> Spent(k) + Asked(k)]
           /\ Becomes(r, [Onward(r) EXCEPT !.took = policies])
        \/ ~room /\ Becomes(r, [Fails(r, Limited) EXCEPT !.retryAfter = TRUE]) /\ UNCHANGED spent
    BY <1>8, Zenon DEF TakeRateLimits, Asked
  <2> HIDE DEF room, policies
  <2>2. CASE /\ room /\ spent' = [k \in DOMAIN spent \cup ToSet(keys) |-> Spent(k) + Asked(k)]
             /\ Becomes(r, [Onward(r) EXCEPT !.took = policies])
    <3>1. ASSUME NEW key PROVE SpentOn(spent', key) = SpentOn(spent, key) + Cardinality(Asking(request[r], policies, key))
      <4>1. SpentOn(spent, key) \in Nat
        BY DEF LimitInv, Balanced
      <4>2. CASE key \in DOMAIN spent \cup ToSet(keys)
        BY <1>4, <1>5, <2>2, <4>2 DEF SpentOn
      <4>3. CASE key \notin DOMAIN spent \cup ToSet(keys)
        <5>1. SpentOn(spent', key) = 0 /\ SpentOn(spent, key) = 0
          BY <2>2, <4>3 DEF SpentOn
        <5>2. Asking(request[r], policies, key) = {}
          BY <1>5, <4>3 DEF Asking, ToSet
        <5> QED
          BY <5>1, <5>2, FS_EmptySet
      <4> QED
        BY <4>2, <4>3
    <3> QED
      BY <1>1, <1>3, <1>6, <2>2, <3>1, TakenLimits
  <2>3. CASE ~room /\ Becomes(r, [Fails(r, Limited) EXCEPT !.retryAfter = TRUE]) /\ UNCHANGED spent
    BY <1>1, <1>3, <1>6, <2>3, RefusedLimits
  <2> QED
    BY <2>1, <2>2, <2>3
<1> QED
  BY <1>2, <1>7, <1>8


LEMMA InitLimits == Init => LimitInv
<1> SUFFICES ASSUME Init PROVE LimitInv
  OBVIOUS
<1>1. \A r \in Requests : request[r].took = <<>> /\ request[r].retryAfter = FALSE
  BY DEF Init, NewRequest
<1>2. TakenIn(request) = {}
  <2>1. \A r \in Requests : DOMAIN request[r].took = {}
    BY <1>1
  <2> QED
    BY <2>1 DEF TakenIn
<1>3. \A key : SpentOn(spent, key) = 0 /\ Sharing(request, key) = {}
  BY <1>2 DEF Init, SpentOn, Sharing
<1>4. Balanced(request, spent, refills)
  <2>1. refills = 0
    BY DEF Init
  <2> QED
    BY <1>2, <1>3, <2>1, FS_EmptySet DEF Balanced
<1>5. \A r \in Requests : Admitted(request[r], config.limits, spent) /\ Refused(request[r], config.limits, request)
  BY <1>1 DEF Admitted, Refused
<1> QED
  BY <1>4, <1>5 DEF LimitInv, Init

LEMMA StepLimits == GatewayInv /\ LimitInv /\ [Next]_vars => LimitInv'
<1> SUFFICES ASSUME GatewayInv, LimitInv, [Next]_vars PROVE LimitInv'
  OBVIOUS
<1>1. ASSUME NEW r \in Requests, Step(r) PROVE LimitInv'
  <2>1. ASSUME NEW input \in Inputs[r], Arrive(r, input) PROVE LimitInv'
    BY <2>1, ArriveLimits
  <2>2. ASSUME NEW decision \in {"allow", "deny", "error"}, Authorize(r, decision) PROVE LimitInv'
    BY <2>2, AuthorizeLimits
  <2>3. ASSUME NEW resolved \in BOOLEAN, RateLimit(r, resolved) PROVE LimitInv'
    BY <2>3, RateLimitLimits
  <2> QED
    BY <1>1, <2>1, <2>2, <2>3, I18nLimits, LoggingLimits, AuthLimits, AuthnLimits, AuthClaimsLimits,
       TenantLimits, ValidateLimits, DocsLimits, WayUpLimits, Zenon DEF Step
<1>2. CASE UNCHANGED <<config, spent, refills, request>>
  BY <1>2, Zenon DEF LimitInv
<1>3. ASSUME NEW t \in Revoked, Revoke(t) PROVE LimitInv'
  BY <1>2, <1>3 DEF Revoke
<1>4. ASSUME NEW rule \in Withdrawn, Withdraw(rule) PROVE LimitInv'
  BY <1>2, <1>4 DEF Withdraw
<1>5. ASSUME NEW key \in DOMAIN spent, Refill(key) PROVE LimitInv'
  BY <1>5, RefillLimits
<1>6. CASE UNCHANGED vars
  BY <1>2, <1>6 DEF vars
<1> QED
  BY <1>1, <1>3, <1>4, <1>5, <1>6 DEF Next

\* What is counted together has no more than its limit and what came back, and who was
\* refused found, with his own policies, too little room (NewMiddleware, bucketKey).
THEOREM LimitsHold == Spec => []LimitsSeparate
<1>1. GatewayInv /\ LimitInv => LimitsSeparate
  <2> SUFFICES ASSUME GatewayInv, LimitInv, NEW r \in Requests, request[r].input # None, In(r).via # "docs",
                      NEW policies, policies = config.limits[In(r).op]
               PROVE  /\ \A i \in DOMAIN request[r].took : Given(r, policies[i]) <= policies[i].capacity + refills
                      /\ request[r].retryAfter =>
                           /\ request[r].took = <<>>
                           /\ \E i \in DOMAIN policies : Given(r, policies[i]) + Wanted(r, policies, policies[i]) > policies[i].capacity
    BY DEF LimitsSeparate
  <2>1. ASSUME NEW policy PROVE Given(r, policy) = Cardinality(Sharing(request, CountedOf(request[r], policy)))
    <3>1. Taken = TakenIn(request)
      BY DEF Taken, TakenIn
    <3>2. Counted(r, policy) = CountedOf(request[r], policy)
      BY CountedIs
    <3>3. \A p \in TakenIn(request) :
            Counted(p[1], request[p[1]].took[p[2]]) = CountedOf(request[p[1]], request[p[1]].took[p[2]])
      BY CountedIs
    <3>4. {p \in Taken : Counted(p[1], request[p[1]].took[p[2]]) = Counted(r, policy)}
            = Sharing(request, CountedOf(request[r], policy))
      BY <3>1, <3>2, <3>3 DEF Sharing
    <3> QED
      BY <3>4 DEF Given
  <2>2. ASSUME NEW policy
        PROVE  Wanted(r, policies, policy) = Cardinality(Asking(request[r], policies, CountedOf(request[r], policy)))
    <3>1. {j \in DOMAIN policies : Counted(r, policies[j]) = Counted(r, policy)}
            = Asking(request[r], policies, CountedOf(request[r], policy))
      BY CountedIs DEF Asking
    <3> QED
      BY <3>1 DEF Wanted
  <2>3. /\ Admitted(request[r], config.limits, spent) /\ Refused(request[r], config.limits, request)
        /\ Balanced(request, spent, refills) /\ policies = config.limits[request[r].input.op]
    BY DEF LimitInv, In
  <2>4. request[r].pc # "idle" /\ request[r].input.via # "docs"
    BY DEF GatewayInv, Sound, NewRequest, In
  <2>5. /\ IsFiniteSet(DOMAIN policies)
        /\ \A i \in DOMAIN policies : policies[i].capacity \in Int
    BY <2>3, <2>4, Capacities
  <2>6. ASSUME NEW i \in DOMAIN request[r].took
        PROVE  Given(r, policies[i]) <= policies[i].capacity + refills
    <3> DEFINE key == CountedOf(request[r], policies[i])
    <3>1. request[r].took # <<>> /\ request[r].took = policies /\ SpentOn(spent, key) <= policies[i].capacity
      BY <2>3, <2>6 DEF Admitted
    <3>2. /\ SpentOn(spent, key) \in Nat /\ refills \in Nat
          /\ Cardinality(Sharing(request, key)) <= SpentOn(spent, key) + refills
      BY <2>3 DEF Balanced
    <3>3. Cardinality(Sharing(request, key)) \in Nat
      <4>1. Sharing(request, key) \in SUBSET TakenIn(request)
        BY DEF Sharing
      <4>2. IsFiniteSet(Sharing(request, key))
        BY <2>3, <4>1, FS_Subset DEF Balanced
      <4> QED
        BY <4>2, FS_CardinalityType
    <3>4. Given(r, policies[i]) = Cardinality(Sharing(request, key)) /\ policies[i].capacity \in Int
      BY <2>1, <2>5, <3>1
    <3> HIDE DEF key
    <3> QED
      BY <3>1, <3>2, <3>3, <3>4
  <2>7. ASSUME request[r].retryAfter
        PROVE  /\ request[r].took = <<>>
               /\ \E i \in DOMAIN policies : Given(r, policies[i]) + Wanted(r, policies, policies[i]) > policies[i].capacity
    BY <2>1, <2>2, <2>3, <2>7 DEF Refused
  <2> QED
    BY <2>6, <2>7
<1> QED
  BY <1>1, InitLimits, StepLimits, GatewayInvariant, PTL DEF Spec

-----------------------------------------------------------------------------
(* What the client is told.  First what the catalogue makes of an error. *)

\* A key found by its text is in the catalogue.
LEMMA SourceIsKey ==
    ASSUME NEW catalog, NEW text, KeyForSource(catalog, text) # None
    PROVE  KeyForSource(catalog, text) \in Keys(catalog)
<1> DEFINE found == {i \in DOMAIN KeyOrder : \E l \in DOMAIN catalog.files :
                        KeyOrder[i] \in DOMAIN catalog.files[l] /\ catalog.files[l][KeyOrder[i]] = text}
<1>1. found # {} /\ KeyForSource(catalog, text) = KeyOrder[Min(found)]
  BY DEF KeyForSource
<1>2. found \subseteq Nat
  BY KeyNames
<1>3. Min(found) \in found
  <2> HIDE DEF found
  <2> QED
    BY <1>1, <1>2, LeastIn
<1> QED
  BY <1>1, <1>3, Zenon DEF Keys

\* Giving an error a reason keeps its key.
LEMMA SameKey ==
    ASSUME NEW err, WellMade(err)
    PROVE  /\ NormalizeStructuredError(err).key = err.key /\ NormalizeStructuredError(err).text = err.text
           /\ err.reason \in DOMAIN Frozen => NormalizeStructuredError(err) = err
  BY DEF WellMade, NormalizeStructuredError

\* The catalogue of a server that runs, and what it shows of an error.
Serves(c, catalog) ==
    c \in Assignments /\ catalog = NewCatalog(c.resources) /\ catalog.ok /\ ~Empty(catalog)

LEMMA ServedLanguages ==
    ASSUME NEW c, NEW catalog, Serves(c, catalog)
    PROVE  \A l, key : Shown(catalog, l, key) => l # None
  BY MessagesAssumption DEF Serves, NewCatalog, NewI18n, Shown

\* An internal error is shown as a message of the catalogue.
LEMMA InternalIsHidden ==
    ASSUME NEW c, NEW catalog, Serves(c, catalog), NEW err, WellMade(err), NEW locale,
           NEW shown, shown = LocalizeError(catalog, locale, DefaultLanguage(c), err),
           shown.reason = "INTERNAL_ERROR"
    PROVE  shown.message.in # None
<1> DEFINE structured == NormalizeStructuredError(err)
           source     == KeyForSource(catalog, structured.text)
           default    == DefaultMessageKey(structured.reason)
           fallback   == DefaultLanguage(c)
<1>1. shown.reason = structured.reason /\ shown.message = Localize(catalog, locale, fallback, shown.key, structured.text)
  BY DEF LocalizeError
<1>2. shown.key = IF structured.key = None THEN default
                  ELSE IF structured.key \notin LegacyKeys \/ HasMessage(catalog, structured.key) THEN structured.key
                  ELSE IF source # None THEN source
                  ELSE IF structured.reason # "INTERNAL_ERROR" THEN None ELSE default
  BY DEF LocalizeError
<1>3. structured.reason = "INTERNAL_ERROR" /\ structured.key \in LegacyKeys \cup {None}
  BY <1>1, SameKey DEF WellMade
<1>4. /\ Keys(catalog) \cap (LegacyKeys \cup {None}) = {} /\ DefaultMessageKey("INTERNAL_ERROR") \in Keys(catalog)
      /\ \A key \in Keys(catalog) : Shown(catalog, fallback, key)
  BY MessagesAssumption DEF Serves
<1>5. source # None => source \in Keys(catalog)
  BY SourceIsKey
<1> HIDE DEF structured, source
<1>6. shown.key \in Keys(catalog)
  BY <1>2, <1>3, <1>4, <1>5 DEF HasMessage
<1>7. shown.key # None /\ Shown(catalog, fallback, shown.key)
  BY <1>4, <1>6
<1>8. \/ Shown(catalog, locale, shown.key) /\ shown.message.in = locale
      \/ shown.message.in = fallback
  BY <1>1, <1>7 DEF Localize
<1> QED
  BY <1>7, <1>8, ServedLanguages

TranslationsIn(catalog, text) ==
    LET key == KeyForSource(catalog, text)
    IN  {[in |-> l, text |-> catalog.files[l][key]] : l \in {m \in DOMAIN catalog.files : key \in DOMAIN catalog.files[m]}}

\* Any other error with a key from its text is shown as it is, or translated.
LEMMA BusinessKeepsItsText ==
    ASSUME NEW c, NEW catalog, Serves(c, catalog), NEW err, WellMade(err), NEW locale,
           NEW shown, shown = LocalizeError(catalog, locale, DefaultLanguage(c), err),
           err.key \in LegacyKeys, err.reason # "INTERNAL_ERROR"
    PROVE  \/ shown.message = [in |-> None, text |-> err.text]
           \/ shown.message \in TranslationsIn(catalog, err.text)
<1> DEFINE source   == KeyForSource(catalog, err.text)
           fallback == DefaultLanguage(c)
<1>1. NormalizeStructuredError(err) = err
  BY SameKey DEF WellMade
<1>2. shown.message = Localize(catalog, locale, fallback, shown.key, err.text)
  BY <1>1 DEF LocalizeError
<1>3. err.key # None /\ ~HasMessage(catalog, err.key)
  BY MessagesAssumption DEF Serves, HasMessage
<1>4. shown.key = IF source # None THEN source ELSE None
  BY <1>1, <1>3 DEF LocalizeError
<1> HIDE DEF source
<1>5. shown.key = source
  BY <1>4
<1>6. ASSUME NEW l, Shown(catalog, l, source), shown.message = [in |-> l, text |-> catalog.files[l][source]]
      PROVE  shown.message \in TranslationsIn(catalog, err.text)
  BY <1>6 DEF TranslationsIn, Shown, source
<1> QED
  BY <1>2, <1>5, <1>6 DEF Localize


-----------------------------------------------------------------------------
(* Then that every answer is one the catalogue was made for. *)

Wrapped(q) == \E i \in DOMAIN q.wraps : q.wraps[i] = "i18n"

\* What a request knows of the catalogue, and what was shown is what it makes of the
\* reply, which then stays.
Told(q, c) ==
    LET catalog == NewCatalog(c.resources)
    IN  /\ WellMade(q.reply)
        /\ q.pc # "idle" => catalog.ok
        /\ q.pc = "down" /\ Head(q.todo) = "i18n" => ~Empty(catalog)
        /\ Wrapped(q) \/ q.shown # None =>
             q.pc # "idle" /\ ~Empty(catalog) /\ q.fallback = DefaultLanguage(c)
        /\ q.shown # None =>
             /\ q.pc \in {"up", "done"}
             /\ q.shown = LocalizeError(catalog, q.input.locale, q.fallback, q.reply)

ToldInv == config \in Assignments /\ \A r \in Requests : Told(request[r], config)

LEMMA ToldStep ==
    ASSUME GatewayInv, ToldInv, NEW r \in Requests, NEW to, Becomes(r, to), UNCHANGED config, Told(to, config)
    PROVE  ToldInv'
<1>1. \A q \in Requests : request'[q] = to \/ request'[q] = request[q]
  BY Written
<1> QED
  BY <1>1, Zenon DEF ToldInv

\* Localisation comes first or not at all.
LEMMA NextStage ==
    ASSUME GatewayInv, NEW r \in Requests, NEW stage, At(r, stage), stage # "handler"
    PROVE  Head(Tail(request[r].todo)) # "i18n"
<1>1. Walks(r) /\ request[r].pc = "down" /\ Head(request[r].todo) = stage
  BY AtStage DEF At
<1>2. Linked(In(r).via, request[r].todo)
  BY <1>1 DEF Walks
<1>3. <<Head(request[r].todo), Head(Tail(request[r].todo))>> \in Links(In(r).via)
  BY <1>1, <1>2, LinkedTail
<1>4. AfterI18n(In(r).via) # "i18n" /\ AfterLogging # "i18n"
  BY DEF AfterI18n, AfterLogging
<1> QED
  BY <1>3, <1>4 DEF Links

\* A stage that lets the request go on.
LEMMA ToldOn ==
    ASSUME GatewayInv, ToldInv, NEW r \in Requests, NEW stage, At(r, stage), UNCHANGED config,
           NEW to, Becomes(r, to), to.pc = "down", Head(to.todo) # "i18n",
           to.reply = request[r].reply, to.wraps = request[r].wraps,
           to.shown = request[r].shown, to.fallback = request[r].fallback
    PROVE  ToldInv'
<1>1. Told(request[r], config) /\ request[r].pc = "down"
  BY DEF ToldInv, At
<1>2. Told(to, config)
  BY <1>1 DEF Told, Wrapped
<1> QED
  BY <1>2, ToldStep

\* A stage, or the handler, that answers.
LEMMA ToldBack ==
    ASSUME GatewayInv, ToldInv, NEW r \in Requests, NEW stage, At(r, stage), UNCHANGED config,
           NEW to, Becomes(r, to), to.pc \in {"up", "done"}, WellMade(to.reply),
           to.wraps = request[r].wraps \/ to.wraps = <<>>,
           to.shown = request[r].shown, to.fallback = request[r].fallback
    PROVE  ToldInv'
<1>1. Told(request[r], config) /\ request[r].pc = "down"
  BY DEF ToldInv, At
<1>2. Told(to, config)
  BY <1>1 DEF Told, Wrapped
<1> QED
  BY <1>2, ToldStep

LEMMA ToldEither ==
    ASSUME GatewayInv, ToldInv, NEW r \in Requests, NEW stage, At(r, stage), stage # "handler", UNCHANGED config,
           Becomes(r, Onward(r)) \/ \E err : WellMade(err) /\ Becomes(r, Fails(r, err))
    PROVE  ToldInv'
<1>1. DOMAIN request[r] = Fields /\ request[r].pc = "down" /\ Head(Tail(request[r].todo)) # "i18n"
  BY AtStage, NextStage
<1>2. CASE Becomes(r, Onward(r))
  <2> DEFINE to == Onward(r)
  <2>1. Becomes(r, to) /\ to = Onward(r)
    BY <1>2
  <2> HIDE DEF to
  <2>2. /\ to.pc = "down" /\ to.todo = Tail(request[r].todo) /\ to.reply = request[r].reply
        /\ to.wraps = request[r].wraps /\ to.shown = request[r].shown /\ to.fallback = request[r].fallback
    BY <1>1, <2>1, OnwardFields
  <2>3. Head(to.todo) # "i18n"
    BY <1>1, <2>2
  <2> QED
    BY <2>1, <2>2, <2>3, ToldOn
<1>3. CASE \E err : WellMade(err) /\ Becomes(r, Fails(r, err))
  <2>1. PICK err : WellMade(err) /\ Becomes(r, Fails(r, err))
    BY <1>3
  <2> DEFINE to == Fails(r, err)
  <2>2. /\ to.pc = "up" /\ to.reply = err /\ to.wraps = request[r].wraps
        /\ to.shown = request[r].shown /\ to.fallback = request[r].fallback
    BY <1>1, FailsFields
  <2> QED
    BY <2>1, <2>2, ToldBack
<1> QED
  BY <1>2, <1>3

LEMMA ReasonedIsWellMade == \A code, reason, text : WellMade(Reasoned(code, reason, text))
<1>1. None \notin LegacyKeys
  BY MessagesAssumption
<1> QED
  BY <1>1 DEF Reasoned, WellMade, NormalizeStructuredError

LEMMA PlainIsWellMade == \A code, text : WellMade(Plain(code, text))
  BY ReasonedIsWellMade, Zenon DEF Plain

LEMMA StructuredIsWellMade ==
    ASSUME NEW reason \in DOMAIN Frozen \ {"INTERNAL_ERROR"}, NEW text
    PROVE  WellMade(Structured(reason, text)) /\ \A key : WellMade(WithMessageKey(Structured(reason, text), key))
<1>1. ASSUME NEW err, NEW key, err = [code |-> Frozen[reason], reason |-> reason, text |-> text, key |-> key]
      PROVE  WellMade(err)
  BY <1>1 DEF WellMade, NormalizeStructuredError
<1> QED
  BY <1>1 DEF Structured, WithMessageKey

LEMMA ToldArrive ==
    ASSUME GatewayInv, ToldInv, NEW r \in Requests, NEW input, Arrive(r, input) PROVE ToldInv'
<1>1. request[r] = NewRequest /\ UNCHANGED config /\ TheCatalog.ok
  BY DEF GatewayInv, Sound, Arrive, shared
<1> DEFINE to == [NewRequest EXCEPT
         !.pc = "down", !.input = input, !.message = input.message,
         !.todo = IF input.via = "docs" THEN <<"docs", "handler">> ELSE Chain(input.via),
         !.heldThen = input.token \in valid,
         !.rulesThen = RulesFor(input)]
<1>2. Becomes(r, to)
  BY DEF Arrive
<1>3. /\ to.todo = (IF input.via = "docs" THEN <<"docs", "handler">> ELSE Chain(input.via))
      /\ to.reply = request[r].reply /\ to.wraps = <<>> /\ to.shown = None
  BY <1>1 DEF NewRequest
<1> HIDE DEF to
<1>4. Head(to.todo) = "i18n" => ~Empty(TheCatalog)
  <2>1. CASE input.via = "docs"
    BY <1>3, <2>1
  <2>2. CASE input.via # "docs"
    BY <1>3, <2>2, ChainLinked
  <2> QED
    BY <2>1, <2>2
<1>5. WellMade(request[r].reply)
  BY DEF ToldInv, Told
<1>6. Told(to, config)
  BY <1>1, <1>3, <1>4, <1>5 DEF Told, Wrapped, TheCatalog
<1> QED
  BY <1>1, <1>2, <1>6, ToldStep

LEMMA ToldI18n ==
    ASSUME GatewayInv, ToldInv, NEW r \in Requests, I18n(r) PROVE ToldInv'
<1>1. At(r, "i18n") /\ DOMAIN request[r] = Fields /\ UNCHANGED config /\ request[r].pc = "down"
  BY AtStage DEF I18n, shared
<1> DEFINE to == [Onward(r) EXCEPT !.fallback = DefaultLanguage(config), !.wraps = <<"i18n">> \o @]
<1>2. /\ to.pc = "down" /\ to.todo = Tail(request[r].todo) /\ to.fallback = DefaultLanguage(config)
      /\ to.reply = request[r].reply /\ to.shown = request[r].shown
  BY <1>1, OnwardFields DEF Fields, NewRequest
<1>3. Becomes(r, to)
  BY DEF I18n
<1>4. Head(Tail(request[r].todo)) # "i18n"
  BY <1>1, NextStage
<1>5. Told(request[r], config) /\ Head(request[r].todo) = "i18n"
  BY <1>1 DEF ToldInv, At
<1> HIDE DEF to
<1>6. Told(to, config)
  BY <1>1, <1>2, <1>4, <1>5 DEF Told
<1> QED
  BY <1>1, <1>3, <1>6, ToldStep

LEMMA ToldLogging ==
    ASSUME GatewayInv, ToldInv, NEW r \in Requests, Logging(r) PROVE ToldInv'
<1>1. At(r, "logging") /\ DOMAIN request[r] = Fields /\ UNCHANGED config /\ request[r].pc = "down"
  BY AtStage DEF Logging, shared
<1>2. \E log : Becomes(r, [Onward(r) EXCEPT !.wraps = <<"logging">> \o @, !.log = log])
  BY Zenon DEF Logging
<1>3. PICK log : Becomes(r, [Onward(r) EXCEPT !.wraps = <<"logging">> \o @, !.log = log])
  BY <1>2
<1> DEFINE to == [Onward(r) EXCEPT !.wraps = <<"logging">> \o @, !.log = log]
<1>4. /\ to.pc = "down" /\ to.todo = Tail(request[r].todo) /\ to.wraps = <<"logging">> \o request[r].wraps
      /\ to.reply = request[r].reply /\ to.shown = request[r].shown /\ to.fallback = request[r].fallback
  BY <1>1, OnwardFields DEF Fields, NewRequest
<1>5. Head(Tail(request[r].todo)) # "i18n" /\ Becomes(r, to)
  BY <1>1, <1>3, NextStage
<1>6. Told(request[r], config)
  BY DEF ToldInv
<1>7. Wrapped(to) => Wrapped(request[r])
  <2>1. OutsideLog(r)
    BY <1>1, AtStage DEF ApiTraced, Walks
  <2>2. CASE request[r].wraps = <<>>
    <3>1. to.wraps = <<"logging">>
      <4>1. <<"logging">> \o <<>> = <<"logging">>
        OBVIOUS
      <4> QED
        BY <1>4, <2>2, <4>1, Zenon
    <3> QED
      BY <3>1 DEF Wrapped
  <2>3. CASE request[r].wraps = <<"i18n">>
    BY <2>3 DEF Wrapped
  <2> QED
    BY <2>1, <2>2, <2>3 DEF OutsideLog
<1> HIDE DEF to
<1>8. Told(to, config)
  BY <1>1, <1>4, <1>5, <1>6, <1>7 DEF Told
<1> QED
  BY <1>1, <1>5, <1>8, ToldStep

LEMMA ToldIdentity ==
    ASSUME GatewayInv, ToldInv, NEW r \in Requests, NEW stage, At(r, stage), stage # "handler", UNCHANGED config,
           NEW to, NEW x, to = [Onward(r) EXCEPT !.identity = x] \/ to = [Onward(r) EXCEPT !.claims = x]
                          \/ to = [Onward(r) EXCEPT !.message = x] \/ to = [Onward(r) EXCEPT !.took = x],
           Becomes(r, to)
    PROVE  ToldInv'
<1>1. DOMAIN request[r] = Fields /\ request[r].pc = "down" /\ Head(Tail(request[r].todo)) # "i18n"
  BY AtStage, NextStage
<1>2. /\ to.pc = "down" /\ to.todo = Tail(request[r].todo) /\ to.wraps = request[r].wraps
      /\ to.reply = request[r].reply /\ to.shown = request[r].shown /\ to.fallback = request[r].fallback
  BY <1>1, OnwardFields DEF Fields, NewRequest
<1> QED
  BY <1>1, <1>2, ToldOn

LEMMA ToldAuth ==
    ASSUME GatewayInv, ToldInv, NEW r \in Requests, Auth(r) PROVE ToldInv'
<1>1. At(r, "auth") /\ DOMAIN request[r] = Fields /\ UNCHANGED config /\ request[r].pc = "down"
  BY AtStage DEF Auth, shared
<1>2. \/ \E id : Becomes(r, [Onward(r) EXCEPT !.identity = id])
      \/ Becomes(r, Onward(r))
      \/ Becomes(r, [request[r] EXCEPT !.todo = <<"authn", "claims", "authorize">> \o Tail(@)])
  BY Zenon DEF Auth
<1>3. CASE Becomes(r, [request[r] EXCEPT !.todo = <<"authn", "claims", "authorize">> \o Tail(@)])
  <2> DEFINE to == [request[r] EXCEPT !.todo = <<"authn", "claims", "authorize">> \o Tail(@)]
  <2>1. /\ to.pc = "down" /\ to.todo = <<"authn", "claims", "authorize">> \o Tail(request[r].todo)
        /\ to.wraps = request[r].wraps
        /\ to.reply = request[r].reply /\ to.shown = request[r].shown /\ to.fallback = request[r].fallback
    BY <1>1 DEF Fields, NewRequest
  <2>2. Head(<<"authn", "claims", "authorize">> \o Tail(request[r].todo)) = "authn"
    <3>1. Linked(In(r).via, request[r].todo) /\ Head(request[r].todo) = "auth"
      BY <1>1, AtStage DEF Walks, At
    <3>2. Linked(In(r).via, Tail(request[r].todo)) /\ <<"auth", Head(Tail(request[r].todo))>> \in Links(In(r).via)
      BY <3>1, LinkedTail
    <3>3. Head(Tail(request[r].todo)) = "tenant"
      <4>1. AfterLogging \in {"auth", "tenant"} /\ AfterI18n(In(r).via) \in {"logging", "auth", "tenant"}
        BY DEF AfterI18n, AfterLogging
      <4> QED
        BY <3>2, <4>1 DEF Links
    <3> QED
      BY <3>2, <3>3, LinkedChecks
  <2>3. Head(to.todo) # "i18n"
    BY <2>1, <2>2
  <2> HIDE DEF to
  <2> QED
    BY <1>1, <1>3, <2>1, <2>3, ToldOn DEF to
<1> QED
  BY <1>1, <1>2, <1>3, ToldIdentity, ToldEither

LEMMA ToldChecks ==
    ASSUME GatewayInv, ToldInv, NEW r \in Requests,
           Authn(r) \/ AuthClaims(r) \/ (\E decision : Authorize(r, decision)) \/ Validate(r) \/ Docs(r)
    PROVE  ToldInv'
<1>1. CASE Authn(r)
  <2>1. At(r, "authn") /\ UNCHANGED config
    BY <1>1 DEF Authn, shared
  <2> DEFINE reason == IF In(r).scheme = None THEN "ACCESS_TOKEN_NOT_EXIST"
                       ELSE IF Claimed(r).state = "expired" THEN "ACCESS_TOKEN_EXPIRED"
                       ELSE "UNAUTHORIZED"
  <2>2. Becomes(r, IF Authenticated(r) THEN [Onward(r) EXCEPT !.identity = Claimed(r)]
                   ELSE Fails(r, Reasoned(401, reason, "sign in again")))
    BY <1>1 DEF Authn
  <2> HIDE DEF reason
  <2>3. CASE Authenticated(r)
    <3>1. Becomes(r, [Onward(r) EXCEPT !.identity = Claimed(r)])
      BY <2>2, <2>3
    <3> QED
      BY <2>1, <3>1, ToldIdentity
  <2>4. CASE ~Authenticated(r)
    <3>1. Becomes(r, Fails(r, Reasoned(401, reason, "sign in again")))
      BY <2>2, <2>4
    <3> QED
      BY <2>1, <3>1, ReasonedIsWellMade, ToldEither, ZenonT(60)
  <2> QED
    BY <2>3, <2>4
<1>2. CASE AuthClaims(r)
  <2>1. At(r, "claims") /\ UNCHANGED config
    BY <1>2 DEF AuthClaims, shared
  <2>2. \/ \E claims : Becomes(r, [Onward(r) EXCEPT !.claims = claims])
        \/ \E reason : Becomes(r, Fails(r, Reasoned(401, reason, "sign in again")))
    BY <1>2, ZenonT(60) DEF AuthClaims
  <2>3. ASSUME NEW claims, Becomes(r, [Onward(r) EXCEPT !.claims = claims]) PROVE ToldInv'
    BY <2>1, <2>3, ToldIdentity
  <2>4. ASSUME NEW reason, Becomes(r, Fails(r, Reasoned(401, reason, "sign in again"))) PROVE ToldInv'
    BY <2>1, <2>4, ReasonedIsWellMade, ToldEither, ZenonT(60)
  <2> QED
    BY <2>2, <2>3, <2>4, Zenon
<1>3. CASE \E decision : Authorize(r, decision)
  <2>1. At(r, "authorize") /\ UNCHANGED config
    BY <1>3 DEF Authorize, shared
  <2>2. PICK decision : Authorize(r, decision)
    BY <1>3
  <2>3. Becomes(r, IF decision = "allow" THEN Onward(r)
                   ELSE Fails(r, Reasoned(403, "FORBIDDEN", "not yours")))
    BY <2>2, Zenon DEF Authorize
  <2>4. CASE decision = "allow"
    <3>1. Becomes(r, Onward(r))
      BY <2>3, <2>4, Zenon
    <3> QED
      BY <2>1, <3>1, ToldEither, Zenon
  <2>5. CASE decision # "allow"
    <3>1. Becomes(r, Fails(r, Reasoned(403, "FORBIDDEN", "not yours")))
      BY <2>3, <2>5, Zenon
    <3> QED
      BY <2>1, <3>1, ReasonedIsWellMade, ToldEither, ZenonT(60)
  <2> QED
    BY <2>4, <2>5
<1>4. CASE Validate(r)
  <2>1. At(r, "validate") /\ UNCHANGED config
    BY <1>4 DEF Validate, shared
  <2>2. Becomes(r, Onward(r)) \/ \E key : Becomes(r, Fails(r, WithMessageKey(Structured("INVALID_ARGUMENT", "bad request"), key)))
    BY <1>4, Zenon DEF Validate
  <2>3. "INVALID_ARGUMENT" \in DOMAIN Frozen \ {"INTERNAL_ERROR"}
    BY DEF Frozen
  <2> QED
    BY <2>1, <2>2, <2>3, StructuredIsWellMade, ToldEither, Zenon
<1>5. CASE Docs(r)
  <2>1. At(r, "docs") /\ UNCHANGED config
    BY <1>5 DEF Docs, shared
  <2>2. Becomes(r, Onward(r)) \/ Becomes(r, Fails(r, Plain(401, None)))
    BY <1>5, Zenon DEF Docs
  <2> QED
    BY <2>1, <2>2, PlainIsWellMade, ToldEither, ZenonT(60)
<1> QED
  BY <1>1, <1>2, <1>3, <1>4, <1>5

LEMMA ToldTenant ==
    ASSUME GatewayInv, ToldInv, NEW r \in Requests, Tenant(r) PROVE ToldInv'
<1>1. At(r, "tenant") /\ UNCHANGED config
  BY DEF Tenant, shared
<1> DEFINE Reasons == {"UNAUTHENTICATED", "INVALID_ARGUMENT", "PERMISSION_DENIED"}
           id       == request[r].identity
           ordinary == id # None /\ id.code # DefaultTenantCode
           errors   == IF ordinary THEN {TenantError(f, id) : f \in Scope(request[r].message)} \ {None} ELSE {}
<1>2. errors \subseteq Reasons
  BY DEF TenantError
<1>3. \/ \E message : Becomes(r, [Onward(r) EXCEPT !.message = message])
      \/ Becomes(r, Onward(r))
      \/ Becomes(r, Fails(r, Structured("UNAUTHENTICATED", "sign in again")))
      \/ \E reason \in errors : Becomes(r, Fails(r, Structured(reason, "not yours")))
  <2>1. \E message : [Onward(r) EXCEPT !.message =
           IF ordinary THEN {IF f \in Scope(request[r].message) THEN Scoped(f, id) ELSE f : f \in @} ELSE @]
             = [Onward(r) EXCEPT !.message = message]
    OBVIOUS
  <2> QED
    BY <2>1, Zenon DEF Tenant
<1>4. \A reason \in Reasons : \A text : WellMade(Structured(reason, text))
  <2>1. Reasons \subseteq DOMAIN Frozen \ {"INTERNAL_ERROR"}
    BY DEF Frozen
  <2> QED
    BY <2>1, StructuredIsWellMade
<1> HIDE DEF errors
<1> QED
  BY <1>1, <1>2, <1>3, <1>4, ToldIdentity, ToldEither, Zenon

LEMMA ToldLimits ==
    ASSUME GatewayInv, ToldInv, NEW r \in Requests, NEW resolved, RateLimit(r, resolved) PROVE ToldInv'
<1>1. At(r, "ratelimit") /\ UNCHANGED config /\ DOMAIN request[r] = Fields
  BY AtStage DEF RateLimit
<1>2. \/ Becomes(r, Onward(r)) \/ Becomes(r, Fails(r, Unavailable))
      \/ \E policies : Becomes(r, [Onward(r) EXCEPT !.took = policies])
      \/ Becomes(r, [Fails(r, Limited) EXCEPT !.retryAfter = TRUE])
  BY Zenon DEF RateLimit, TakeRateLimits
<1>3. WellMade(Unavailable) /\ WellMade(Limited)
  BY PlainIsWellMade, ZenonT(60) DEF Unavailable, Limited
<1>4. CASE Becomes(r, [Fails(r, Limited) EXCEPT !.retryAfter = TRUE])
  <2> DEFINE to == [Fails(r, Limited) EXCEPT !.retryAfter = TRUE]
  <2>1. /\ to.pc = "up" /\ to.reply = Limited /\ to.wraps = request[r].wraps
        /\ to.shown = request[r].shown /\ to.fallback = request[r].fallback
    BY <1>1, FailsFields DEF Fields, NewRequest
  <2> HIDE DEF to
  <2> QED
    BY <1>1, <1>3, <1>4, <2>1, ToldBack DEF to
<1> QED
  BY <1>1, <1>2, <1>3, <1>4, ToldIdentity, ToldEither, Zenon

\* The handler answers with what modules make; the way up keeps it, and shows it once.
LEMMA ToldWayUp ==
    ASSUME GatewayInv, ToldInv, NEW r \in Requests,
           Handle(r) \/ HandlerPanics(r) \/ LogEnds(r) \/ I18nEnds(r) \/ Reply(r)
    PROVE  ToldInv'
<1>1. DOMAIN request[r] = Fields /\ Told(request[r], config)
  BY DEF GatewayInv, Sound, ToldInv
<1>2. request[r].pc = "up" => request[r].wraps \in {<<>>, <<"i18n">>, <<"logging">>, <<"logging", "i18n">>}
  <2> SUFFICES ASSUME request[r].pc = "up" PROVE InsideLog(r) \/ OutsideLog(r)
    BY DEF InsideLog, OutsideLog
  <2>1. ApiTraced(r) /\ Walks(r)
    BY DEF GatewayInv, Sound
  <2> QED
    BY <2>1 DEF ApiTraced, Walks
<1> USE DEF Fields, NewRequest
<1>3. CASE Handle(r)
  <2> DEFINE to == [request[r] EXCEPT !.pc = "up", !.handled = TRUE, !.reply = In(r).answer]
  <2>1. At(r, "handler") /\ Becomes(r, to) /\ UNCHANGED config
    BY <1>3 DEF Handle, shared
  <2>2. WellMade(In(r).answer)
    <3>1. In(r) \in Inputs[r]
      BY <2>1, AtStage DEF Walks, In
    <3> QED
      BY <3>1, MessagesAssumption
  <2>3. /\ to.pc = "up" /\ to.reply = In(r).answer /\ to.wraps = request[r].wraps
        /\ to.shown = request[r].shown /\ to.fallback = request[r].fallback
    BY <1>1
  <2> HIDE DEF to
  <2> QED
    BY <2>1, <2>2, <2>3, ToldBack
<1>4. CASE HandlerPanics(r)
  <2> DEFINE to == [request[r] EXCEPT !.pc = "done", !.handled = TRUE, !.panicked = TRUE,
                      !.wraps = <<>>, !.reply = Plain(500, None)]
  <2>1. At(r, "handler") /\ Becomes(r, to) /\ UNCHANGED config
    BY <1>4 DEF HandlerPanics, shared
  <2>2. WellMade(Plain(500, None))
    BY PlainIsWellMade
  <2>3. /\ to.pc = "done" /\ to.reply = Plain(500, None) /\ to.wraps = <<>>
        /\ to.shown = request[r].shown /\ to.fallback = request[r].fallback
    BY <1>1
  <2> HIDE DEF to
  <2> QED
    BY <2>1, <2>2, <2>3, ToldBack
<1>5. CASE LogEnds(r)
  <2> DEFINE to == Upward(r)
  <2>1. Becomes(r, to) /\ UNCHANGED config /\ request[r].pc = "up" /\ request[r].wraps # <<>>
    BY <1>5 DEF LogEnds, shared, Above
  <2>2. /\ to.pc = request[r].pc /\ to.wraps = Tail(request[r].wraps) /\ to.reply = request[r].reply
        /\ to.input = request[r].input /\ to.shown = request[r].shown /\ to.fallback = request[r].fallback
    BY <1>1 DEF Upward
  <2> HIDE DEF to
  <2>3. Wrapped(to) => Wrapped(request[r])
    <3>1. CASE request[r].wraps \in {<<"i18n">>, <<"logging", "i18n">>}
      BY <3>1 DEF Wrapped
    <3>2. CASE request[r].wraps = <<"logging">>
      <4>1. to.wraps = <<>>
        BY <2>2, <3>2
      <4> QED
        BY <4>1 DEF Wrapped
    <3> QED
      BY <1>2, <2>1, <3>1, <3>2
  <2>4. Told(to, config)
    BY <1>1, <2>1, <2>2, <2>3 DEF Told
  <2> QED
    BY <2>1, <2>4, ToldStep
<1>6. CASE I18nEnds(r)
  <2> DEFINE shown == IF request[r].reply = NoError THEN None ELSE Localized(r)
             to    == [Upward(r) EXCEPT !.shown = shown]
  <2>1. /\ Becomes(r, to) /\ UNCHANGED config /\ request[r].pc = "up"
        /\ request[r].wraps # <<>> /\ Head(request[r].wraps) = "i18n"
    BY <1>6 DEF I18nEnds, shared, Above
  <2>2. shown = None \/ shown = LocalizeError(TheCatalog, request[r].input.locale, request[r].fallback, request[r].reply)
    BY DEF Localized, In
  <2> HIDE DEF shown
  <2>3. /\ to.pc = request[r].pc /\ to.wraps = Tail(request[r].wraps) /\ to.reply = request[r].reply
        /\ to.input = request[r].input /\ to.shown = shown /\ to.fallback = request[r].fallback
    BY <1>1 DEF Upward
  <2> HIDE DEF to
  <2>4. Wrapped(request[r])
    BY <1>2, <2>1 DEF Wrapped
  <2>5. Told(to, config)
    BY <1>1, <2>1, <2>2, <2>3, <2>4 DEF Told, TheCatalog
  <2> QED
    BY <2>1, <2>5, ToldStep
<1>7. CASE Reply(r)
  <2> DEFINE to == [request[r] EXCEPT !.pc = "done"]
  <2>1. Becomes(r, to) /\ UNCHANGED config /\ request[r].pc = "up"
    BY <1>7 DEF Reply, shared
  <2>2. /\ to.pc = "done" /\ to.wraps = request[r].wraps /\ to.reply = request[r].reply
        /\ to.input = request[r].input /\ to.shown = request[r].shown /\ to.fallback = request[r].fallback
    BY <1>1
  <2> HIDE DEF to
  <2>3. Told(to, config)
    BY <1>1, <2>1, <2>2 DEF Told, Wrapped
  <2> QED
    BY <2>1, <2>3, ToldStep
<1> QED
  BY <1>3, <1>4, <1>5, <1>6, <1>7

LEMMA InitTold == Init => ToldInv
<1> SUFFICES ASSUME Init, NEW r \in Requests PROVE Told(request[r], config)
  BY DEF Init, ToldInv
<1>1. WellMade(NoError)
  <2>1. NoError = Plain(200, None)
    BY DEF NoError, Plain, Reasoned
  <2> QED
    BY <2>1, PlainIsWellMade
<1>2. request[r].pc = "idle" /\ request[r].reply = NoError /\ request[r].wraps = <<>> /\ request[r].shown = None
  BY DEF Init, NewRequest
<1> QED
  BY <1>1, <1>2 DEF Told, Wrapped

LEMMA StepTold == GatewayInv /\ ToldInv /\ [Next]_vars => ToldInv'
<1> SUFFICES ASSUME GatewayInv, ToldInv, [Next]_vars PROVE ToldInv'
  OBVIOUS
<1>1. ASSUME NEW r \in Requests, Step(r) PROVE ToldInv'
  <2>1. ASSUME NEW input \in Inputs[r], Arrive(r, input) PROVE ToldInv'
    BY <2>1, ToldArrive
  <2>2. ASSUME NEW resolved \in BOOLEAN, RateLimit(r, resolved) PROVE ToldInv'
    BY <2>2, ToldLimits
  <2> QED
    BY <1>1, <2>1, <2>2, ToldI18n, ToldLogging, ToldAuth, ToldChecks, ToldTenant, ToldWayUp, Zenon DEF Step
<1>2. CASE UNCHANGED <<config, request>>
  BY <1>2, Zenon DEF ToldInv
<1>3. ASSUME NEW t \in Revoked, Revoke(t) PROVE ToldInv'
  BY <1>2, <1>3 DEF Revoke
<1>4. ASSUME NEW rule \in Withdrawn, Withdraw(rule) PROVE ToldInv'
  BY <1>2, <1>4 DEF Withdraw
<1>5. ASSUME NEW key \in DOMAIN spent, Refill(key) PROVE ToldInv'
  BY <1>2, <1>5 DEF Refill
<1>6. CASE UNCHANGED vars
  BY <1>2, <1>6 DEF vars
<1> QED
  BY <1>1, <1>3, <1>4, <1>5, <1>6 DEF Next

\* The text of an internal error never reaches a client of a server that localises, and
\* that of a business error does, as it is or translated (LocalizeError).
THEOREM InternalErrorsStayInside == Spec => []ErrorsSayEnough
<1>1. ToldInv => ErrorsSayEnough
  <2> SUFFICES ASSUME ToldInv, NEW r \in Requests, request[r].shown # None,
                      NEW shown, shown = request[r].shown, NEW err, err = request[r].reply
               PROVE  /\ shown.reason = "INTERNAL_ERROR" => shown.message.in # None
                      /\ err.key \in LegacyKeys /\ err.reason # "INTERNAL_ERROR" =>
                           \/ shown.message = [in |-> None, text |-> err.text]
                           \/ shown.message \in Translations(err.text)
    BY DEF ErrorsSayEnough
  <2>1. /\ Serves(config, TheCatalog) /\ WellMade(err)
        /\ shown = LocalizeError(TheCatalog, request[r].input.locale, DefaultLanguage(config), err)
    BY DEF ToldInv, Told, Serves, TheCatalog
  <2>2. Translations(err.text) = TranslationsIn(TheCatalog, err.text)
    BY Zenon DEF Translations, TranslationsIn
  <2>3. shown.reason = "INTERNAL_ERROR" => shown.message.in # None
    BY <2>1, InternalIsHidden
  <2> QED
    BY <2>1, <2>2, <2>3, BusinessKeepsItsText
<1> QED
  BY <1>1, InitTold, StepTold, GatewayInvariant, PTL DEF Spec
=============================================================================
