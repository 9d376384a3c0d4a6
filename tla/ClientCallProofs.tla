-------------------------- MODULE ClientCallProofs --------------------------
(***************************************************************************)
(* Theorems about ClientCall, for any connections, configurations, calls   *)
(* and methods.                                                            *)
(***************************************************************************)
EXTENDS ClientCall, FiniteSetTheorems, SequenceTheorems, TLAPS

-----------------------------------------------------------------------------
(* The order of the stages of a chain, as ranks that rise along it. *)

Stages == {"metrics", "retry", "limiter", "interceptor", "invoke", "newStream", "requestid",
           "recovery", "tracing", "metadata", "static", "logging", "breaker", "auth",
           "custom", "requestidHeader"}

\* Of every chain but that of a remote unary call.
InnerRank ==
    [x \in Stages |->
        IF x = "metrics" THEN 1 ELSE IF x = "retry" THEN 2 ELSE IF x = "limiter" THEN 3
        ELSE IF x = "interceptor" THEN 4 ELSE IF x \in {"invoke", "newStream"} THEN 5
        ELSE IF x = "requestid" THEN 6 ELSE IF x = "recovery" THEN 7
        ELSE IF x = "tracing" THEN 8 ELSE IF x = "metadata" THEN 9
        ELSE IF x = "static" THEN 10 ELSE IF x = "logging" THEN 11
        ELSE IF x = "breaker" THEN 12 ELSE IF x = "auth" THEN 13
        ELSE IF x = "custom" THEN 14 ELSE 15]

\* Of a remote unary call: what is configured comes last.
OuterRank == [x \in Stages |-> IF InnerRank[x] < 6 THEN InnerRank[x] + 15 ELSE InnerRank[x]]

Outer(cfg, m) == ~IsLocal(cfg) /\ m \notin Streams
Rank(cfg, m)  == IF Outer(cfg, m) THEN OuterRank ELSE InnerRank

\* A sequence of stages whose ranks rise, from above lo to hi.
Rises(s, R, lo, hi) ==
    /\ s \in Seq(Stages)
    /\ \A i \in 1..Len(s) : lo < R[s[i]] /\ R[s[i]] <= hi
    /\ \A i, j \in 1..Len(s) : i < j => R[s[i]] < R[s[j]]

\* A stage, if it is there.
Maybe(p, x) == IF p THEN {x} ELSE {}

LEMMA Ranks ==
    /\ InnerRank \in [Stages -> Nat] /\ OuterRank \in [Stages -> Nat]
    /\ InnerRank["metrics"] = 1 /\ InnerRank["retry"] = 2 /\ InnerRank["limiter"] = 3
    /\ InnerRank["interceptor"] = 4 /\ InnerRank["invoke"] = 5 /\ InnerRank["newStream"] = 5
    /\ InnerRank["requestid"] = 6 /\ InnerRank["recovery"] = 7 /\ InnerRank["tracing"] = 8
    /\ InnerRank["metadata"] = 9 /\ InnerRank["static"] = 10 /\ InnerRank["logging"] = 11
    /\ InnerRank["breaker"] = 12 /\ InnerRank["auth"] = 13 /\ InnerRank["custom"] = 14
    /\ InnerRank["requestidHeader"] = 15
    /\ OuterRank["metrics"] = 16 /\ OuterRank["retry"] = 17 /\ OuterRank["limiter"] = 18
    /\ OuterRank["interceptor"] = 19
    /\ OuterRank["requestid"] = 6 /\ OuterRank["recovery"] = 7 /\ OuterRank["tracing"] = 8
    /\ OuterRank["metadata"] = 9 /\ OuterRank["static"] = 10 /\ OuterRank["logging"] = 11
    /\ OuterRank["breaker"] = 12 /\ OuterRank["auth"] = 13 /\ OuterRank["custom"] = 14
    /\ OuterRank["requestidHeader"] = 15
<1>1. InnerRank \in [Stages -> Nat]
  BY DEF InnerRank
<1>2. /\ InnerRank["metrics"] = 1 /\ InnerRank["retry"] = 2 /\ InnerRank["limiter"] = 3
      /\ InnerRank["interceptor"] = 4 /\ InnerRank["invoke"] = 5 /\ InnerRank["newStream"] = 5
      /\ InnerRank["requestid"] = 6 /\ InnerRank["recovery"] = 7 /\ InnerRank["tracing"] = 8
      /\ InnerRank["metadata"] = 9 /\ InnerRank["static"] = 10 /\ InnerRank["logging"] = 11
      /\ InnerRank["breaker"] = 12 /\ InnerRank["auth"] = 13 /\ InnerRank["custom"] = 14
      /\ InnerRank["requestidHeader"] = 15
  BY DEF InnerRank, Stages
<1>3. OuterRank \in [Stages -> Nat]
  BY <1>1 DEF OuterRank
<1>4. \A x \in Stages : OuterRank[x] = IF InnerRank[x] < 6 THEN InnerRank[x] + 15 ELSE InnerRank[x]
  BY DEF OuterRank
<1> QED
  BY <1>1, <1>2, <1>3, <1>4 DEF Stages

\* Two sequences that follow each other, and whose ranks do.
LEMMA RisesOn ==
    ASSUME NEW R \in [Stages -> Nat], NEW s, NEW t, NEW lo \in Nat, NEW mid \in Nat, NEW hi \in Nat,
           lo <= mid, mid <= hi, Rises(s, R, lo, mid), Rises(t, R, mid, hi)
    PROVE  /\ Rises(s \o t, R, lo, hi)
           /\ ToSet(s \o t) = ToSet(s) \cup ToSet(t)
<1>1. s \in Seq(Stages) /\ t \in Seq(Stages)
  BY DEF Rises
<1>2. /\ s \o t \in Seq(Stages) /\ Len(s \o t) = Len(s) + Len(t)
      /\ \A i \in 1..Len(s) : (s \o t)[i] = s[i] /\ s[i] \in Stages
      /\ \A i \in 1..Len(t) : (s \o t)[Len(s) + i] = t[i] /\ t[i] \in Stages
      /\ \A i \in (Len(s) + 1)..(Len(s) + Len(t)) : (s \o t)[i] = t[i - Len(s)] /\ i - Len(s) \in 1..Len(t)
  BY <1>1
<1>3. ASSUME NEW i \in 1..Len(s \o t)
      PROVE  lo < R[(s \o t)[i]] /\ R[(s \o t)[i]] <= hi
  <2>1. CASE i \in 1..Len(s)
    BY <2>1, <1>2 DEF Rises
  <2>2. CASE i \in (Len(s) + 1)..(Len(s) + Len(t))
    BY <2>2, <1>2 DEF Rises
  <2>3. i \in 1..Len(s) \/ i \in (Len(s) + 1)..(Len(s) + Len(t))
    BY <1>1, <1>2
  <2> QED
    BY <2>1, <2>2, <2>3, Zenon
<1>4. ASSUME NEW i \in 1..Len(s \o t), NEW j \in 1..Len(s \o t), i < j
      PROVE  R[(s \o t)[i]] < R[(s \o t)[j]]
  <2>1. CASE j \in 1..Len(s)
    BY <2>1, <1>1, <1>2, <1>4 DEF Rises
  <2>2. CASE i \in 1..Len(s) /\ j \in (Len(s) + 1)..(Len(s) + Len(t))
    <3>1. R[s[i]] <= mid /\ mid < R[t[j - Len(s)]]
      BY <2>2, <1>2 DEF Rises
    <3>2. R[s[i]] \in Nat /\ R[t[j - Len(s)]] \in Nat
      BY <2>2, <1>2
    <3> QED
      BY <3>1, <3>2, <2>2, <1>2
  <2>3. CASE i \in (Len(s) + 1)..(Len(s) + Len(t)) /\ j \in (Len(s) + 1)..(Len(s) + Len(t))
    <3>1. i - Len(s) < j - Len(s)
      BY <2>3, <1>1, <1>4
    <3> QED
      BY <2>3, <3>1, <1>2 DEF Rises
  <2> QED
    BY <1>1, <1>2, <1>4, <2>1, <2>2, <2>3
<1>5. ToSet(s \o t) = ToSet(s) \cup ToSet(t)
  <2>1. ASSUME NEW i \in 1..Len(s \o t)
        PROVE  (s \o t)[i] \in ToSet(s) \cup ToSet(t)
    <3>1. CASE i \in 1..Len(s)
      BY <3>1, <1>1, <1>2 DEF ToSet
    <3>2. CASE i \in (Len(s) + 1)..(Len(s) + Len(t))
      BY <3>2, <1>1, <1>2 DEF ToSet
    <3> QED
      BY <3>1, <3>2, <1>1, <1>2
  <2>2. ASSUME NEW i \in 1..Len(s)
        PROVE  s[i] \in ToSet(s \o t)
    BY <1>1, <1>2 DEF ToSet
  <2>3. ASSUME NEW i \in 1..Len(t)
        PROVE  t[i] \in ToSet(s \o t)
    <3>1. Len(s) + i \in 1..Len(s \o t)
      BY <1>1, <1>2
    <3> QED
      BY <3>1, <1>1, <1>2 DEF ToSet
  <2>4. /\ ToSet(s \o t) = {(s \o t)[i] : i \in 1..Len(s \o t)}
        /\ ToSet(s) = {s[i] : i \in 1..Len(s)} /\ ToSet(t) = {t[i] : i \in 1..Len(t)}
    <3>1. /\ DOMAIN (s \o t) = 1..Len(s \o t)
          /\ DOMAIN s = 1..Len(s) /\ DOMAIN t = 1..Len(t)
      BY <1>1, <1>2
    <3> QED
      BY <3>1, Zenon DEF ToSet
  <2>5. ToSet(s \o t) \subseteq ToSet(s) \cup ToSet(t)
    BY <2>1, <2>4
  <2>6. ToSet(s) \subseteq ToSet(s \o t) /\ ToSet(t) \subseteq ToSet(s \o t)
    BY <2>2, <2>3, <2>4
  <2> QED
    BY <2>5, <2>6
<1> QED
  BY <1>2, <1>3, <1>4, <1>5 DEF Rises

LEMMA RisesWider ==
    ASSUME NEW R \in [Stages -> Nat], NEW s, NEW lo \in Nat, NEW hi \in Nat, NEW to \in Nat,
           hi <= to, Rises(s, R, lo, hi)
    PROVE  Rises(s, R, 0, to)
<1>1. \A i \in 1..Len(s) : s[i] \in Stages
  BY DEF Rises
<1>2. ASSUME NEW i \in 1..Len(s)
      PROVE  0 < R[s[i]] /\ R[s[i]] <= to
  <2>1. R[s[i]] \in Nat /\ lo < R[s[i]] /\ R[s[i]] <= hi
    BY <1>1 DEF Rises
  <2> QED
    BY <2>1
<1> QED
  BY <1>2 DEF Rises

\* A stage alone, or none.
LEMMA RisesOne ==
    ASSUME NEW R \in [Stages -> Nat], NEW x \in Stages, NEW p \in BOOLEAN,
           NEW lo \in Nat, NEW hi \in Nat, lo < R[x], R[x] <= hi
    PROVE  /\ Rises(If(p, x), R, lo, hi)
           /\ ToSet(If(p, x)) = Maybe(p, x)
<1>1. CASE p
  <2> DEFINE s == <<x>>
  <2>1. If(p, x) = s
    BY <1>1 DEF If
  <2>2. Len(s) = 1 /\ s[1] = x /\ s \in Seq(Stages)
    OBVIOUS
  <2> HIDE DEF s
  <2>3. 1..Len(s) = {1}
    BY <2>2
  <2>4. Rises(s, R, lo, hi)
    BY <2>2, <2>3 DEF Rises
  <2>5. ToSet(s) = {x}
    BY <2>2, <2>3 DEF ToSet
  <2> QED
    BY <1>1, <2>1, <2>4, <2>5 DEF Maybe
<1>2. CASE ~p
  <2>1. If(p, x) = <<>> /\ Len(<<>>) = 0 /\ <<>> \in Seq(Stages)
    BY <1>2 DEF If
  <2> QED
    BY <1>2, <2>1 DEF Rises, ToSet, Maybe
<1> QED
  BY <1>1, <1>2

-----------------------------------------------------------------------------
(* What a chain is made of. *)

Section(cfg) == IF cfg = None THEN None ELSE cfg.mw

HasMetrics(mw) == mw # None /\ mw.metrics # None
HasRetry(mw)   == mw # None /\ mw.retry # None
HasLimiter(mw) == mw # None /\ mw.limiter # None

LEMMA Extends ==
    ASSUME NEW s \in Seq(Stages), NEW x \in Stages, NEW p \in BOOLEAN
    PROVE  /\ (IF p THEN Append(s, x) ELSE s) = s \o If(p, x)
           /\ s \o If(p, x) \in Seq(Stages)
           /\ (IF p THEN Append(<<>>, x) ELSE <<>>) = If(p, x)
           /\ If(p, x) \in Seq(Stages)
<1>1. s \o <<>> = s /\ <<>> \in Seq(Stages) /\ <<x>> \in Seq(Stages) /\ Append(<<>>, x) = <<x>>
  OBVIOUS
<1>2. Append(s, x) = s \o <<x>>
  BY AppendIsConcat
<1> QED
  BY <1>1, <1>2 DEF If

LEMMA Pair ==
    ASSUME NEW x, NEW y
    PROVE  <<x>> \o <<y>> = <<x, y>>
<1> DEFINE S == {x, y}
           s == <<x>> \o <<y>>
           t == <<x, y>>
<1>1. <<x>> \in Seq(S) /\ <<y>> \in Seq(S)
  OBVIOUS
<1>2. s \in Seq(S) /\ Len(s) = 2 /\ s[1] = x /\ s[2] = y
  BY <1>1
<1>3. t \in Seq(S) /\ Len(t) = 2 /\ t[1] = x /\ t[2] = y
  OBVIOUS
<1> HIDE DEF s, t
<1>4. \A i \in 1..2 : s[i] = t[i]
  BY <1>2, <1>3
<1>5. s = t
  BY <1>2, <1>3, <1>4, SeqEqual
<1> QED
  BY <1>5 DEF s, t

\* The configured interceptors, where no section is refused.
LEMMA ConfiguredStages ==
    ASSUME NEW mw, BuildConfigured(mw).ok
    PROVE  /\ BuildConfigured(mw).unary =
                If(HasMetrics(mw), "metrics") \o If(HasRetry(mw), "retry") \o If(HasLimiter(mw), "limiter")
           /\ BuildConfigured(mw).stream = If(HasMetrics(mw), "metrics") \o If(HasLimiter(mw), "limiter")
           /\ HasRetry(mw) => mw.retry.codes \subseteq RetryCodeNames
<1>0. /\ HasMetrics(mw) \in BOOLEAN /\ HasRetry(mw) \in BOOLEAN /\ HasLimiter(mw) \in BOOLEAN
      /\ "metrics" \in Stages /\ "retry" \in Stages /\ "limiter" \in Stages
  BY DEF HasMetrics, HasRetry, HasLimiter, Stages
<1> DEFINE empty == [ok |-> TRUE, unary |-> <<>>, stream |-> <<>>]
           a == IF mw.metrics = None THEN empty ELSE AppendMetrics(empty, mw.metrics)
           b == IF ~a.ok \/ mw.retry = None THEN a ELSE AppendRetry(a, mw.retry)
           l == IF ~b.ok \/ mw.limiter = None THEN b ELSE AppendRateLimiter(b, mw.limiter)
           M == If(HasMetrics(mw), "metrics")
           N == If(HasRetry(mw), "retry")
           L == If(HasLimiter(mw), "limiter")
<1>1. CASE mw = None
  <2>1. BuildConfigured(mw) = empty
    BY <1>1 DEF BuildConfigured
  <2>2. M = <<>> /\ N = <<>> /\ L = <<>> /\ ~HasRetry(mw)
    BY <1>1 DEF If, HasMetrics, HasRetry, HasLimiter
  <2>3. <<>> \o <<>> = <<>>
    OBVIOUS
  <2> QED
    BY <2>1, <2>2, <2>3
<1>2. CASE mw # None
  <2>1. BuildConfigured(mw) = l
    BY <1>2 DEF BuildConfigured
  <2>2. l.ok => b.ok
    BY DEF AppendRateLimiter, Failed
  <2>3. b.ok => a.ok
    BY DEF AppendRetry, Failed
  <2>4. a.ok /\ b.ok /\ l.ok
    BY <2>1, <2>2, <2>3
  <2>5. a = [ok |-> TRUE, unary |-> M, stream |-> M]
    <3>1. CASE mw.metrics = None
      BY <3>1, <1>2 DEF If, HasMetrics
    <3>2. CASE mw.metrics # None
      <4>1. a = [empty EXCEPT !.unary = Append(@, "metrics"), !.stream = Append(@, "metrics")]
        BY <3>2, <2>4 DEF AppendMetrics, Failed
      <4>2. M = <<"metrics">> /\ Append(<<>>, "metrics") = <<"metrics">>
        BY <3>2, <1>2 DEF If, HasMetrics
      <4> QED
        BY <4>1, <4>2
    <3> QED
      BY <3>1, <3>2
  <2>6. M \in Seq(Stages) /\ M \o N \in Seq(Stages)
    BY <1>0, Extends, <<>> \in Seq(Stages)
  <2> HIDE DEF a, M
  <2>7. b = [ok |-> TRUE, unary |-> M \o N, stream |-> M] /\ (HasRetry(mw) => mw.retry.codes \subseteq RetryCodeNames)
    <3>1. CASE mw.retry = None
      <4>1. M \o N = M /\ ~HasRetry(mw)
        BY <3>1, <2>6 DEF If, HasRetry
      <4> QED
        BY <3>1, <4>1, <2>5
    <3>2. CASE mw.retry # None
      <4>1. b = [a EXCEPT !.unary = Append(@, "retry")] /\ mw.retry.codes \subseteq RetryCodeNames
        BY <3>2, <2>4 DEF AppendRetry, Failed, ParseRetryCodes
      <4>2. Append(M, "retry") = M \o N
        BY <3>2, <1>2, <1>0, <2>6, Extends DEF HasRetry
      <4> QED
        BY <4>1, <4>2, <2>5
    <3> QED
      BY <3>1, <3>2
  <2> HIDE DEF b, N
  <2>8. l = [ok |-> TRUE, unary |-> M \o N \o L, stream |-> M \o L]
    <3>1. CASE mw.limiter = None
      <4>1. M \o N \o L = M \o N /\ M \o L = M
        BY <3>1, <2>6 DEF If, HasLimiter
      <4> QED
        BY <3>1, <4>1, <2>7
    <3>2. CASE mw.limiter # None
      <4>1. l = [b EXCEPT !.unary = Append(@, "limiter"), !.stream = Append(@, "limiter")]
        BY <3>2, <2>4 DEF AppendRateLimiter, Failed
      <4>2. Append(M \o N, "limiter") = M \o N \o L
        BY <3>2, <1>2, <1>0, <2>6, Extends DEF HasLimiter
      <4>3. Append(M, "limiter") = M \o L
        BY <3>2, <1>2, <1>0, <2>6, Extends DEF HasLimiter
      <4> QED
        BY <4>1, <4>2, <4>3, <2>7
    <3> QED
      BY <3>1, <3>2
  <2> QED
    <3> HIDE DEF l, L
    <3>1. BuildConfigured(mw).unary = M \o N \o L /\ BuildConfigured(mw).stream = M \o L
      BY <2>1, <2>8
    <3> QED
      BY <3>1, <2>7 DEF M, N, L
<1> QED
  BY <1>1, <1>2

LEMMA ConfiguredRises ==
    ASSUME NEW mw, BuildConfigured(mw).ok, NEW R \in [Stages -> Nat], NEW lo \in Nat,
           R["metrics"] = lo + 1, R["retry"] = lo + 2, R["limiter"] = lo + 3
    PROVE  /\ Rises(BuildConfigured(mw).unary, R, lo, lo + 3)
           /\ Rises(BuildConfigured(mw).stream, R, lo, lo + 3)
           /\ ToSet(BuildConfigured(mw).unary) =
                Maybe(HasMetrics(mw), "metrics") \cup Maybe(HasRetry(mw), "retry")
                \cup Maybe(HasLimiter(mw), "limiter")
           /\ ToSet(BuildConfigured(mw).stream) =
                Maybe(HasMetrics(mw), "metrics") \cup Maybe(HasLimiter(mw), "limiter")
<1> DEFINE M == If(HasMetrics(mw), "metrics")
           N == If(HasRetry(mw), "retry")
           L == If(HasLimiter(mw), "limiter")
<1>1. /\ HasMetrics(mw) \in BOOLEAN /\ HasRetry(mw) \in BOOLEAN /\ HasLimiter(mw) \in BOOLEAN
      /\ "metrics" \in Stages /\ "retry" \in Stages /\ "limiter" \in Stages
  BY DEF HasMetrics, HasRetry, HasLimiter, Stages
<1>2. /\ lo + 1 \in Nat /\ lo + 2 \in Nat /\ lo + 3 \in Nat
      /\ lo < lo + 1 /\ lo + 1 < lo + 2 /\ lo + 2 < lo + 3
      /\ lo <= lo + 1 /\ lo + 1 <= lo + 2 /\ lo + 2 <= lo + 3 /\ lo <= lo + 2 /\ lo + 1 <= lo + 3
      /\ lo + 1 <= lo + 1 /\ lo + 2 <= lo + 2 /\ lo + 3 <= lo + 3 /\ lo + 1 < lo + 3
  OBVIOUS
<1>3. Rises(M, R, lo, lo + 1) /\ ToSet(M) = Maybe(HasMetrics(mw), "metrics")
  BY <1>1, <1>2, RisesOne
<1>4. Rises(N, R, lo + 1, lo + 2) /\ ToSet(N) = Maybe(HasRetry(mw), "retry")
  BY <1>1, <1>2, RisesOne
<1>5. /\ Rises(L, R, lo + 2, lo + 3) /\ Rises(L, R, lo + 1, lo + 3)
      /\ ToSet(L) = Maybe(HasLimiter(mw), "limiter")
  BY <1>1, <1>2, RisesOne
<1> HIDE DEF M, N, L
<1>6. Rises(M \o N, R, lo, lo + 2) /\ ToSet(M \o N) = ToSet(M) \cup ToSet(N)
  BY <1>2, <1>3, <1>4, RisesOn
<1>7. Rises(M \o N \o L, R, lo, lo + 3) /\ ToSet(M \o N \o L) = ToSet(M \o N) \cup ToSet(L)
  BY <1>2, <1>5, <1>6, RisesOn
<1>8. Rises(M \o L, R, lo, lo + 3) /\ ToSet(M \o L) = ToSet(M) \cup ToSet(L)
  BY <1>2, <1>3, <1>5, RisesOn
<1>9. BuildConfigured(mw).unary = M \o N \o L /\ BuildConfigured(mw).stream = M \o L
  BY ConfiguredStages DEF M, N, L
<1> QED
  BY <1>3, <1>4, <1>5, <1>6, <1>7, <1>8, <1>9

\* The Kratos middlewares.
Within == {"requestid", "recovery", "tracing", "metadata", "static", "logging", "breaker", "auth", "custom"}

LEMMA MiddlewaresRise ==
    ASSUME NEW cfg, NEW R \in [Stages -> Nat],
           R["requestid"] = 6, R["recovery"] = 7, R["tracing"] = 8, R["metadata"] = 9,
           R["static"] = 10, R["logging"] = 11, R["breaker"] = 12, R["auth"] = 13, R["custom"] = 14
    PROVE  /\ Rises(Middlewares(cfg), R, 5, 14)
           /\ ToSet(Middlewares(cfg)) \subseteq Within
           /\ "breaker" \in ToSet(Middlewares(cfg)) => Section(cfg) # None /\ Section(cfg).breaker
<1>1. Within \subseteq Stages
  BY DEF Within, Stages
<1>2. ASSUME NEW x \in Stages, NEW lo \in Nat, NEW hi \in Nat, lo < R[x], R[x] <= hi
      PROVE  Rises(<<x>>, R, lo, hi) /\ ToSet(<<x>>) = {x}
  BY <1>2, RisesOne, TRUE \in BOOLEAN DEF If, Maybe
<1>3. Rises(<<"custom">>, R, 13, 14) /\ ToSet(<<"custom">>) = {"custom"}
  BY <1>1, <1>2 DEF Within
<1>4. Rises(<<"custom">>, R, 5, 14)
  BY <1>1, <1>2 DEF Within
<1>8. ASSUME NEW p, NEW x \in Stages, NEW lo \in Nat, NEW hi \in Nat, lo < R[x], R[x] <= hi
      PROVE  /\ Rises(If(p, x), R, lo, hi)
             /\ ToSet(If(p, x)) \subseteq {x} /\ (x \in ToSet(If(p, x)) => p)
  <2>1. CASE p
    <3>1. If(p, x) = If(TRUE, x)
      BY <2>1 DEF If
    <3> QED
      BY <1>8, <2>1, <3>1, RisesOne, TRUE \in BOOLEAN DEF Maybe
  <2>2. CASE ~p
    <3>1. If(p, x) = If(FALSE, x)
      BY <2>2 DEF If
    <3> QED
      BY <1>8, <2>2, <3>1, RisesOne, FALSE \in BOOLEAN DEF Maybe
  <2> QED
    BY <2>1, <2>2
<1>5. CASE cfg = None
  BY <1>3, <1>4, <1>5 DEF Middlewares, Within
<1>6. CASE cfg # None /\ cfg.mw = None
  <2> DEFINE s == If(cfg.static, "static")
  <2>1. Middlewares(cfg) = s \o <<"custom">>
    BY <1>6 DEF Middlewares, ClientMiddlewares
  <2>2. Rises(s, R, 5, 13) /\ ToSet(s) \subseteq {"static"}
    BY <1>1, <1>8 DEF Within
  <2> HIDE DEF s
  <2>3. Rises(s \o <<"custom">>, R, 5, 14) /\ ToSet(s \o <<"custom">>) = ToSet(s) \cup {"custom"}
    BY <2>2, <1>3, RisesOn
  <2>4. ToSet(Middlewares(cfg)) \subseteq {"static", "custom"}
    BY <2>1, <2>2, <2>3
  <2>5. "breaker" \notin ToSet(Middlewares(cfg)) /\ ToSet(Middlewares(cfg)) \subseteq Within
    BY <2>4 DEF Within
  <2> QED
    BY <2>1, <2>3, <2>5
<1>7. CASE cfg # None /\ cfg.mw # None
  <2> DEFINE mw == cfg.mw
             a == If(mw.recovery, "recovery")
             b == If(mw.tracing, "tracing")
             c == If(mw.metadata, "metadata")
             d == If(cfg.static, "static")
             e == If(mw.logging, "logging")
             f == If(mw.breaker, "breaker")
             g == If(mw.auth = "ok", "auth")
             r == <<"requestid">>
  <2>1. Middlewares(cfg) = (r \o a \o b \o c \o d \o e \o f \o g) \o <<"custom">>
    BY <1>7 DEF Middlewares, ClientMiddlewares
  <2>3. Rises(r, R, 5, 6) /\ ToSet(r) \subseteq {"requestid"}
    BY <1>1, <1>2 DEF Within
  <2>4. Rises(a, R, 6, 7) /\ ToSet(a) \subseteq {"recovery"}
    BY <1>1, <1>8 DEF Within
  <2>5. Rises(b, R, 7, 8) /\ ToSet(b) \subseteq {"tracing"}
    BY <1>1, <1>8 DEF Within
  <2>6. Rises(c, R, 8, 9) /\ ToSet(c) \subseteq {"metadata"}
    BY <1>1, <1>8 DEF Within
  <2>7. Rises(d, R, 9, 10) /\ ToSet(d) \subseteq {"static"}
    BY <1>1, <1>8 DEF Within
  <2>8. Rises(e, R, 10, 11) /\ ToSet(e) \subseteq {"logging"}
    BY <1>1, <1>8 DEF Within
  <2>9. Rises(f, R, 11, 12) /\ ToSet(f) \subseteq {"breaker"} /\ ("breaker" \in ToSet(f) => mw.breaker)
    BY <1>1, <1>8 DEF Within
  <2>10. Rises(g, R, 12, 13) /\ ToSet(g) \subseteq {"auth"}
    BY <1>1, <1>8 DEF Within
  <2> HIDE DEF a, b, c, d, e, f, g, r
  <2>11. Rises(r \o a, R, 5, 7) /\ ToSet(r \o a) = ToSet(r) \cup ToSet(a)
    BY <2>3, <2>4, RisesOn
  <2>12. Rises(r \o a \o b, R, 5, 8) /\ ToSet(r \o a \o b) = ToSet(r \o a) \cup ToSet(b)
    BY <2>11, <2>5, RisesOn
  <2>13. Rises(r \o a \o b \o c, R, 5, 9) /\ ToSet(r \o a \o b \o c) = ToSet(r \o a \o b) \cup ToSet(c)
    BY <2>12, <2>6, RisesOn
  <2>14. Rises(r \o a \o b \o c \o d, R, 5, 10)
         /\ ToSet(r \o a \o b \o c \o d) = ToSet(r \o a \o b \o c) \cup ToSet(d)
    BY <2>13, <2>7, RisesOn
  <2>15. Rises(r \o a \o b \o c \o d \o e, R, 5, 11)
         /\ ToSet(r \o a \o b \o c \o d \o e) = ToSet(r \o a \o b \o c \o d) \cup ToSet(e)
    BY <2>14, <2>8, RisesOn
  <2>16. Rises(r \o a \o b \o c \o d \o e \o f, R, 5, 12)
         /\ ToSet(r \o a \o b \o c \o d \o e \o f) = ToSet(r \o a \o b \o c \o d \o e) \cup ToSet(f)
    BY <2>15, <2>9, RisesOn
  <2>17. Rises(r \o a \o b \o c \o d \o e \o f \o g, R, 5, 13)
         /\ ToSet(r \o a \o b \o c \o d \o e \o f \o g) = ToSet(r \o a \o b \o c \o d \o e \o f) \cup ToSet(g)
    BY <2>16, <2>10, RisesOn
  <2>18. Rises((r \o a \o b \o c \o d \o e \o f \o g) \o <<"custom">>, R, 5, 14)
         /\ ToSet((r \o a \o b \o c \o d \o e \o f \o g) \o <<"custom">>) =
                ToSet(r \o a \o b \o c \o d \o e \o f \o g) \cup {"custom"}
    BY <2>17, <1>3, RisesOn
  <2>19. ToSet((r \o a \o b \o c \o d \o e \o f \o g) \o <<"custom">>) =
           ToSet(r) \cup ToSet(a) \cup ToSet(b) \cup ToSet(c) \cup ToSet(d) \cup ToSet(e)
           \cup ToSet(f) \cup ToSet(g) \cup {"custom"}
    BY <2>11, <2>12, <2>13, <2>14, <2>15, <2>16, <2>17, <2>18
  <2> DEFINE T == ToSet(Middlewares(cfg))
  <2>20. T = ToSet(r) \cup ToSet(a) \cup ToSet(b) \cup ToSet(c) \cup ToSet(d) \cup ToSet(e)
             \cup ToSet(f) \cup ToSet(g) \cup {"custom"}
    BY <2>1, <2>19
  <2>21. T \subseteq Within
    BY <2>20, <2>3, <2>4, <2>5, <2>6, <2>7, <2>8, <2>9, <2>10 DEF Within
  <2>22. "breaker" \in T => mw.breaker
    BY <2>20, <2>3, <2>4, <2>5, <2>6, <2>7, <2>8, <2>9, <2>10
  <2> QED
    BY <2>1, <2>18, <2>21, <2>22, <1>7 DEF Section
<1> QED
  BY <1>5, <1>6, <1>7

\* The chain of a connection that could be built: its order, and what it contains.
MadeOf(cfg, m, T) ==
    LET mw == Section(cfg)
    IN  /\ T \subseteq Stages
        /\ "metrics" \in T <=> HasMetrics(mw)
        /\ "retry" \in T <=> HasRetry(mw) /\ m \notin Streams
        /\ "limiter" \in T <=> HasLimiter(mw)
        /\ "requestidHeader" \in T <=> ~IsLocal(cfg)
        /\ "invoke" \in T <=> IsLocal(cfg) /\ m \notin Streams
        /\ "newStream" \in T => IsLocal(cfg)
        /\ "breaker" \in T => mw # None /\ mw.breaker

LEMMA ChainStages ==
    ASSUME NEW cfg, NEW m, ~BuildFails(cfg)
    PROVE  /\ Rises(Chain(cfg, m), Rank(cfg, m), 0, 19)
           /\ MadeOf(cfg, m, ToSet(Chain(cfg, m)))
           /\ HasRetry(Section(cfg)) => Section(cfg).retry.codes \subseteq RetryCodeNames
<1> DEFINE mw == Section(cfg)
           R  == Rank(cfg, m)
           U  == BuildConfigured(mw).unary
           V  == BuildConfigured(mw).stream
           W  == Middlewares(cfg)
           I  == <<"interceptor">>
           H  == <<"requestidHeader">>
<1>1. Configured(cfg) = BuildConfigured(mw) /\ BuildConfigured(mw).ok
  <2>1. BuildConfigured(None).ok
    BY DEF BuildConfigured
  <2> QED
    BY <2>1 DEF Configured, Section, BuildFails
<1>2. HasRetry(mw) => mw.retry.codes \subseteq RetryCodeNames
  BY <1>1, ConfiguredStages
<1>3. R \in [Stages -> Nat]
  BY Ranks DEF Rank
<1>4. Rises(W, R, 5, 14) /\ ToSet(W) \subseteq Within /\ ("breaker" \in ToSet(W) => mw # None /\ mw.breaker)
  <2>1. /\ R["requestid"] = 6 /\ R["recovery"] = 7 /\ R["tracing"] = 8 /\ R["metadata"] = 9
        /\ R["static"] = 10 /\ R["logging"] = 11 /\ R["breaker"] = 12 /\ R["auth"] = 13 /\ R["custom"] = 14
    BY Ranks DEF Rank
  <2> QED
    BY <1>3, <2>1, MiddlewaresRise
<1>5. ASSUME NEW x \in Stages, NEW lo \in Nat, NEW hi \in Nat, lo < R[x], R[x] <= hi
      PROVE  Rises(<<x>>, R, lo, hi) /\ ToSet(<<x>>) = {x}
  BY <1>3, <1>5, RisesOne, TRUE \in BOOLEAN DEF If, Maybe
<1>6. Rises(H, R, 14, 15) /\ ToSet(H) = {"requestidHeader"}
  <2>1. R["requestidHeader"] = 15 /\ "requestidHeader" \in Stages
    BY Ranks DEF Rank, Stages
  <2> QED
    BY <1>5, <2>1
<1>7. /\ ToSet(U) = Maybe(HasMetrics(mw), "metrics") \cup Maybe(HasRetry(mw), "retry")
                    \cup Maybe(HasLimiter(mw), "limiter")
      /\ ToSet(V) = Maybe(HasMetrics(mw), "metrics") \cup Maybe(HasLimiter(mw), "limiter")
  BY <1>1, Ranks, ConfiguredRises, 0 \in Nat, 0 + 1 = 1, 0 + 2 = 2, 0 + 3 = 3
<1>8. CASE ~Outer(cfg, m)
  <2>1. R = InnerRank
    BY <1>8 DEF Rank
  <2>2. Rises(U, R, 0, 3) /\ Rises(V, R, 0, 3)
    BY <1>1, <2>1, Ranks, ConfiguredRises, 0 \in Nat, 0 + 1 = 1, 0 + 2 = 2, 0 + 3 = 3
  <2>3. Rises(I, R, 3, 4) /\ Rises(I, R, 3, 5) /\ ToSet(I) = {"interceptor"}
    <3>1. R["interceptor"] = 4 /\ "interceptor" \in Stages
      BY <2>1, Ranks DEF Stages
    <3> QED
      BY <1>5, <3>1
  <2>4. Rises(V \o I, R, 0, 5) /\ ToSet(V \o I) = ToSet(V) \cup {"interceptor"}
    BY <1>3, <2>2, <2>3, RisesOn
  <2>5. ASSUME IsLocal(cfg), NEW x \in {"invoke", "newStream"}
        PROVE  Rises(<<"interceptor", x>>, R, 3, 5) /\ ToSet(<<"interceptor", x>>) = {"interceptor", x}
    <3>1. R[x] = 5 /\ x \in Stages
      BY <2>1, <2>5, Ranks DEF Stages
    <3>2. Rises(<<x>>, R, 4, 5) /\ ToSet(<<x>>) = {x}
      BY <1>5, <3>1
    <3>3. I \o <<x>> = <<"interceptor", x>>
      BY Pair
    <3> HIDE DEF I
    <3>4. Rises(I \o <<x>>, R, 3, 5) /\ ToSet(I \o <<x>>) = {"interceptor"} \cup {x}
      BY <1>3, <2>3, <3>2, RisesOn
    <3> QED
      BY <3>3, <3>4
  <2> HIDE DEF R, U, V, W, I, H, mw
  <2>6. CASE IsLocal(cfg) /\ m \in Streams
    <3> DEFINE J == <<"interceptor", "newStream">>
    <3>1. Chain(cfg, m) = V \o J
      BY <2>6, <1>1 DEF Chain, LocalStreamChain, V
    <3>2. Rises(J, R, 3, 5) /\ ToSet(J) = {"interceptor", "newStream"}
      BY <2>5, <2>6
    <3> HIDE DEF J
    <3>3. Rises(V \o J, R, 0, 5) /\ ToSet(V \o J) = ToSet(V) \cup ToSet(J)
      BY <1>3, <2>2, <3>2, RisesOn
    <3>4. Rises(V \o J, R, 0, 19)
      BY <1>3, <3>3, RisesWider
    <3>5. MadeOf(cfg, m, ToSet(V \o J))
      BY <3>2, <3>3, <1>7, <2>6 DEF MadeOf, Maybe, Stages, mw
    <3> QED
      BY <3>1, <3>4, <3>5, <1>2 DEF R, mw
  <2>7. CASE IsLocal(cfg) /\ m \notin Streams
    <3> DEFINE J == <<"interceptor", "invoke">>
    <3>1. Chain(cfg, m) = U \o J \o W
      BY <2>7, <1>1 DEF Chain, LocalUnaryChain, U, W
    <3>2. Rises(J, R, 3, 5) /\ ToSet(J) = {"interceptor", "invoke"}
      BY <2>5, <2>7
    <3> HIDE DEF J
    <3>3. Rises(U \o J, R, 0, 5) /\ ToSet(U \o J) = ToSet(U) \cup ToSet(J)
      BY <1>3, <2>2, <3>2, RisesOn
    <3>4. Rises(U \o J \o W, R, 0, 14) /\ ToSet(U \o J \o W) = ToSet(U \o J) \cup ToSet(W)
      BY <1>3, <1>4, <3>3, RisesOn
    <3>5. Rises(U \o J \o W, R, 0, 19)
      BY <1>3, <3>4, RisesWider
    <3>6. MadeOf(cfg, m, ToSet(U \o J \o W))
      BY <3>2, <3>3, <3>4, <1>4, <1>7, <2>7 DEF MadeOf, Maybe, Stages, Within, mw
    <3> QED
      BY <3>1, <3>5, <3>6, <1>2 DEF R, mw
  <2>8. CASE ~IsLocal(cfg) /\ m \in Streams
    <3>1. Chain(cfg, m) = V \o I \o W \o H
      BY <2>8, <1>1 DEF Chain, RemoteStreamChain, V, W, I, H
    <3>2. Rises(V \o I \o W, R, 0, 14) /\ ToSet(V \o I \o W) = ToSet(V \o I) \cup ToSet(W)
      BY <1>3, <1>4, <2>4, RisesOn
    <3>3. Rises(V \o I \o W \o H, R, 0, 15) /\ ToSet(V \o I \o W \o H) = ToSet(V \o I \o W) \cup {"requestidHeader"}
      BY <1>3, <1>6, <3>2, RisesOn
    <3>4. Rises(V \o I \o W \o H, R, 0, 19)
      BY <1>3, <3>3, RisesWider
    <3>5. MadeOf(cfg, m, ToSet(V \o I \o W \o H))
      BY <3>2, <3>3, <2>4, <1>4, <1>7, <2>8 DEF MadeOf, Maybe, Stages, Within, mw
    <3> QED
      BY <3>1, <3>4, <3>5, <1>2 DEF R, mw
  <2> QED
    BY <2>6, <2>7, <2>8, <1>8 DEF Outer
<1>9. CASE Outer(cfg, m)
  <2>1. R = OuterRank
    BY <1>9 DEF Rank
  <2>2. Rises(U, R, 15, 18)
    BY <1>1, <2>1, Ranks, ConfiguredRises, 15 \in Nat, 15 + 1 = 16, 15 + 2 = 17, 15 + 3 = 18
  <2>3. Rises(I, R, 18, 19) /\ ToSet(I) = {"interceptor"}
    <3>1. R["interceptor"] = 19 /\ "interceptor" \in Stages
      BY <2>1, Ranks DEF Stages
    <3> QED
      BY <1>5, <3>1
  <2> HIDE DEF R, U, V, W, I, H, mw
  <2>4. Chain(cfg, m) = W \o H \o U \o I
    BY <1>9, <1>1 DEF Chain, RemoteUnaryChain, Outer, U, W, I, H
  <2>5. Rises(W \o H, R, 5, 15) /\ ToSet(W \o H) = ToSet(W) \cup {"requestidHeader"}
    BY <1>3, <1>4, <1>6, RisesOn
  <2>6. Rises(W \o H \o U, R, 5, 18) /\ ToSet(W \o H \o U) = ToSet(W \o H) \cup ToSet(U)
    BY <1>3, <2>2, <2>5, RisesOn
  <2>7. Rises(W \o H \o U \o I, R, 5, 19) /\ ToSet(W \o H \o U \o I) = ToSet(W \o H \o U) \cup {"interceptor"}
    BY <1>3, <2>3, <2>6, RisesOn
  <2>8. Rises(W \o H \o U \o I, R, 0, 19)
    BY <1>3, <2>7, RisesWider
  <2>9. MadeOf(cfg, m, ToSet(W \o H \o U \o I))
    BY <2>5, <2>6, <2>7, <1>4, <1>7, <1>9 DEF MadeOf, Maybe, Stages, Within, mw, Outer
  <2> QED
    BY <2>4, <2>8, <2>9, <1>2 DEF R, mw
<1> QED
  BY <1>8, <1>9

-----------------------------------------------------------------------------
(* The place of a call in its chain. *)

\* The first n stages of a chain.
Prefix(s, n) == {s[i] : i \in 1..n}

LEMMA PrefixOrder ==
    ASSUME NEW R \in [Stages -> Nat], NEW s, Rises(s, R, 0, 19), NEW n \in 1..Len(s)
    PROVE  /\ s[n] \in Stages /\ s[n] \in ToSet(s)
           /\ Prefix(s, n) = Prefix(s, n - 1) \cup {s[n]}
           /\ Prefix(s, n - 1) \subseteq ToSet(s)
           /\ \A y \in Prefix(s, n - 1) : R[y] < R[s[n]]
           /\ \A y \in ToSet(s) : R[y] < R[s[n]] => y \in Prefix(s, n - 1)
<1>1. /\ s \in Seq(Stages) /\ Len(s) \in Nat /\ DOMAIN s = 1..Len(s)
      /\ \A i \in 1..Len(s) : s[i] \in Stages /\ R[s[i]] \in Nat
      /\ \A i, j \in 1..Len(s) : i < j => R[s[i]] < R[s[j]]
  BY DEF Rises
<1>2. ToSet(s) = {s[i] : i \in 1..Len(s)}
  BY <1>1 DEF ToSet
<1>3. 1..n = (1..(n - 1)) \cup {n} /\ 1..(n - 1) \subseteq 1..Len(s)
  BY <1>1
<1>4. Prefix(s, n) = Prefix(s, n - 1) \cup {s[n]}
  BY <1>3 DEF Prefix
<1>5. Prefix(s, n - 1) \subseteq ToSet(s)
  BY <1>2, <1>3 DEF Prefix
<1>6. ASSUME NEW i \in 1..(n - 1)
      PROVE  R[s[i]] < R[s[n]]
  BY <1>1, <1>3
<1>7. ASSUME NEW i \in 1..Len(s), R[s[i]] < R[s[n]]
      PROVE  s[i] \in Prefix(s, n - 1)
  <2>1. ~(n < i) /\ i # n
    BY <1>1, <1>7
  <2>2. i \in 1..(n - 1)
    BY <2>1, <1>1
  <2> QED
    BY <2>2 DEF Prefix
<1>8. s[n] \in ToSet(s)
  BY <1>2
<1>9. \A y \in Prefix(s, n - 1) : R[y] < R[s[n]]
  BY <1>6 DEF Prefix
<1>10. \A y \in ToSet(s) : R[y] < R[s[n]] => y \in Prefix(s, n - 1)
  BY <1>2, <1>7
<1> QED
  BY <1>1, <1>4, <1>5, <1>8, <1>9, <1>10

LEMMA PrefixEnds ==
    ASSUME NEW s \in Seq(Stages)
    PROVE  Prefix(s, 0) = {} /\ Prefix(s, Len(s)) = ToSet(s) /\ \A n \in Nat : n <= Len(s) => Prefix(s, n) \subseteq ToSet(s)
<1>1. ToSet(s) = {s[i] : i \in 1..Len(s)}
  BY DEF ToSet
<1>2. 1..0 = {}
  OBVIOUS
<1> QED
  BY <1>1, <1>2 DEF Prefix

\* What precedes what.
LEMMA Orders ==
    ASSUME NEW cfg, NEW m
    PROVE  LET R == Rank(cfg, m)
           IN  /\ R \in [Stages -> Nat]
               /\ R["metrics"] < R["retry"] /\ R["retry"] < R["limiter"] /\ R["metrics"] < R["limiter"]
               /\ R["requestid"] < R["requestidHeader"]
               /\ IF Outer(cfg, m)
                  THEN /\ R["requestidHeader"] < R["metrics"] /\ R["requestidHeader"] < R["retry"]
                       /\ R["requestidHeader"] < R["limiter"] /\ R["breaker"] < R["metrics"]
                       /\ R["breaker"] < R["requestidHeader"] /\ R["breaker"] < R["retry"]
                  ELSE /\ R["metrics"] < R["invoke"] /\ R["retry"] < R["invoke"] /\ R["limiter"] < R["invoke"]
                       /\ R["invoke"] < R["recovery"] /\ R["metrics"] < R["recovery"]
                       /\ R["metrics"] < R["breaker"] /\ R["retry"] < R["breaker"]
                       /\ R["metrics"] < R["newStream"] /\ R["retry"] < R["newStream"]
                       /\ R["metrics"] < R["requestidHeader"]
<1>1. CASE Outer(cfg, m)
  BY <1>1, Ranks DEF Rank
<1>2. CASE ~Outer(cfg, m)
  BY <1>2, Ranks DEF Rank
<1> QED
  BY <1>1, <1>2

-----------------------------------------------------------------------------
(* The inductive invariant. *)

CallStates == [pc : {"idle", "down", "up", "open", "ended", "done"}, conn : Conns \cup {None},
               method : Methods \cup {None}, given : {"none", "context", "header"},
               patient : BOOLEAN, at : Nat, ids : Seq(Nat), made : Nat, tries : Nat, code : Codes]

Attempts == [id : Nat, code : Codes]

Typed ==
    /\ config \in Assignments
    /\ conn \in [Conns -> {"none", "ready", "failed", "closed"}]
    /\ tokens \in [Conns -> Nat] /\ refills \in 0..MaxRefills
    /\ gauge \in [Methods -> 0..1]
    /\ call \in [Calls -> CallStates]
    /\ sent \in [Calls -> Seq(Attempts)]
    /\ paid \in [Calls -> Nat]
    /\ counted \in [Calls -> Seq(Codes)]

\* A connection there is was built.
Usable(k) == conn[k] \in {"ready", "closed"}
ConnsBuilt == \A k \in Conns : Usable(k) => ~BuildFails(config[k])

Walking(c) == call[c].pc \in {"down", "up"}

\* Where a call is: between the ends of its chain, with an id for each depth.
Placed(c) ==
    LET q == call[c]
    IN  /\ q.pc = "idle" => sent[c] = <<>> /\ counted[c] = <<>> /\ paid[c] = 0
        /\ q.pc # "idle" => /\ q.conn \in Conns /\ q.method \in Methods
                            /\ conn[q.conn] # "none"
        /\ q.pc \notin {"idle", "done"} => Usable(q.conn)
        /\ Walking(c) => /\ Len(q.ids) = q.at /\ ~BuildFails(Cfg(c))
                         /\ q.at \in IF q.pc = "down" THEN 1..(Len(Path(c)) + 1) ELSE 0..Len(Path(c))

\* The stages a call has entered and not left.
Passed(c) == Prefix(Path(c), IF call[c].pc = "down" THEN call[c].at - 1 ELSE call[c].at)

\* The answers so far were worth a retry; the code on its way up is the last answer.
Worth(c, n) == \A i \in 1..n : Seen(c, sent[c][i].code) \in RetryCodes(MW(c).retry)
Answered(c) == sent[c] # <<>> /\ Seen(c, call[c].code) = Seen(c, sent[c][Len(sent[c])].code)

Justified(c) ==
    Len(sent[c]) > 1 =>
        /\ MW(c) # None /\ MW(c).retry # None /\ Retries(c) /\ ~Stream(c)
        /\ Len(sent[c]) <= MaxAttempts(MW(c).retry)
        /\ Worth(c, Len(sent[c]) - 1)

\* Outside the retrier nothing has been sent on the way down; inside it, less than
\* was tried.
Repeats(c) ==
    LET q == call[c]
        n == Len(sent[c])
    IN  /\ q.pc = "down" /\ "retry" \notin Passed(c) => sent[c] = <<>>
        /\ Walking(c) /\ "retry" \in Passed(c) =>
             /\ q.tries \in 1..MaxAttempts(MW(c).retry)
             /\ q.tries > 1 => Retries(c)
             /\ q.pc = "down" => n < q.tries /\ Worth(c, n)
             /\ q.pc = "up" => n <= q.tries /\ (Worth(c, n) \/ (Answered(c) /\ Worth(c, n - 1)))

\* A panic goes no further up than the first stage that recovers it.
Clean(c) ==
    call[c].pc = "up" /\ call[c].code = "panic" =>
        "invoke" \in Passed(c) /\ ("recovery" \in ToSet(Path(c)) => "recovery" \in Passed(c))

Succeeded(c) == sent[c] # <<>> /\ sent[c][Len(sent[c])].code = "OK"

Truthful(c) ==
    /\ call[c].pc = "down" => ~Succeeded(c)
    /\ call[c].pc \in {"up", "done"} /\ ~Stream(c) => (call[c].code = "OK" <=> Succeeded(c))

\* A call is counted where it leaves the metrics, or where its stream ends.
Counts(c) ==
    LET q == call[c]
    IN  /\ q.pc = "down" \/ (q.pc # "idle" /\ ~Tracked(c)) => counted[c] = <<>>
        /\ q.pc = "up" /\ Tracked(c) =>
             IF "metrics" \in Passed(c) \/ (Stream(c) /\ q.code = "OK") THEN counted[c] = <<>>
             ELSE counted[c] = <<q.code>> \/ (RefusedOutside(c) /\ counted[c] = <<>>)
        /\ q.pc \in {"open", "ended"} => Stream(c)
        /\ q.pc = "open" => counted[c] = <<>>
        /\ q.pc = "ended" /\ Tracked(c) => counted[c] = <<q.code>>
        /\ q.pc = "done" /\ conn[q.conn] # "failed" =>
             \/ Tracked(c) /\ counted[c] = <<q.code>>
             \/ (~Tracked(c) \/ RefusedOutside(c)) /\ counted[c] = <<>>

\* Inside the limiter the attempt under way is paid for.
Metered(c) == Bucket(call[c].conn) > 0 /\ ~Skipped(c, MW(c).limiter)
Pays(c) ==
    call[c].pc # "idle" /\ Metered(c) =>
        /\ Len(sent[c]) <= paid[c]
        /\ call[c].pc = "down" /\ "limiter" \in Passed(c) => Len(sent[c]) < paid[c]

\* Inside the stage that adds the header there is one id, that of every attempt.
Headed(c, i) == "requestidHeader" \in Prefix(Path(c), i - 1)
Carries(c) ==
    LET q == call[c]
    IN  Walking(c) => \A i \in 1..q.at :
            /\ q.given = "context" => q.ids[i] = OwnId
            /\ Headed(c, i) =>
                 /\ q.ids[i] # NoId
                 /\ \A j \in 1..q.at : Headed(c, j) => q.ids[j] = q.ids[i]
                 /\ q.given # "header" => \A n \in 1..Len(sent[c]) : sent[c][n].id = q.ids[i]

Labelled(c) == \A n \in 1..Len(sent[c]) :
    /\ ~IsLocal(Cfg(c)) => sent[c][n].id = sent[c][1].id /\ sent[c][n].id # NoId
    /\ call[c].given = "header" => sent[c][n].id = OwnId
    /\ call[c].given = "context" => sent[c][n].id \in {OwnId, NoId}

Named(c) == Carries(c) /\ Labelled(c)

Sound(c) ==
    /\ Placed(c) /\ Justified(c) /\ Repeats(c) /\ Clean(c) /\ Truthful(c)
    /\ Counts(c) /\ Pays(c) /\ Named(c)

\* The call that holds the gauge of a method up.
Holds(c) ==
    /\ Tracked(c)
    /\ \/ call[c].pc = "open"
       \/ Walking(c) /\ ("metrics" \in Passed(c) \/ (Stream(c) /\ call[c].pc = "up" /\ call[c].code = "OK"))

Gauged == \A m \in Methods : gauge[m] # 0 =>
              \E c \in Calls : call[c].pc # "idle" /\ call[c].method = m /\ Holds(c) 

Balanced == \A k \in Conns :
    IsFiniteSet(Spent(k)) /\ tokens[k] + Cardinality(Spent(k)) <= Bucket(k) + refills

CallInv == Typed /\ ConnsBuilt /\ (\A c \in Calls : Sound(c)) /\ Gauged /\ Balanced

-----------------------------------------------------------------------------
(* A call at a stage of its chain. *)

\* The stages around the one a call is at.
Outside(c) == Prefix(Path(c), call[c].at - 1)
Here(c)    == Path(c)[call[c].at]

LEMMA PathIs ==
    ASSUME config \in Assignments, NEW c \in Calls, call[c].conn \in Conns, call[c].method \in Methods
    PROVE  Path(c) = Chain(Cfg(c), call[c].method)
BY DEF Path, Chains, Cfg

LEMMA ChainOf ==
    ASSUME Typed, NEW c \in Calls, Placed(c), Walking(c)
    PROVE  /\ Rises(Path(c), Rank(Cfg(c), call[c].method), 0, 19)
           /\ MadeOf(Cfg(c), call[c].method, ToSet(Path(c)))
           /\ HasRetry(MW(c)) => MW(c).retry.codes \subseteq RetryCodeNames
           /\ Section(Cfg(c)) = MW(c)
           /\ Path(c) \in Seq(Stages) /\ Len(Path(c)) \in Nat
<1>1. ~BuildFails(Cfg(c))
  BY DEF Placed
<1>2. Section(Cfg(c)) = MW(c)
  BY DEF Section, MW
<1>3. Path(c) = Chain(Cfg(c), call[c].method)
  BY PathIs DEF Typed, Placed, Walking
<1> QED
  BY <1>1, <1>2, <1>3, ChainStages DEF Rises

\* What a call that has entered the stages O of T, and is at x, has passed.
Around(c, T, O, x) ==
    /\ x \in T /\ x \notin O /\ O \subseteq T
    /\ MadeOf(Cfg(c), call[c].method, T)
    /\ x \in {"retry", "limiter", "invoke", "newStream"} /\ "metrics" \in T => "metrics" \in O
    /\ x = "retry" => "limiter" \notin O /\ "invoke" \notin O
    /\ x = "invoke" => "recovery" \notin O
    /\ x = "requestid" => "requestidHeader" \notin O
    /\ x = "breaker" /\ "metrics" \in T /\ "metrics" \notin O =>
         ~IsLocal(Cfg(c)) /\ ~Stream(c) /\ "retry" \notin O
    /\ x = "recovery" /\ IsLocal(Cfg(c)) /\ "metrics" \in T => "metrics" \in O
    /\ "retry" \in O /\ ~IsLocal(Cfg(c)) => "requestidHeader" \in O

LEMMA AtStage ==
    ASSUME Typed, NEW c \in Calls, Placed(c), NEW way, NEW S, Meets(c, way, S)
    PROVE  /\ Walking(c) /\ call[c].pc = way /\ Here(c) \in S
           /\ call[c].at \in 1..Len(Path(c))
           /\ Around(c, ToSet(Path(c)), Outside(c), Here(c))
           /\ Prefix(Path(c), call[c].at) = Outside(c) \cup {Here(c)}
           /\ Passed(c) = IF way = "down" THEN Outside(c) ELSE Outside(c) \cup {Here(c)}
<1> DEFINE s == Path(c)
           n == call[c].at
           x == Here(c)
           T == ToSet(s)
           O == Outside(c)
           m == call[c].method
           R == Rank(Cfg(c), m)
<1>1. Walking(c) /\ call[c].pc = way /\ x \in S /\ n \in DOMAIN s /\ way \in {"down", "up"}
  BY DEF Meets, Walking, Here
<1>2. Rises(s, R, 0, 19) /\ MadeOf(Cfg(c), m, T) /\ s \in Seq(Stages)
  BY <1>1, ChainOf
<1>3. n \in 1..Len(s)
  BY <1>1, <1>2
<1>4. R \in [Stages -> Nat]
  BY Orders
<1>5. /\ x \in Stages /\ x \in T /\ Prefix(s, n) = O \cup {x} /\ O \subseteq T
      /\ \A y \in O : R[y] < R[x]
      /\ \A y \in T : R[y] < R[x] => y \in O
  BY <1>2, <1>3, <1>4, PrefixOrder DEF Outside, Here
<1>6. T \subseteq Stages
  BY <1>2 DEF MadeOf
<1>7. \A y \in Stages : R[y] \in Nat
  BY <1>4
<1>8. x \notin O
  BY <1>5, <1>7
<1>9. Outer(Cfg(c), m) <=> ~IsLocal(Cfg(c)) /\ ~Stream(c)
  BY DEF Outer, Stream
<1>10. \A y \in T : y \notin O => R[x] <= R[y]
  BY <1>5, <1>6, <1>7
<1> HIDE DEF s, n, x, T, O, R
<1>11. /\ x \in {"retry", "limiter"} /\ "metrics" \in T => "metrics" \in O
       /\ x = "retry" => "limiter" \notin O
       /\ x = "requestid" => "requestidHeader" \notin O
  <2>1. /\ R["metrics"] < R["retry"] /\ R["retry"] < R["limiter"] /\ R["metrics"] < R["limiter"]
        /\ R["requestid"] < R["requestidHeader"]
    BY Orders DEF R
  <2>2. {"metrics", "retry", "limiter", "requestid", "requestidHeader"} \subseteq Stages
    BY DEF Stages
  <2> QED
    BY <2>1, <2>2, <1>5, <1>7
<1>12. CASE Outer(Cfg(c), m)
  <2>1. /\ R["requestidHeader"] < R["retry"] /\ R["breaker"] < R["metrics"] /\ R["breaker"] < R["retry"]
    BY <1>12, Orders DEF R
  <2>2. "invoke" \notin T /\ "newStream" \notin T /\ "requestidHeader" \in T
    BY <1>2, <1>9, <1>12 DEF MadeOf
  <2>3. {"retry", "breaker", "requestidHeader"} \subseteq Stages
    BY DEF Stages
  <2>4. "retry" \in O => "requestidHeader" \in O
    BY <2>1, <2>2, <2>3, <1>5, <1>6, <1>7
  <2>5. x = "breaker" => "retry" \notin O
    BY <2>1, <2>3, <1>5, <1>7
  <2> QED
    BY <1>1, <1>2, <1>3, <1>5, <1>8, <1>9, <1>11, <1>12, <2>2, <2>4, <2>5 DEF Around, s, n, x, T, O, Passed, Outside
<1>13. CASE ~Outer(Cfg(c), m)
  <2>1. /\ R["metrics"] < R["invoke"] /\ R["retry"] < R["invoke"] /\ R["invoke"] < R["recovery"]
        /\ R["metrics"] < R["recovery"] /\ R["metrics"] < R["breaker"] /\ R["metrics"] < R["newStream"]
    BY <1>13, Orders DEF R
  <2>2. {"metrics", "retry", "invoke", "recovery", "breaker", "newStream"} \subseteq Stages
    BY DEF Stages
  <2>3. /\ x \in {"invoke", "newStream", "breaker", "recovery"} /\ "metrics" \in T => "metrics" \in O
        /\ x = "retry" => "invoke" \notin O
        /\ x = "invoke" => "recovery" \notin O
    BY <2>1, <2>2, <1>5, <1>7
  <2>4. "retry" \in O => IsLocal(Cfg(c))
    <3>1. "retry" \in O => ~Stream(c)
      BY <1>2, <1>5 DEF MadeOf, Stream, m
    <3> QED
      BY <3>1, <1>9, <1>13
  <2> QED
    BY <1>1, <1>2, <1>3, <1>5, <1>8, <1>11, <2>3, <2>4 DEF Around, s, n, x, T, O, Passed, Outside
<1> QED
  BY <1>12, <1>13

\* A call that has arrived has passed every stage.
LEMMA AtService ==
    ASSUME Typed, NEW c \in Calls, Placed(c), Arrives(c)
    PROVE  /\ Walking(c) /\ call[c].pc = "down" /\ call[c].at = Len(Path(c)) + 1 /\ Len(Path(c)) \in Nat
           /\ Passed(c) = ToSet(Path(c)) /\ Outside(c) = ToSet(Path(c))
           /\ MadeOf(Cfg(c), call[c].method, ToSet(Path(c)))
           /\ "retry" \in ToSet(Path(c)) /\ ~IsLocal(Cfg(c)) => "requestidHeader" \in ToSet(Path(c))
<1>1. Walking(c) /\ call[c].pc = "down"
  BY DEF Arrives, Walking
<1>2. Path(c) \in Seq(Stages) /\ Len(Path(c)) \in Nat /\ MadeOf(Cfg(c), call[c].method, ToSet(Path(c)))
  BY <1>1, ChainOf
<1>3. call[c].at = Len(Path(c)) + 1
  BY <1>1, <1>2 DEF Placed, Arrives
<1>4. call[c].at - 1 = Len(Path(c))
  BY <1>2, <1>3
<1>5. Prefix(Path(c), Len(Path(c))) = ToSet(Path(c))
  BY <1>2, PrefixEnds
<1> QED
  BY <1>1, <1>2, <1>3, <1>4, <1>5 DEF Passed, Outside, MadeOf

-----------------------------------------------------------------------------
(* A step of a call: what its connection and its request say stays. *)

Kept(c) ==
    /\ config' = config /\ conn' = conn
    /\ call'[c].conn = call[c].conn /\ call'[c].method = call[c].method
    /\ call'[c].given = call[c].given

LEMMA KeptSame ==
    ASSUME NEW c \in Calls, Kept(c)
    PROVE  /\ Cfg(c)' = Cfg(c) /\ MW(c)' = MW(c) /\ Path(c)' = Path(c)
           /\ Stream(c)' = Stream(c) /\ Retries(c)' = Retries(c)
           /\ Tracked(c)' = Tracked(c) /\ Metered(c)' = Metered(c)
           /\ \A code : Seen(c, code)' = Seen(c, code)
<1>1. Cfg(c)' = Cfg(c)
  BY DEF Kept, Cfg
<1>2. MW(c)' = MW(c)
  BY <1>1 DEF MW
<1>3. Path(c)' = Path(c)
  BY <1>1 DEF Path, Kept
<1>4. Stream(c)' = Stream(c) /\ Retries(c)' = Retries(c)
  BY <1>2 DEF Stream, Retries, Kept
<1>5. Tracked(c)' = Tracked(c)
  BY <1>2 DEF Tracked, Skipped, Kept
<1>6. Metered(c)' = Metered(c)
  BY <1>2 DEF Metered, Bucket, Skipped, Kept
<1>7. \A code : Seen(c, code)' = Seen(c, code)
  BY <1>3 DEF Seen
<1> QED
  BY <1>1, <1>2, <1>3, <1>4, <1>5, <1>6, <1>7

LEMMA WorthSame ==
    ASSUME NEW c \in Calls, Kept(c), sent'[c] = sent[c]
    PROVE  \A n : Worth(c, n)' = Worth(c, n)
<1>1. MW(c)' = MW(c) /\ \A code : Seen(c, code)' = Seen(c, code)
  BY KeptSame
<1> QED
  BY <1>1 DEF Worth

LEMMA GoesDown ==
    ASSUME Typed, NEW c \in Calls, Placed(c), NEW way, NEW S, Meets(c, way, S), Kept(c), NEW id \in Nat,
           call'[c].pc = "down", call'[c].at = call[c].at + 1, call'[c].ids = Append(call[c].ids, id)
    PROVE  /\ Placed(c)' /\ Passed(c)' = Outside(c) \cup {Here(c)}
           /\ Len(call'[c].ids) = call[c].at + 1 /\ call'[c].ids[call[c].at + 1] = id
           /\ \A i \in 1..call[c].at : call'[c].ids[i] = call[c].ids[i]
<1>1. /\ Walking(c) /\ call[c].at \in 1..Len(Path(c))
      /\ Prefix(Path(c), call[c].at) = Outside(c) \cup {Here(c)}
  BY AtStage
<1>2. Cfg(c)' = Cfg(c) /\ Path(c)' = Path(c)
  BY KeptSame
<1>3. call[c] \in CallStates /\ Len(Path(c)) \in Nat
  BY <1>1, ChainOf DEF Typed
<1>4. call[c].ids \in Seq(Nat) /\ Len(call[c].ids) = call[c].at /\ call[c].at \in Nat
  BY <1>1, <1>3 DEF CallStates, Placed
<1>5. /\ Len(call'[c].ids) = call[c].at + 1 /\ call'[c].ids[call[c].at + 1] = id
      /\ \A i \in 1..call[c].at : call'[c].ids[i] = call[c].ids[i]
  BY <1>4, AppendProperties
<1>6. Passed(c)' = Prefix(Path(c), call[c].at)
  <2>1. call'[c].at - 1 = call[c].at
    BY <1>4
  <2> QED
    BY <2>1, <1>2 DEF Passed
<1>7. call[c].at + 1 \in 1..(Len(Path(c)) + 1)
  BY <1>1, <1>3
<1>8. Placed(c)'
  BY <1>1, <1>2, <1>5, <1>7 DEF Placed, Walking, Kept, Usable
<1> QED
  BY <1>1, <1>5, <1>6, <1>8

\* A sequence without its last element.
LEMMA FrontOf ==
    ASSUME NEW s \in Seq(Nat), Len(s) > 0
    PROVE  Len(Front(s)) = Len(s) - 1 /\ \A i \in 1..(Len(s) - 1) : Front(s)[i] = s[i]
<1>1. Len(s) \in Nat /\ Len(s) - 1 \in Nat
  OBVIOUS
<1>2. Front(s) = SubSeq(s, 1, Len(s) - 1)
  BY DEF Front
<1>3. Len(SubSeq(s, 1, Len(s) - 1)) = Len(s) - 1
  <2> DEFINE n == Len(s) - 1
  <2>1. n \in Nat /\ \A i \in 1..n : s[i] \in Nat
    BY <1>1
  <2> HIDE DEF n
  <2>2. Len(SubSeq(s, 1, n)) = IF 1 <= n THEN n - 1 + 1 ELSE 0
    BY <2>1, SubSeqProperties
  <2>3. Len(SubSeq(s, 1, n)) = n
    BY <2>1, <2>2
  <2> QED
    BY <2>3 DEF n
<1>4. ASSUME NEW i \in 1..(Len(s) - 1) PROVE SubSeq(s, 1, Len(s) - 1)[i] = s[i]
  BY <1>1
<1> QED
  BY <1>2, <1>3, <1>4

LEMMA GoesUp ==
    ASSUME Typed, NEW c \in Calls, Placed(c), Walking(c), call[c].at \in 1..(Len(Path(c)) + 1), Kept(c),
           call'[c].pc = "up", call'[c].at = call[c].at - 1, call'[c].ids = Front(call[c].ids)
    PROVE  /\ Placed(c)' /\ Passed(c)' = Outside(c)
           /\ \A i \in 1..(call[c].at - 1) : call'[c].ids[i] = call[c].ids[i]
<1>1. Cfg(c)' = Cfg(c) /\ Path(c)' = Path(c)
  BY KeptSame
<1>2. call[c] \in CallStates /\ Len(Path(c)) \in Nat
  BY ChainOf DEF Typed
<1>3. call[c].ids \in Seq(Nat) /\ Len(call[c].ids) = call[c].at /\ call[c].at \in Nat
  BY <1>2 DEF CallStates, Placed
<1>4. Len(call'[c].ids) = call[c].at - 1 /\ \A i \in 1..(call[c].at - 1) : call'[c].ids[i] = call[c].ids[i]
  <2> DEFINE s == call[c].ids
             t == call'[c].ids
  <2>1. s \in Seq(Nat) /\ Len(s) > 0 /\ Len(s) = call[c].at /\ t = Front(s)
    BY <1>3
  <2> HIDE DEF s, t
  <2>2. Len(t) = Len(s) - 1 /\ \A i \in 1..(Len(s) - 1) : t[i] = s[i]
    BY <2>1, FrontOf
  <2> QED
    BY <2>1, <2>2 DEF s, t
<1>5. Passed(c)' = Outside(c)
  BY <1>1 DEF Passed, Outside
<1>6. call[c].at - 1 \in 0..Len(Path(c))
  BY <1>2, <1>3
<1>7. Placed(c)'
  BY <1>1, <1>4, <1>6 DEF Placed, Walking, Kept, Usable
<1> QED
  BY <1>4, <1>5, <1>7

LEMMA JustifiedSame ==
    ASSUME NEW c \in Calls, Justified(c), Kept(c), sent'[c] = sent[c]
    PROVE  Justified(c)'
<1>1. MW(c)' = MW(c) /\ Stream(c)' = Stream(c) /\ Retries(c)' = Retries(c)
  BY KeptSame
<1>2. Worth(c, Len(sent[c]) - 1)' = Worth(c, Len(sent[c]) - 1)
  BY <1>1, KeptSame DEF Worth
<1> QED
  BY <1>1, <1>2 DEF Justified

LEMMA Tries ==
    ASSUME Typed, NEW c \in Calls, Placed(c), call[c].pc # "idle", HasRetry(MW(c))
    PROVE  MaxAttempts(MW(c).retry) \in Nat /\ 1 <= MaxAttempts(MW(c).retry)
<1>1. config \in Assignments /\ call[c].conn \in Conns
  BY DEF Typed, Placed
<1>2. MW(c).retry.max \in Nat
  BY <1>1, ClientCallConstants DEF HasRetry, MW, Cfg
<1> QED
  BY <1>2 DEF MaxAttempts, DefaultAttempts

\* The id that a stage hands on.
Keeps(c, id) ==
    IF Here(c) \in {"requestid", "requestidHeader"} THEN id # NoId /\ (Id(c) # NoId => id = Id(c))
    ELSE id = Id(c)

LEMMA NamedDown ==
    ASSUME Typed, NEW c \in Calls, Placed(c), Named(c), NEW way, NEW S, Meets(c, way, S), Kept(c),
           NEW id \in Nat, Keeps(c, id), Here(c) = "requestidHeader" => sent[c] = <<>>,
           call'[c].pc = "down", call'[c].at = call[c].at + 1, call'[c].ids = Append(call[c].ids, id),
           sent'[c] = sent[c]
    PROVE  Named(c)'
<1> DEFINE n == call[c].at
           q == call'[c]
<1>1. /\ Walking(c) /\ n \in 1..Len(Path(c)) /\ Around(c, ToSet(Path(c)), Outside(c), Here(c))
      /\ Prefix(Path(c), n) = Outside(c) \cup {Here(c)}
  BY AtStage
<1>2. /\ Cfg(c)' = Cfg(c) /\ Path(c)' = Path(c)
  BY KeptSame
<1>3. q.ids[n + 1] = id /\ \A i \in 1..n : q.ids[i] = call[c].ids[i]
  BY GoesDown
<1>4. call[c] \in CallStates /\ Len(Path(c)) \in Nat
  BY <1>1, ChainOf DEF Typed
<1>5. Id(c) = call[c].ids[n]
  BY <1>1 DEF Id, Last, Placed
<1>6. \A i : Headed(c, i)' = Headed(c, i)
  BY <1>2 DEF Headed
<1>7. Headed(c, n + 1) <=> Headed(c, n) \/ Here(c) = "requestidHeader"
  <2>1. (n + 1) - 1 = n
    BY <1>1, <1>4
  <2> QED
    BY <1>1, <2>1 DEF Headed, Outside
<1>8. Here(c) = "requestidHeader" => \A i \in 1..n : ~Headed(c, i)
  <2>1. ASSUME NEW i \in 1..n, Headed(c, i)
        PROVE  "requestidHeader" \in Outside(c)
    <3>1. 1..(i - 1) \subseteq 1..(n - 1)
      BY <1>1, <1>4
    <3> QED
      BY <2>1, <3>1 DEF Headed, Outside, Prefix
  <2> QED
    BY <2>1, <1>1 DEF Around
<1>9. Here(c) = "requestid" => ~Headed(c, n)
  BY <1>1 DEF Around, Headed, Outside
<1>10. call[c].given = "context" => id = OwnId
  BY <1>1, <1>5 DEF Named, Carries, Keeps, OwnId, NoId
<1>11. Headed(c, n) /\ Here(c) # "requestidHeader" => id = call[c].ids[n]
  BY <1>5, <1>9 DEF Keeps
<1>12. ASSUME NEW i \in 1..(n + 1)
       PROVE  /\ q.given = "context" => q.ids[i] = OwnId
              /\ Headed(c, i) =>
                   /\ q.ids[i] # NoId
                   /\ \A j \in 1..(n + 1) : Headed(c, j) => q.ids[j] = q.ids[i]
                   /\ q.given # "header" => \A k \in 1..Len(sent[c]) : sent[c][k].id = q.ids[i]
  <2>0. n \in 1..n /\ n + 1 \in 1..(n + 1) /\ 1..(n + 1) = (1..n) \cup {n + 1}
    BY <1>1, <1>4
  <2>1. CASE Here(c) = "requestidHeader"
    <3>1. sent[c] = <<>> /\ Len(sent[c]) = 0 /\ id # NoId
      BY <2>1 DEF Keeps
    <3>2. 1..Len(sent[c]) = {}
      BY <3>1
    <3>3. CASE i = n + 1
      BY <2>0, <2>1, <3>1, <3>2, <3>3, <1>3, <1>7, <1>8, <1>10 DEF Kept
    <3>4. CASE i \in 1..n
      BY <2>1, <3>4, <1>1, <1>3, <1>8 DEF Named, Carries, Kept
    <3> QED
      BY <3>3, <3>4, <2>0
  <2>2. CASE Here(c) # "requestidHeader" /\ ~Headed(c, n)
    <3>1. ~Headed(c, n + 1)
      BY <2>2, <1>7
    <3>2. CASE i = n + 1
      BY <3>1, <3>2, <1>3, <1>10 DEF Kept
    <3>3. CASE i \in 1..n
      <4>1. q.given = call[c].given /\ q.ids[i] = call[c].ids[i]
        BY <3>3, <1>3 DEF Kept
      <4>2. \A j \in 1..(n + 1) : Headed(c, j) => j \in 1..n /\ q.ids[j] = call[c].ids[j]
        BY <3>1, <2>0, <1>3
      <4>3. /\ call[c].given = "context" => call[c].ids[i] = OwnId
            /\ Headed(c, i) =>
                 /\ call[c].ids[i] # NoId
                 /\ \A j \in 1..n : Headed(c, j) => call[c].ids[j] = call[c].ids[i]
                 /\ call[c].given # "header" => \A k \in 1..Len(sent[c]) : sent[c][k].id = call[c].ids[i]
        BY <3>3, <1>1 DEF Named, Carries
      <4> QED
        BY <4>1, <4>2, <4>3
    <3> QED
      BY <3>2, <3>3, <2>0
  <2>3. CASE Here(c) # "requestidHeader" /\ Headed(c, n)
    <3>1. id = call[c].ids[n] /\ q.ids[n] = call[c].ids[n] /\ q.ids[n + 1] = call[c].ids[n]
      BY <2>3, <2>0, <1>3, <1>11
    <3>2. /\ call[c].ids[n] # NoId
          /\ \A j \in 1..n : Headed(c, j) => call[c].ids[j] = call[c].ids[n]
          /\ call[c].given # "header" => \A k \in 1..Len(sent[c]) : sent[c][k].id = call[c].ids[n]
      BY <2>0, <2>3, <1>1 DEF Named, Carries
    <3>3. \A j \in 1..(n + 1) : Headed(c, j) => q.ids[j] = call[c].ids[n]
      BY <2>0, <3>1, <3>2, <1>3
    <3>4. q.given = "context" => q.ids[i] = OwnId
      <4>1. CASE i = n + 1
        BY <4>1, <1>3, <1>10 DEF Kept
      <4>2. CASE i \in 1..n
        BY <4>2, <1>1, <1>3 DEF Named, Carries, Kept
      <4> QED
        BY <4>1, <4>2, <2>0
    <3> QED
      BY <3>2, <3>3, <3>4 DEF Kept
  <2> QED
    BY <2>1, <2>2, <2>3
<1>13. q.at = n + 1
  OBVIOUS
<1>14. Labelled(c)'
  BY <1>2 DEF Named, Labelled, Kept
<1>15. Carries(c)'
  <2> HIDE DEF n
  <2>1. \A i \in 1..q.at :
            /\ q.given = "context" => q.ids[i] = OwnId
            /\ Headed(c, i) =>
                 /\ q.ids[i] # NoId
                 /\ \A j \in 1..q.at : Headed(c, j) => q.ids[j] = q.ids[i]
                 /\ q.given # "header" => \A k \in 1..Len(sent[c]) : sent[c][k].id = q.ids[i]
    BY <1>12, <1>13
  <2> QED
    BY <2>1, <1>6 DEF Carries
<1> QED
  BY <1>14, <1>15 DEF Named

-----------------------------------------------------------------------------
(* The kinds of steps.  On to the next stage. *)

LEMMA Descends ==
    ASSUME Typed, NEW c \in Calls, Sound(c), NEW S, Meets(c, "down", S), Kept(c),
           NEW id \in Nat, Keeps(c, id),
           call'[c].pc = "down", call'[c].at = call[c].at + 1, call'[c].ids = Append(call[c].ids, id),
           call'[c].tries = IF Here(c) = "retry" THEN 1 ELSE call[c].tries,
           sent'[c] = sent[c], counted'[c] = counted[c], paid'[c] \in Nat, paid[c] <= paid'[c],
           Here(c) = "limiter" /\ Metered(c) => paid'[c] = paid[c] + 1
    PROVE  Sound(c)'
<1> DEFINE x == Here(c)
           O == Outside(c)
           T == ToSet(Path(c))
<1>1. /\ Walking(c) /\ call[c].pc = "down" /\ Around(c, T, O, x) /\ Passed(c) = O
      /\ call[c].pc # "idle"
  BY AtStage DEF Sound
<1>2. /\ MW(c)' = MW(c) /\ Path(c)' = Path(c) /\ Stream(c)' = Stream(c) /\ Retries(c)' = Retries(c)
      /\ Tracked(c)' = Tracked(c) /\ Metered(c)' = Metered(c)
  BY KeptSame
<1>3. Placed(c)' /\ Passed(c)' = O \cup {x}
  BY GoesDown DEF Sound
<1>4. \A n : Worth(c, n)' = Worth(c, n)
  BY WorthSame
<1>5. sent[c] \in Seq(Attempts) /\ Len(sent[c]) \in Nat /\ paid[c] \in Nat
  BY DEF Typed
<1>6. "retry" \notin O => sent[c] = <<>>
  BY <1>1 DEF Sound, Repeats
<1>7. Justified(c)'
  BY JustifiedSame DEF Sound
<1>8. Repeats(c)'
  <2>1. CASE x = "retry"
    <3>1. "retry" \notin O /\ "retry" \in T
      BY <2>1, <1>1 DEF Around
    <3>2. sent[c] = <<>> /\ Len(sent[c]) = 0
      BY <3>1, <1>6
    <3>3. HasRetry(MW(c))
      <4>1. MadeOf(Cfg(c), call[c].method, T)
        BY <1>1 DEF Around
      <4> QED
        BY <3>1, <4>1 DEF MadeOf, Section, MW
    <3>4. MaxAttempts(MW(c).retry) \in Nat /\ 1 <= MaxAttempts(MW(c).retry)
      BY <3>3, <1>1, Tries DEF Sound
    <3>5. Worth(c, 0)
      BY DEF Worth
    <3> QED
      BY <2>1, <3>2, <3>4, <3>5, <1>2, <1>3, <1>4 DEF Repeats, Walking
  <2>2. CASE x # "retry"
    <3>1. ("retry" \in O \cup {x}) <=> "retry" \in O
      BY <2>2
    <3> QED
      BY <2>2, <3>1, <1>1, <1>2, <1>3, <1>4 DEF Sound, Repeats, Walking
  <2> QED
    BY <2>1, <2>2
<1>9. Clean(c)'
  BY DEF Clean
<1>10. Truthful(c)'
  BY <1>1 DEF Sound, Truthful, Succeeded
<1>11. Counts(c)'
  BY <1>1 DEF Sound, Counts
<1>12. Pays(c)'
  <2>1. CASE x = "limiter"
    BY <2>1, <1>1, <1>2, <1>3, <1>5 DEF Sound, Pays
  <2>2. CASE x # "limiter"
    BY <2>2, <1>1, <1>2, <1>3, <1>5 DEF Sound, Pays
  <2> QED
    BY <2>1, <2>2
<1>13. x = "requestidHeader" => sent[c] = <<>>
  <2>1. ASSUME x = "requestidHeader"
        PROVE  "retry" \notin O
    <3>1. ~IsLocal(Cfg(c))
      <4>1. MadeOf(Cfg(c), call[c].method, T) /\ x \in T
        BY <1>1 DEF Around
      <4> QED
        BY <4>1, <2>1 DEF MadeOf
    <3> QED
      BY <2>1, <3>1, <1>1 DEF Around
  <2> QED
    BY <2>1, <1>6
<1>14. Named(c)'
  BY <1>13, NamedDown DEF Sound
<1> QED
  BY <1>3, <1>7, <1>8, <1>9, <1>10, <1>11, <1>12, <1>14 DEF Sound

\* Ids on the way up.
LEMMA NamedUp ==
    ASSUME Typed, NEW c \in Calls, Placed(c), Named(c), Walking(c), Kept(c),
           call[c].at \in 1..(Len(Path(c)) + 1),
           call'[c].pc = "up", call'[c].at = call[c].at - 1, call'[c].ids = Front(call[c].ids),
           sent'[c] = sent[c]
    PROVE  Named(c)'
<1>1. Cfg(c)' = Cfg(c) /\ Path(c)' = Path(c)
  BY KeptSame
<1>2. \A i \in 1..(call[c].at - 1) : call'[c].ids[i] = call[c].ids[i]
  BY GoesUp
<1>3. \A i : Headed(c, i)' = Headed(c, i)
  BY <1>1 DEF Headed
<1>4. 1..(call[c].at - 1) \subseteq 1..call[c].at
  BY ChainOf
<1>5. Carries(c)'
  BY <1>2, <1>3, <1>4 DEF Named, Carries, Walking, Kept
<1>6. Labelled(c)'
  BY <1>1 DEF Named, Labelled, Kept
<1> QED
  BY <1>5, <1>6 DEF Named

\* Turned away, by a stage or by a closed connection.
LEMMA Refuses ==
    ASSUME Typed, NEW c \in Calls, Sound(c), Kept(c),
           \/ Meets(c, "down", {"breaker", "retry", "limiter", "invoke", "newStream"})
           \/ Arrives(c),
           call'[c].pc = "up", call'[c].at = call[c].at - 1, call'[c].ids = Front(call[c].ids),
           call'[c].tries = call[c].tries, call'[c].code \notin {"OK", "panic"},
           Meets(c, "down", {"breaker"}) => call'[c].code = "Unavailable",
           sent'[c] = sent[c], counted'[c] = counted[c], paid'[c] = paid[c]
    PROVE  Sound(c)'
<1> DEFINE O == Outside(c)
           T == ToSet(Path(c))
<1>1. /\ Walking(c) /\ call[c].pc = "down" /\ call[c].at \in 1..(Len(Path(c)) + 1) /\ Passed(c) = O
      /\ MadeOf(Cfg(c), call[c].method, T)
      /\ "metrics" \in T /\ "metrics" \notin O =>
           Meets(c, "down", {"breaker"}) /\ "breaker" \in T /\ ~IsLocal(Cfg(c)) /\ ~Stream(c) /\ "retry" \notin O
  <2>1. CASE Arrives(c)
    BY <2>1, AtService DEF Sound
  <2>2. CASE Meets(c, "down", {"breaker", "retry", "limiter", "invoke", "newStream"})
    <3>1. /\ Walking(c) /\ call[c].pc = "down" /\ call[c].at \in 1..Len(Path(c)) /\ Passed(c) = O
          /\ Around(c, T, O, Here(c)) /\ Here(c) \in {"breaker", "retry", "limiter", "invoke", "newStream"}
      BY <2>2, AtStage DEF Sound
    <3>2. Here(c) = "breaker" => Meets(c, "down", {"breaker"})
      BY <2>2 DEF Meets, Here
    <3>3. Len(Path(c)) \in Nat
      BY <3>1, ChainOf DEF Sound
    <3> QED
      BY <3>1, <3>2, <3>3 DEF Around
  <2> QED
    BY <2>1, <2>2
<1>2. /\ MW(c)' = MW(c) /\ Cfg(c)' = Cfg(c) /\ Path(c)' = Path(c) /\ Stream(c)' = Stream(c)
      /\ Retries(c)' = Retries(c) /\ Tracked(c)' = Tracked(c) /\ Metered(c)' = Metered(c)
  BY KeptSame
<1>3. Placed(c)' /\ Passed(c)' = O
  BY <1>1, GoesUp DEF Sound
<1>4. \A n : Worth(c, n)' = Worth(c, n)
  BY WorthSame
<1>5. sent[c] \in Seq(Attempts) /\ Len(sent[c]) \in Nat /\ paid[c] \in Nat /\ call[c] \in CallStates
  BY DEF Typed
<1>6. Justified(c)'
  BY JustifiedSame DEF Sound
<1>7. Repeats(c)'
  <2>1. ASSUME "retry" \in O
        PROVE  /\ call[c].tries \in 1..MaxAttempts(MW(c).retry) /\ (call[c].tries > 1 => Retries(c))
               /\ Len(sent[c]) < call[c].tries /\ Worth(c, Len(sent[c]))
    BY <2>1, <1>1 DEF Sound, Repeats
  <2>2. "retry" \in O => Len(sent[c]) <= call[c].tries
    BY <2>1, <1>5 DEF CallStates
  <2> QED
    BY <2>1, <2>2, <1>2, <1>3, <1>4 DEF Repeats, Walking
<1>8. Clean(c)'
  BY DEF Clean
<1>9. Truthful(c)'
  BY <1>1 DEF Sound, Truthful, Succeeded
<1>10. Counts(c)'
  <2>1. counted[c] = <<>>
    BY <1>1 DEF Sound, Counts
  <2>2. Tracked(c) => "metrics" \in T
    BY <1>1 DEF Tracked, MadeOf, HasMetrics, Section, MW
  <2>3. ASSUME Tracked(c), "metrics" \notin O
        PROVE  RefusedOutside(c)'
    <3>1. /\ call'[c].code = "Unavailable" /\ ~IsLocal(Cfg(c)) /\ ~Stream(c) /\ "retry" \notin O /\ "breaker" \in T
      BY <2>2, <2>3, <1>1
    <3>2. sent[c] = <<>>
      BY <3>1, <1>1 DEF Sound, Repeats
    <3>3. MW(c).breaker
      BY <3>1, <1>1 DEF MadeOf, Section, MW
    <3> QED
      BY <3>1, <3>2, <3>3, <1>2 DEF RefusedOutside
  <2> QED
    BY <2>1, <2>3, <1>2, <1>3 DEF Counts
<1>11. Pays(c)'
  BY <1>1, <1>2, <1>5 DEF Sound, Pays
<1>12. Named(c)'
  BY <1>1, NamedUp DEF Sound
<1> QED
  BY <1>3, <1>6, <1>7, <1>8, <1>9, <1>10, <1>11, <1>12 DEF Sound

\* What a stage makes of the code that comes up to it.
Mended(c) ==
    IF call[c].code # "panic" THEN call[c].code
    ELSE IF Here(c) = "recovery" THEN "Internal"
    ELSE IF Here(c) = "invoke" THEN "Unknown" ELSE "panic"

\* Back through a stage.
LEMMA Returns ==
    ASSUME Typed, NEW c \in Calls, Sound(c), NEW S, Meets(c, "up", S), Kept(c),
           call'[c].pc = "up", call'[c].at = call[c].at - 1, call'[c].ids = Front(call[c].ids),
           call'[c].tries = call[c].tries, call'[c].code = Mended(c),
           sent'[c] = sent[c], paid'[c] = paid[c],
           counted'[c] = IF Here(c) = "metrics" /\ Tracked(c) /\ ~(Stream(c) /\ call[c].code = "OK")
                         THEN Append(counted[c], call[c].code) ELSE counted[c]
    PROVE  Sound(c)'
<1> DEFINE x == Here(c)
           O == Outside(c)
           T == ToSet(Path(c))
           code == call[c].code
           next == call'[c].code
<1>1. /\ Walking(c) /\ call[c].pc = "up" /\ call[c].pc # "idle" /\ call[c].at \in 1..Len(Path(c))
      /\ Around(c, T, O, x) /\ Passed(c) = O \cup {x}
      /\ MadeOf(Cfg(c), call[c].method, T) /\ x \in T /\ x \notin O
  BY AtStage DEF Sound, Around
<1>2. /\ MW(c)' = MW(c) /\ Cfg(c)' = Cfg(c) /\ Path(c)' = Path(c) /\ Stream(c)' = Stream(c)
      /\ Retries(c)' = Retries(c) /\ Tracked(c)' = Tracked(c) /\ Metered(c)' = Metered(c)
      /\ \A y : Seen(c, y)' = Seen(c, y)
  BY KeptSame
<1>3. call[c].at \in 1..(Len(Path(c)) + 1)
  BY <1>1, ChainOf DEF Sound
<1>4. Placed(c)' /\ Passed(c)' = O
  BY <1>1, <1>3, GoesUp DEF Sound
<1>5. \A n : Worth(c, n)' = Worth(c, n)
  BY WorthSame
<1>6. sent[c] \in Seq(Attempts) /\ counted[c] \in Seq(Codes)
  BY DEF Typed
<1>7. Justified(c)'
  BY JustifiedSame DEF Sound
<1>8. code = "panic" => "invoke" \in O \cup {x} /\ ("recovery" \in T => "recovery" \in O \cup {x})
  BY <1>1 DEF Sound, Clean
<1>9. Seen(c, next) = Seen(c, code)
  <2>1. CASE code # "panic"
    BY <2>1 DEF Mended
  <2>2. CASE code = "panic" /\ x = "recovery"
    <3>1. next = "Internal" /\ "recovery" \in T
      BY <2>2, <1>1 DEF Mended
    <3> QED
      BY <2>2, <3>1 DEF Seen
  <2>3. CASE code = "panic" /\ x = "invoke"
    <3>1. next = "Unknown" /\ "recovery" \notin T
      BY <2>3, <1>1, <1>8 DEF Mended, Around
    <3> QED
      BY <2>3, <3>1 DEF Seen
  <2>4. CASE code = "panic" /\ x \notin {"recovery", "invoke"}
    BY <2>4 DEF Mended
  <2> QED
    BY <2>1, <2>2, <2>3, <2>4
<1>10. Repeats(c)'
  <2>1. Answered(c)' = Answered(c)
    BY <1>2, <1>9 DEF Answered
  <2> QED
    BY <2>1, <1>1, <1>2, <1>4, <1>5 DEF Sound, Repeats, Walking
<1>11. Clean(c)'
  BY <1>2, <1>4, <1>8 DEF Clean, Mended
<1>12. Truthful(c)'
  BY <1>1, <1>2 DEF Sound, Truthful, Succeeded, Mended
<1>13. Counts(c)'
  <2>1. CASE ~Tracked(c)
    BY <2>1, <1>1, <1>2 DEF Sound, Counts
  <2>2. CASE Tracked(c) /\ x = "metrics"
    <3>1. counted[c] = <<>> /\ "metrics" \notin O /\ next = code
      <4>1. "recovery" # "metrics" /\ "invoke" # "metrics"
        OBVIOUS
      <4>2. counted[c] = <<>>
        BY <2>2, <1>1 DEF Sound, Counts
      <4>3. next = code
        BY <2>2 DEF Mended
      <4> QED
        BY <2>2, <1>1, <4>2, <4>3
    <3>2. CASE Stream(c) /\ code = "OK"
      BY <2>2, <3>1, <3>2, <1>2, <1>4 DEF Counts
    <3>3. CASE ~(Stream(c) /\ code = "OK")
      <4>1. counted'[c] = <<code>>
        BY <2>2, <3>1, <3>3
      <4> QED
        BY <2>2, <3>1, <3>3, <4>1, <1>2, <1>4 DEF Counts
    <3> QED
      BY <3>2, <3>3
  <2>3. CASE Tracked(c) /\ x # "metrics" /\ "metrics" \in O
    BY <2>3, <1>1, <1>2, <1>4 DEF Sound, Counts
  <2>4. CASE Tracked(c) /\ x # "metrics" /\ "metrics" \notin O
    <3>1. "metrics" \in T
      BY <2>4, <1>1 DEF Tracked, MadeOf, HasMetrics, Section, MW
    <3>2. x # "invoke" /\ (x = "recovery" => ~IsLocal(Cfg(c)))
      BY <2>4, <3>1, <1>1 DEF Around
    <3>3. code # "panic"
      <4>1. code = "panic" => "invoke" \in T /\ "invoke" \in O
        BY <3>2, <1>1, <1>8 DEF Around
      <4>2. "invoke" \in T => IsLocal(Cfg(c)) /\ ~Outer(Cfg(c), call[c].method)
        BY <1>1 DEF MadeOf, Outer
      <4>3. "invoke" \in O /\ IsLocal(Cfg(c)) => "metrics" \in O
        <5> DEFINE R == Rank(Cfg(c), call[c].method)
                   n == call[c].at
        <5> SUFFICES ASSUME "invoke" \in O, IsLocal(Cfg(c))
                     PROVE  "metrics" \in O
          OBVIOUS
        <5>1. R["metrics"] < R["invoke"] /\ R \in [Stages -> Nat]
          BY Orders DEF Outer
        <5>2. Rises(Path(c), R, 0, 19)
          BY <1>1, ChainOf DEF Sound
        <5>3. R["invoke"] < R[x] /\ \A y \in T : R[y] < R[x] => y \in O
          BY <5>1, <5>2, <1>1, PrefixOrder DEF Outside, Here
        <5>4. x \in Stages /\ "metrics" \in Stages /\ "invoke" \in Stages
          BY <1>1 DEF MadeOf, Stages
        <5>5. R["metrics"] < R[x]
          BY <5>1, <5>3, <5>4
        <5> QED
          BY <3>1, <5>3, <5>5
      <4> QED
        BY <2>4, <4>1, <4>2, <4>3
    <3>4. next = code
      BY <3>3 DEF Mended
    <3>5. IF Stream(c) /\ code = "OK" THEN counted[c] = <<>>
          ELSE counted[c] = <<code>> \/ (RefusedOutside(c) /\ counted[c] = <<>>)
      BY <2>4, <1>1 DEF Sound, Counts
    <3>6. RefusedOutside(c)' = RefusedOutside(c)
      BY <3>4, <1>2 DEF RefusedOutside
    <3> QED
      BY <2>4, <3>4, <3>5, <3>6, <1>2, <1>4 DEF Counts
  <2> QED
    BY <2>1, <2>2, <2>3, <2>4
<1>14. Pays(c)'
  BY <1>1, <1>2 DEF Sound, Pays
<1>15. Named(c)'
  BY <1>1, <1>3, NamedUp DEF Sound
<1> QED
  BY <1>4, <1>7, <1>10, <1>11, <1>12, <1>13, <1>14, <1>15 DEF Sound

\* Down again from the retrier.
LEMMA TriesAgain ==
    ASSUME Typed, NEW c \in Calls, Sound(c), Meets(c, "up", {"retry"}), Kept(c),
           Retries(c), call[c].code \in RetryCodes(MW(c).retry),
           call[c].tries < MaxAttempts(MW(c).retry),
           call'[c].pc = "down", call'[c].at = call[c].at + 1,
           call'[c].ids = Append(call[c].ids, Id(c)), call'[c].tries = call[c].tries + 1,
           sent'[c] = sent[c], counted'[c] = counted[c], paid'[c] = paid[c]
    PROVE  Sound(c)'
<1> DEFINE x == Here(c)
           O == Outside(c)
           T == ToSet(Path(c))
           n == Len(sent[c])
<1>1. /\ Walking(c) /\ call[c].pc = "up" /\ call[c].pc # "idle" /\ x = "retry"
      /\ Around(c, T, O, x) /\ Passed(c) = O \cup {x}
      /\ MadeOf(Cfg(c), call[c].method, T) /\ x \in T
  BY AtStage DEF Sound, Around
<1>2. /\ MW(c)' = MW(c) /\ Path(c)' = Path(c) /\ Stream(c)' = Stream(c)
      /\ Retries(c)' = Retries(c) /\ Tracked(c)' = Tracked(c) /\ Metered(c)' = Metered(c)
  BY KeptSame
<1>3. sent[c] \in Seq(Attempts) /\ n \in Nat /\ call[c] \in CallStates
  BY DEF Typed
<1>4. call[c].ids \in Seq(Nat) /\ call[c].tries \in Nat
  BY <1>3 DEF CallStates
<1>5. Id(c) \in Nat
  <2>1. Len(call[c].ids) = call[c].at /\ call[c].at \in 1..Len(Path(c))
    BY <1>1, AtStage DEF Sound, Placed
  <2> QED
    BY <2>1, <1>4 DEF Id, Last
<1>6. Placed(c)' /\ Passed(c)' = O \cup {x}
  BY <1>5, GoesDown DEF Sound
<1>7. \A k : Worth(c, k)' = Worth(c, k)
  BY WorthSame
<1>8. Justified(c)'
  BY JustifiedSame DEF Sound
<1>9. HasRetry(MW(c)) /\ ~Stream(c) /\ MW(c).retry.codes \subseteq RetryCodeNames
  BY <1>1, ChainOf DEF Sound, MadeOf, Stream
<1>10. MaxAttempts(MW(c).retry) \in Nat
  BY <1>1, <1>9, Tries DEF Sound
<1>11. call[c].code # "OK" /\ call[c].code # "panic"
  BY <1>9 DEF RetryCodes, RetryCodeNames
<1>12. Repeats(c)'
  <2>1. /\ call[c].tries \in 1..MaxAttempts(MW(c).retry) /\ n <= call[c].tries
        /\ Worth(c, n) \/ (Answered(c) /\ Worth(c, n - 1))
    BY <1>1 DEF Sound, Repeats
  <2>2. ASSUME Answered(c), Worth(c, n - 1)
        PROVE  Worth(c, n)
    <3>1. Seen(c, call[c].code) = call[c].code
      BY <1>11 DEF Seen
    <3>2. Seen(c, sent[c][n].code) \in RetryCodes(MW(c).retry)
      BY <2>2, <3>1 DEF Answered
    <3>3. \A k \in 1..n : k \in 1..(n - 1) \/ k = n
      BY <1>3
    <3> QED
      BY <2>2, <3>2, <3>3 DEF Worth
  <2>3. Worth(c, n)
    BY <2>1, <2>2
  <2>4. call[c].tries + 1 \in 1..MaxAttempts(MW(c).retry) /\ n < call[c].tries + 1
    BY <2>1, <1>3, <1>4, <1>10
  <2> QED
    BY <2>3, <2>4, <1>1, <1>2, <1>6, <1>7 DEF Repeats, Walking
<1>13. Clean(c)'
  BY DEF Clean
<1>14. Truthful(c)'
  BY <1>1, <1>9, <1>11 DEF Sound, Truthful, Succeeded
<1>15. Counts(c)'
  <2>1. counted[c] = <<>>
    <3>1. Tracked(c) => "metrics" \in O
      BY <1>1 DEF Tracked, MadeOf, HasMetrics, Section, MW, Around
    <3> QED
      BY <3>1, <1>1 DEF Sound, Counts
  <2> QED
    BY <2>1 DEF Counts
<1>16. Pays(c)'
  <2>1. "limiter" \notin O \cup {x}
    BY <1>1 DEF Around
  <2> QED
    BY <2>1, <1>1, <1>2, <1>6 DEF Sound, Pays
<1>17. Named(c)'
  <2>1. Keeps(c, Id(c)) /\ x # "requestidHeader"
    BY <1>1 DEF Keeps
  <2> QED
    BY <2>1, <1>5, NamedDown DEF Sound
<1> QED
  BY <1>6, <1>8, <1>12, <1>13, <1>14, <1>15, <1>16, <1>17 DEF Sound

\* Answered by the service.
LEMMA Served ==
    ASSUME Typed, NEW c \in Calls, Sound(c), Arrives(c), Kept(c), NEW code \in Answers(c),
           call'[c].pc = "up", call'[c].at = call[c].at - 1, call'[c].ids = Front(call[c].ids),
           call'[c].tries = call[c].tries, call'[c].code = code,
           sent'[c] = Append(sent[c], [id |-> WireId(c), code |-> code]),
           counted'[c] = counted[c], paid'[c] = paid[c]
    PROVE  Sound(c)'
<1> DEFINE T == ToSet(Path(c))
           n == Len(sent[c])
           s == sent'[c]
           q == call[c]
<1>1. /\ Walking(c) /\ q.pc = "down" /\ q.pc # "idle" /\ q.at = Len(Path(c)) + 1 /\ Len(Path(c)) \in Nat
      /\ Passed(c) = T /\ Outside(c) = T /\ MadeOf(Cfg(c), q.method, T)
      /\ "retry" \in T /\ ~IsLocal(Cfg(c)) => "requestidHeader" \in T
  BY AtService DEF Sound
<1>2. /\ MW(c)' = MW(c) /\ Cfg(c)' = Cfg(c) /\ Path(c)' = Path(c) /\ Stream(c)' = Stream(c)
      /\ Retries(c)' = Retries(c) /\ Tracked(c)' = Tracked(c) /\ Metered(c)' = Metered(c)
      /\ \A y : Seen(c, y)' = Seen(c, y)
  BY KeptSame
<1>3. q.at \in 1..(Len(Path(c)) + 1)
  BY <1>1
<1>4. Placed(c)' /\ Passed(c)' = T
  BY <1>1, <1>3, GoesUp DEF Sound
<1>5. /\ sent[c] \in Seq(Attempts) /\ n \in Nat /\ q \in CallStates /\ paid[c] \in Nat
  BY DEF Typed
<1>6. Len(s) = n + 1 /\ s[n + 1] = [id |-> WireId(c), code |-> code] /\ \A i \in 1..n : s[i] = sent[c][i]
  BY <1>5
<1>7. s # <<>> /\ s[Len(s)].code = code
  BY <1>5, <1>6
<1>8. Worth(c, n) => \A i \in 1..n : Seen(c, s[i].code) \in RetryCodes(MW(c).retry)
  BY <1>6 DEF Worth
<1> DEFINE Told == \A i \in 1..n : Seen(c, s[i].code) \in RetryCodes(MW(c).retry)
<1>18. Told => (Worth(c, Len(sent[c]) - 1))'
  <2>1. Len(s) - 1 = n
    BY <1>5, <1>6
  <2> QED
    BY <2>1, <1>2 DEF Worth
<1>9. sent[c] # <<>> \/ "retry" \in T =>
        /\ "retry" \in T /\ q.tries \in 1..MaxAttempts(MW(c).retry) /\ (q.tries > 1 => Retries(c))
        /\ n < q.tries /\ Worth(c, n) /\ HasRetry(MW(c)) /\ ~Stream(c)
  BY <1>1 DEF Sound, Repeats, MadeOf, Section, MW, Stream
<1>10. HasRetry(MW(c)) => MaxAttempts(MW(c).retry) \in Nat
  BY <1>1, Tries DEF Sound
<1>11. Justified(c)'
  <2> SUFFICES ASSUME n + 1 > 1
               PROVE  /\ MW(c) # None /\ MW(c).retry # None /\ Retries(c) /\ ~Stream(c)
                      /\ n + 1 <= MaxAttempts(MW(c).retry)
                      /\ Told
    BY <1>2, <1>6, <1>18 DEF Justified
  <2>1. sent[c] # <<>> /\ 1 <= n
    BY <1>5
  <2>2. /\ q.tries \in 1..MaxAttempts(MW(c).retry) /\ (q.tries > 1 => Retries(c))
        /\ n < q.tries /\ Worth(c, n) /\ HasRetry(MW(c)) /\ ~Stream(c)
    BY <2>1, <1>9
  <2>3. q.tries > 1 /\ n + 1 <= MaxAttempts(MW(c).retry)
    BY <2>1, <2>2, <1>5, <1>10
  <2> QED
    BY <2>2, <2>3, <1>8 DEF HasRetry
<1>12. Repeats(c)'
  <2>1. ASSUME "retry" \in T
        PROVE  /\ q.tries \in 1..MaxAttempts(MW(c).retry) /\ (q.tries > 1 => Retries(c))
               /\ n + 1 <= q.tries /\ Told /\ Answered(c)'
    <3>1. /\ q.tries \in 1..MaxAttempts(MW(c).retry) /\ (q.tries > 1 => Retries(c))
          /\ n < q.tries /\ Worth(c, n) /\ HasRetry(MW(c))
      BY <2>1, <1>9
    <3>2. n + 1 <= q.tries
      BY <3>1, <1>5, <1>10
    <3>3. Answered(c)'
      BY <1>7 DEF Answered
    <3> QED
      BY <3>1, <3>2, <3>3, <1>8
  <2>3. "retry" \in T => (Worth(c, Len(sent[c]) - 1))'
    BY <2>1, <1>18
  <2> QED
    BY <2>1, <2>3, <1>2, <1>4, <1>6 DEF Repeats, Walking
<1>13. Clean(c)'
  <2>1. code = "panic" => IsLocal(Cfg(c)) /\ ~Stream(c)
    BY DEF Answers, Outcomes
  <2>2. code = "panic" => "invoke" \in T
    BY <2>1, <1>1 DEF MadeOf, Stream
  <2> QED
    BY <2>2, <1>2, <1>4 DEF Clean
<1>14. Truthful(c)'
  BY <1>7 DEF Truthful, Succeeded
<1>15. Counts(c)'
  <2>1. counted[c] = <<>>
    BY <1>1 DEF Sound, Counts
  <2>2. Tracked(c) => "metrics" \in T
    BY <1>1 DEF Tracked, MadeOf, HasMetrics, Section, MW
  <2> QED
    BY <2>1, <2>2, <1>2, <1>4 DEF Counts
<1>16. Pays(c)'
  <2>1. Metered(c) => "limiter" \in T
    BY <1>1 DEF Metered, Bucket, MadeOf, HasLimiter, Section, Cfg
  <2>2. Metered(c) => n < paid[c]
    BY <2>1, <1>1 DEF Sound, Pays
  <2>3. Metered(c) => n + 1 <= paid[c]
    BY <2>2, <1>5
  <2> QED
    BY <2>3, <1>2, <1>6 DEF Pays
<1>17. Named(c)'
  <2> DEFINE w == WireId(c)
             m == q.at
  <2>0. m \in 1..m /\ m - 1 = Len(Path(c)) /\ 1..(m - 1) \subseteq 1..m /\ (Headed(c, m) <=> "requestidHeader" \in T)
    BY <1>1, PrefixEnds DEF Headed, Outside
  <2>1. Id(c) = q.ids[m]
    BY <1>1 DEF Id, Last, Sound, Placed
  <2>2. q.given = "header" => w = OwnId
    BY DEF WireId
  <2>3. q.given = "context" => w \in {OwnId, NoId}
    BY <2>0, <2>1, <1>1 DEF WireId, Sound, Named, Carries
  <2>4. "requestidHeader" \in T /\ q.given # "header" => w = q.ids[m]
    BY <2>1 DEF WireId
  <2>5. "requestidHeader" \in T => w # NoId
    BY <2>0, <2>2, <2>4, <1>1 DEF Sound, Named, Carries, OwnId, NoId
  <2>6. ASSUME "requestidHeader" \in T, NEW k \in 1..n
        PROVE  sent[c][k].id = w
    <3>1. CASE q.given = "header"
      BY <2>2, <3>1 DEF Sound, Named, Labelled
    <3>2. CASE q.given # "header"
      BY <2>0, <2>4, <2>6, <3>2, <1>1 DEF Sound, Named, Carries
    <3> QED
      BY <3>1, <3>2
  <2>7. \A k \in 1..(n + 1) : k \in 1..n \/ k = n + 1
    BY <1>5
  <2> HIDE DEF w, m
  <2>8. s[n + 1].id = w
    BY <1>6 DEF w
  <2>9. "requestidHeader" \in T => \A k \in 1..(n + 1) : s[k].id = w
    BY <2>6, <2>7, <2>8, <1>6
  <2>10. Labelled(c)'
    <3>1. ~IsLocal(Cfg(c)) => "requestidHeader" \in T
      BY <1>1 DEF MadeOf
    <3>2. 1 \in 1..(n + 1)
      BY <1>5
    <3>3. ASSUME NEW k \in 1..(n + 1)
          PROVE  /\ ~IsLocal(Cfg(c)) => s[k].id = s[1].id /\ s[k].id # NoId
                 /\ q.given = "header" => s[k].id = OwnId
                 /\ q.given = "context" => s[k].id \in {OwnId, NoId}
      <4>1. ~IsLocal(Cfg(c)) => s[k].id = s[1].id /\ s[k].id # NoId
        BY <2>5, <2>9, <3>1, <3>2
      <4>2. CASE k = n + 1
        BY <4>1, <4>2, <2>2, <2>3, <2>8
      <4>3. CASE k \in 1..n
        BY <4>1, <4>3, <1>6 DEF Sound, Named, Labelled
      <4> QED
        BY <4>2, <4>3, <2>7
    <3> QED
      BY <3>3, <1>2, <1>6 DEF Labelled, Kept
  <2>11. Carries(c)'
    <3>1. \A i \in 1..(m - 1) : call'[c].ids[i] = q.ids[i]
      BY <1>1, <1>3, GoesUp DEF Sound, m
    <3>2. \A i : Headed(c, i)' = Headed(c, i)
      BY <1>2 DEF Headed
    <3>3. ASSUME NEW i \in 1..(m - 1), Headed(c, i)
          PROVE  "requestidHeader" \in T
      BY <3>3, <1>1, <2>0, PrefixEnds DEF Headed, Prefix, m, Outside
    <3>4. ASSUME NEW i \in 1..(m - 1), Headed(c, i), q.given # "header"
          PROVE  \A k \in 1..(n + 1) : s[k].id = q.ids[i]
      <4>1. "requestidHeader" \in T
        BY <3>3, <3>4
      <4>2. q.ids[m] = q.ids[i]
        BY <4>1, <3>4, <2>0, <1>1 DEF Sound, Named, Carries, m
      <4> QED
        BY <4>1, <4>2, <3>4, <2>4, <2>9
    <3>5. call'[c].at = m - 1 /\ call'[c].given = q.given /\ Len(sent'[c]) = n + 1 /\ sent'[c] = s
      BY <1>1, <1>6 DEF Kept, m
    <3>6. ASSUME NEW i \in 1..(m - 1)
          PROVE  /\ q.given = "context" => q.ids[i] = OwnId
                 /\ Headed(c, i) =>
                      q.ids[i] # NoId /\ \A j \in 1..(m - 1) : Headed(c, j) => q.ids[j] = q.ids[i]
      <4>1. i \in 1..m /\ 1..(m - 1) \subseteq 1..m
        BY <2>0
      <4> QED
        BY <4>1, <1>1 DEF Sound, Named, Carries, m
    <3> QED
      BY <3>1, <3>2, <3>4, <3>5, <3>6 DEF Carries
  <2> QED
    BY <2>10, <2>11 DEF Named
<1> QED
  BY <1>4, <1>11, <1>12, <1>13, <1>14, <1>15, <1>16, <1>17 DEF Sound

\* The caller gets what has come up.
LEMMA ReturnSound ==
    ASSUME Typed, NEW c \in Calls, Sound(c), Return(c)
    PROVE  Sound(c)'
<1> DEFINE q == call[c]
           to == IF Stream(c) /\ q.code = "OK" THEN "open" ELSE "done"
<1>1. /\ Walking(c) /\ q.pc = "up" /\ q.pc # "idle" /\ q.at = 0
      /\ q \in CallStates
  BY DEF Return, Walking, Typed
<1>2. /\ call' = [call EXCEPT ![c] = [q EXCEPT !.pc = to]] /\ config' = config /\ conn' = conn
      /\ sent' = sent /\ paid' = paid /\ counted' = counted
  BY DEF Return, Moves
<1>3. /\ call'[c] = [q EXCEPT !.pc = to] /\ call'[c].pc = to /\ call'[c].code = q.code /\ Kept(c)
  BY <1>1, <1>2 DEF Kept, Typed, CallStates
<1>4. /\ MW(c)' = MW(c) /\ Cfg(c)' = Cfg(c) /\ Path(c)' = Path(c) /\ Stream(c)' = Stream(c)
      /\ Tracked(c)' = Tracked(c) /\ Metered(c)' = Metered(c)
  BY <1>3, KeptSame
<1>5. Passed(c) = {}
  <2>1. Path(c) \in Seq(Stages)
    BY <1>1, ChainOf DEF Sound
  <2> QED
    BY <2>1, <1>1, PrefixEnds DEF Passed
<1>6. to \in {"open", "done"} /\ (to = "open" <=> Stream(c) /\ q.code = "OK")
  OBVIOUS
<1> HIDE DEF to
<1>7. Placed(c)'
  BY <1>1, <1>2, <1>3, <1>6 DEF Sound, Placed, Kept, Usable, Walking
<1>8. Justified(c)'
  BY <1>2, <1>3, JustifiedSame DEF Sound
<1>9. Repeats(c)' /\ Clean(c)'
  BY <1>3, <1>6 DEF Repeats, Clean, Walking
<1>10. Truthful(c)'
  BY <1>1, <1>2, <1>3, <1>4, <1>6 DEF Sound, Truthful, Succeeded
<1>11. Counts(c)'
  <2>1. RefusedOutside(c)' = RefusedOutside(c)
    BY <1>2, <1>3, <1>4 DEF RefusedOutside
  <2>2. CASE ~Tracked(c)
    BY <2>2, <1>1, <1>2, <1>3, <1>4, <1>6 DEF Sound, Counts
  <2>3. CASE Tracked(c)
    <3>1. IF Stream(c) /\ q.code = "OK" THEN counted[c] = <<>>
          ELSE counted[c] = <<q.code>> \/ (RefusedOutside(c) /\ counted[c] = <<>>)
      BY <2>3, <1>1, <1>5 DEF Sound, Counts
    <3> QED
      BY <3>1, <2>1, <2>3, <1>2, <1>3, <1>4, <1>6 DEF Counts
  <2> QED
    BY <2>2, <2>3
<1>12. Pays(c)'
  BY <1>1, <1>2, <1>3, <1>4, <1>6 DEF Sound, Pays
<1>13. Named(c)'
  BY <1>2, <1>3, <1>4, <1>6 DEF Sound, Named, Carries, Labelled, Walking, Kept
<1> QED
  BY <1>7, <1>8, <1>9, <1>10, <1>11, <1>12, <1>13 DEF Sound

\* An open stream ends.
LEMMA StreamSound ==
    ASSUME Typed, NEW c \in Calls, Sound(c), NEW code, StreamEvent(c, code)
    PROVE  Sound(c)'
<1> DEFINE q == call[c]
           next == IF q.pc = "open" THEN [q EXCEPT !.pc = "ended", !.code = code] ELSE [q EXCEPT !.pc = "done"]
<1>1. q.pc \in {"open", "ended"} /\ q \in CallStates /\ counted \in [Calls -> Seq(Codes)]
  BY DEF StreamEvent, Typed
<1>2. /\ call' = [call EXCEPT ![c] = next] /\ config' = config /\ conn' = conn
      /\ sent' = sent /\ paid' = paid
      /\ IF Tracked(c) /\ q.pc = "open" THEN counted' = [counted EXCEPT ![c] = Append(@, code)]
         ELSE counted' = counted
  BY DEF StreamEvent, Moves, Finish
<1>3. /\ call'[c] = next /\ Kept(c) /\ call'[c].pc \in {"ended", "done"}
      /\ q.pc = "open" => call'[c].pc = "ended" /\ call'[c].code = code
      /\ q.pc = "ended" => call'[c].pc = "done" /\ call'[c].code = q.code
  BY <1>1, <1>2 DEF Kept, Typed, CallStates
<1>4. /\ MW(c)' = MW(c) /\ Cfg(c)' = Cfg(c) /\ Stream(c)' = Stream(c)
      /\ Tracked(c)' = Tracked(c) /\ Metered(c)' = Metered(c)
  BY <1>3, KeptSame
<1>5. Stream(c)
  BY <1>1 DEF Sound, Counts
<1>6. Placed(c)'
  BY <1>1, <1>2, <1>3 DEF Sound, Placed, Kept, Usable, Walking
<1>7. Justified(c)'
  BY <1>2, <1>3, JustifiedSame DEF Sound
<1>8. Repeats(c)' /\ Clean(c)'
  BY <1>3 DEF Repeats, Clean, Walking
<1>9. Truthful(c)'
  BY <1>3, <1>4, <1>5 DEF Truthful
<1>10. Counts(c)'
  <2>1. CASE ~Tracked(c)
    <3>1. counted'[c] = <<>>
      BY <2>1, <1>1, <1>2 DEF Sound, Counts
    <3> QED
      BY <2>1, <3>1, <1>3, <1>4, <1>5 DEF Counts
  <2>2. CASE Tracked(c) /\ q.pc = "open"
    <3>1. counted[c] = <<>>
      BY <2>2 DEF Sound, Counts
    <3>2. counted'[c] = <<code>>
      BY <2>2, <3>1, <1>1, <1>2
    <3> QED
      BY <2>2, <3>2, <1>3, <1>4, <1>5 DEF Counts
  <2>3. CASE Tracked(c) /\ q.pc = "ended"
    <3>1. counted'[c] = <<q.code>>
      BY <2>3, <1>2 DEF Sound, Counts
    <3> QED
      BY <2>3, <3>1, <1>3, <1>4 DEF Counts
  <2> QED
    BY <2>1, <2>2, <2>3, <1>1
<1>11. Pays(c)'
  BY <1>1, <1>2, <1>3, <1>4 DEF Sound, Pays
<1>12. Named(c)'
  BY <1>2, <1>3, <1>4 DEF Sound, Named, Carries, Labelled, Walking, Kept
<1> QED
  BY <1>6, <1>7, <1>8, <1>9, <1>10, <1>11, <1>12 DEF Sound

\* A call is made.
LEMMA BeginSound ==
    ASSUME Typed, ConnsBuilt, NEW c \in Calls, Sound(c), NEW k \in Conns, NEW request \in Requests[c],
           Begin(c, k, request)
    PROVE  Sound(c)'
<1> DEFINE there == conn[k] \in {"ready", "closed"}
           first == IF request.given = "context" THEN OwnId ELSE NoId
           q == call'[c]
<1>1. /\ call[c].pc = "idle" /\ conn[k] # "none" /\ config' = config /\ conn' = conn
      /\ sent' = sent /\ paid' = paid /\ counted' = counted
      /\ sent[c] = <<>> /\ paid[c] = 0 /\ counted[c] = <<>> /\ Len(sent[c]) = 0
  BY DEF Begin, Moves, Sound, Placed
<1>2. request.method \in Methods /\ request.given \in {"none", "context", "header"}
  BY ClientCallConstants
<1>3. call' = [call EXCEPT ![c] = [NewCall EXCEPT
                !.pc = IF there THEN "down" ELSE "done", !.code = IF there THEN "OK" ELSE "Unknown",
                !.conn = k, !.method = request.method, !.given = request.given,
                !.patient = request.patient, !.at = 1, !.ids = <<first>>]]
  BY DEF Begin, Moves
<1>4. /\ q.pc = (IF there THEN "down" ELSE "done") /\ q.code = (IF there THEN "OK" ELSE "Unknown")
      /\ q.conn = k /\ q.method = request.method /\ q.given = request.given /\ q.at = 1
      /\ q.ids = <<first>>
  BY <1>3 DEF NewCall, Typed
<1>5. Len(q.ids) = 1 /\ q.ids[1] = first
  BY <1>4
<1> HIDE DEF there
<1>6. there => ~BuildFails(config[k]) /\ Len(Chain(config[k], q.method)) \in Nat
  BY ChainStages DEF ConnsBuilt, Usable, Rises, there
<1>7. there => 1 \in 1..(Len(Path(c)') + 1)
  <2>1. Path(c)' = Chain(config[k], q.method)
    BY <1>1, <1>2, <1>4 DEF Typed, Path, Chains
  <2> QED
    BY <1>6, <2>1
<1>8. Placed(c)'
  BY <1>1, <1>2, <1>4, <1>5, <1>6, <1>7 DEF Placed, Walking, Usable, Cfg, there
<1>9. Prefix(Path(c), 0)' = {}
  <2>1. 1..0 = {}
    OBVIOUS
  <2> QED
    BY <2>1 DEF Prefix
<1>10. there => Passed(c)' = {}
  BY <1>4, <1>9 DEF Passed
<1>11. Justified(c)' /\ Clean(c)'
  BY <1>1, <1>4 DEF Justified, Clean
<1>12. Repeats(c)'
  BY <1>1, <1>4, <1>10 DEF Repeats, Walking
<1>13. Truthful(c)'
  BY <1>1, <1>4 DEF Truthful, Succeeded
<1>14. Counts(c)'
  <2>1. ~there => conn[k] = "failed"
    BY <1>1 DEF Typed, there
  <2> QED
    BY <2>1, <1>1, <1>4 DEF Counts
<1>15. Pays(c)'
  BY <1>1, <1>4, <1>10 DEF Pays
<1>16. Named(c)'
  <2>1. \A i \in 1..1 : i = 1 /\ ~(Headed(c, i)')
    BY <1>9 DEF Headed
  <2>2. Carries(c)'
    BY <2>1, <1>4, <1>5 DEF Carries, Walking
  <2> QED
    BY <2>2, <1>1 DEF Named, Labelled
<1> QED
  BY <1>8, <1>11, <1>12, <1>13, <1>14, <1>15, <1>16 DEF Sound

\* The steps of others, and of connections.
LEMMA Untouched ==
    ASSUME Typed, NEW c \in Calls, Sound(c), config' = config, call'[c] = call[c],
           sent'[c] = sent[c], counted'[c] = counted[c], paid'[c] = paid[c],
           \A k \in Conns : \/ conn'[k] = conn[k]
                            \/ conn[k] = "none" /\ conn'[k] \in {"ready", "failed"}
                            \/ conn[k] = "ready" /\ conn'[k] = "closed"
    PROVE  Sound(c)'
<1>1. /\ MW(c)' = MW(c) /\ Cfg(c)' = Cfg(c) /\ Path(c)' = Path(c)
      /\ Stream(c)' = Stream(c) /\ Retries(c)' = Retries(c) /\ Skipped(c, MW(c).metrics)' = Skipped(c, MW(c).metrics)
  BY DEF MW, Cfg, Path, Stream, Retries, Skipped
<1>2. Tracked(c)' = Tracked(c) /\ Metered(c)' = Metered(c) /\ RefusedOutside(c)' = RefusedOutside(c)
  BY <1>1 DEF Tracked, Metered, Bucket, Skipped, RefusedOutside
<1>3. Passed(c)' = Passed(c) /\ Walking(c)' = Walking(c) /\ \A i : Headed(c, i)' = Headed(c, i)
  BY <1>1 DEF Passed, Walking, Headed
<1>4. \A code : Seen(c, code)' = Seen(c, code)
  BY <1>1 DEF Seen
<1>5. \A n : Worth(c, n)' = Worth(c, n)
  BY <1>1, <1>4 DEF Worth
<1>6. Answered(c)' = Answered(c)
  BY <1>4 DEF Answered
<1>7. Placed(c)'
  BY <1>1, <1>3 DEF Sound, Placed, Usable, Walking
<1>8. Justified(c)'
  BY <1>1, <1>5 DEF Sound, Justified
<1>9. Repeats(c)' /\ Clean(c)'
  BY <1>1, <1>3, <1>5, <1>6 DEF Sound, Repeats, Clean
<1>10. Truthful(c)'
  BY <1>1 DEF Sound, Truthful, Succeeded
<1>11. Counts(c)'
  <2>1. call[c].pc # "idle" => (conn'[call[c].conn] = "failed" <=> conn[call[c].conn] = "failed")
    BY DEF Sound, Placed
  <2> QED
    BY <2>1, <1>1, <1>2, <1>3 DEF Sound, Counts
<1>12. Pays(c)'
  BY <1>2, <1>3 DEF Sound, Pays
<1>13. Named(c)'
  BY <1>1, <1>3 DEF Sound, Named, Carries, Labelled
<1> QED
  BY <1>7, <1>8, <1>9, <1>10, <1>11, <1>12, <1>13 DEF Sound

-----------------------------------------------------------------------------
(* The steps of a call, each of some kind. *)

\* What the steps of one call leave alone.
Alone(c) ==
    /\ config' = config /\ conn' = conn /\ refills' = refills
    /\ \A d \in Calls \ {c} : /\ call'[d] = call[d] /\ sent'[d] = sent[d]
                              /\ counted'[d] = counted[d] /\ paid'[d] = paid[d]

LEMMA DownStep ==
    ASSUME Typed, NEW c \in Calls, Placed(c), NEW way, NEW S, Meets(c, way, S)
    PROVE  /\ Id(c) \in Nat /\ call[c] \in CallStates
           /\ \A id \in Nat : LET to == Down(c, id) IN
                /\ to \in CallStates
                /\ to.pc = "down" /\ to.at = call[c].at + 1 /\ to.ids = Append(call[c].ids, id)
                /\ to.conn = call[c].conn /\ to.method = call[c].method /\ to.given = call[c].given
                /\ to.tries = call[c].tries /\ to.made = call[c].made
<1>1. Walking(c) /\ call[c].at \in 1..Len(Path(c))
  BY AtStage
<1>2. call[c] \in CallStates
  BY DEF Typed
<1>3. call[c].ids \in Seq(Nat) /\ Len(call[c].ids) = call[c].at /\ call[c].at \in Nat
  BY <1>1, <1>2 DEF Placed, CallStates
<1>4. Id(c) \in Nat
  BY <1>1, <1>3 DEF Id, Last
<1>5. ASSUME NEW id \in Nat
      PROVE  LET to == Down(c, id) IN
                /\ to \in CallStates
                /\ to.pc = "down" /\ to.at = call[c].at + 1 /\ to.ids = Append(call[c].ids, id)
                /\ to.conn = call[c].conn /\ to.method = call[c].method /\ to.given = call[c].given
                /\ to.tries = call[c].tries /\ to.made = call[c].made
  <2>1. Append(call[c].ids, id) \in Seq(Nat) /\ call[c].at + 1 \in Nat
    BY <1>3
  <2> QED
    BY <1>2, <2>1 DEF Down, CallStates
<1> QED
  BY <1>2, <1>4, <1>5

LEMMA UpStep ==
    ASSUME Typed, NEW c \in Calls, Placed(c), Walking(c), call[c].at # 0, NEW code \in Codes
    PROVE  LET to == Up(c, code) IN
                /\ to \in CallStates
                /\ to.pc = "up" /\ to.at = call[c].at - 1 /\ to.ids = Front(call[c].ids) /\ to.code = code
                /\ to.conn = call[c].conn /\ to.method = call[c].method /\ to.given = call[c].given
                /\ to.tries = call[c].tries
<1>1. call[c] \in CallStates
  BY DEF Typed
<1>2. call[c].ids \in Seq(Nat) /\ Len(call[c].ids) = call[c].at /\ call[c].at \in Nat
  BY <1>1 DEF Placed, CallStates
<1>3. Front(call[c].ids) \in Seq(Nat) /\ call[c].at - 1 \in Nat
  BY <1>2 DEF Front
<1> QED
  BY <1>1, <1>3 DEF Up, CallStates

\* A move by one call.
LEMMA MoveTyped ==
    ASSUME Typed, NEW c \in Calls, NEW to \in CallStates, Moves(c, to),
           tokens' \in [Conns -> Nat], gauge' \in [Methods -> 0..1], sent' \in [Calls -> Seq(Attempts)],
           paid' \in [Calls -> Nat], counted' \in [Calls -> Seq(Codes)]
    PROVE  Typed' /\ call'[c] = to /\ \A d \in Calls \ {c} : call'[d] = call[d]
<1>1. call' = [call EXCEPT ![c] = to] /\ config' = config /\ conn' = conn /\ refills' = refills
  BY DEF Moves
<1>2. call' \in [Calls -> CallStates]
  BY <1>1 DEF Typed
<1> QED
  BY <1>1, <1>2 DEF Typed

LEMMA CodesKnown ==
    /\ Outcomes \subseteq Codes
    /\ {"Unavailable", "ResourceExhausted", "NotFound", "Internal", "Unknown", "Canceled",
        "Unimplemented", "panic", "OK"} = Codes
BY DEF Codes, Outcomes, RetryCodeNames

LEMMA PassStep ==
    ASSUME Typed, NEW c \in Calls, Sound(c), Pass(c)
    PROVE  Typed' /\ Alone(c) /\ Sound(c)'
<1>1. tokens' = tokens /\ gauge' = gauge /\ sent' = sent /\ paid' = paid /\ counted' = counted
  BY DEF Pass
<1>2. call[c] \in CallStates /\ call[c].code \in Codes
  BY DEF Typed, CallStates
<1> DEFINE ups   == {"requestid", "requestidHeader", "breaker", "limiter", "newStream"} \cup Passive
           downs == {"recovery"} \cup Passive
<1>3. CASE Meets(c, "up", ups) /\ Moves(c, Up(c, call[c].code))
  <2>1. /\ Walking(c) /\ call[c].at # 0 /\ Here(c) \notin {"recovery", "invoke", "metrics"}
        /\ Here(c) \in ups
    BY <1>3, AtStage DEF Sound, Passive
  <2>2. Typed' /\ call'[c] = Up(c, call[c].code) /\ \A d \in Calls \ {c} : call'[d] = call[d]
    BY <2>1, <1>1, <1>2, <1>3, UpStep, MoveTyped DEF Sound, Typed
  <2>3. Alone(c) /\ Kept(c)
    BY <2>1, <2>2, <1>1, <1>2, <1>3, UpStep DEF Sound, Alone, Kept, Moves
  <2>4. Mended(c) = call[c].code
    BY <2>1 DEF Mended
  <2> HIDE DEF ups
  <2>5. Sound(c)'
    BY <2>1, <2>2, <2>3, <2>4, <1>1, <1>2, <1>3, UpStep, Returns DEF Sound
  <2> QED
    BY <2>2, <2>3, <2>5
<1>4. CASE Meets(c, "down", downs) /\ Moves(c, Down(c, Id(c)))
  <2>1. Here(c) \notin {"retry", "limiter", "requestid", "requestidHeader"} /\ Here(c) \in downs
    BY <1>4, AtStage DEF Sound, Passive
  <2> HIDE DEF downs
  <2>2. Typed' /\ call'[c] = Down(c, Id(c)) /\ \A d \in Calls \ {c} : call'[d] = call[d]
    BY <1>1, <1>2, <1>4, DownStep, MoveTyped DEF Sound, Typed
  <2>3. Alone(c) /\ Kept(c)
    BY <2>2, <1>1, <1>4, DownStep DEF Sound, Alone, Kept, Moves
  <2>4. Keeps(c, Id(c)) /\ paid[c] \in Nat /\ paid[c] <= paid[c]
    BY <2>1 DEF Keeps, Typed
  <2>5. Sound(c)'
    BY <2>1, <2>2, <2>3, <2>4, <1>1, <1>4, DownStep, Descends DEF Sound
  <2> QED
    BY <2>2, <2>3, <2>5
<1> QED
  BY <1>3, <1>4 DEF Pass

LEMMA RequestIdStep ==
    ASSUME Typed, NEW c \in Calls, Sound(c), RequestId(c)
    PROVE  Typed' /\ Alone(c) /\ Sound(c)'
<1> DEFINE S    == {"requestid", "requestidHeader"}
           id   == IF Id(c) # NoId THEN Id(c) ELSE OwnId + call[c].made + 1
           made == IF Id(c) # NoId THEN call[c].made ELSE call[c].made + 1
           to   == [Down(c, id) EXCEPT !.made = made]
<1>1. /\ Meets(c, "down", S) /\ tokens' = tokens /\ gauge' = gauge /\ sent' = sent
      /\ paid' = paid /\ counted' = counted
  BY DEF RequestId
<1>2. Id(c) \in Nat /\ call[c] \in CallStates /\ call[c].made \in Nat /\ Here(c) \in S
  BY <1>1, DownStep, AtStage DEF Sound, CallStates
<1>3. id \in Nat /\ made \in Nat /\ id # NoId
  BY <1>2 DEF OwnId, NoId
<1>4. Keeps(c, id)
  BY <1>2, <1>3 DEF Keeps
<1>5. Moves(c, to)
  <2>1. CASE Id(c) # NoId
    <3>1. Down(c, id).made = made /\ Down(c, id) \in CallStates
      BY <2>1, <1>1, <1>3, DownStep DEF Sound
    <3>2. to = Down(c, id)
      BY <3>1 DEF CallStates
    <3> QED
      BY <2>1, <3>2 DEF RequestId
  <2>2. CASE Id(c) = NoId
    <3>1. Down(c, id).made = call[c].made /\ Down(c, id) \in CallStates
      BY <1>1, <1>3, DownStep DEF Sound
    <3>2. to = [Down(c, id) EXCEPT !.made = @ + 1]
      BY <2>2, <3>1
    <3> QED
      BY <2>2, <3>2 DEF RequestId
  <2> QED
    BY <2>1, <2>2
<1> HIDE DEF id, made
<1>6. /\ to \in CallStates
      /\ to.pc = "down" /\ to.at = call[c].at + 1 /\ to.ids = Append(call[c].ids, id)
      /\ to.conn = call[c].conn /\ to.method = call[c].method /\ to.given = call[c].given
      /\ to.tries = call[c].tries
  <2>1. /\ Down(c, id) \in CallStates
        /\ Down(c, id).pc = "down" /\ Down(c, id).at = call[c].at + 1 /\ Down(c, id).ids = Append(call[c].ids, id)
        /\ Down(c, id).conn = call[c].conn /\ Down(c, id).method = call[c].method
        /\ Down(c, id).given = call[c].given /\ Down(c, id).tries = call[c].tries
    BY <1>1, <1>3, DownStep DEF Sound
  <2> QED
    BY <2>1, <1>3 DEF CallStates
<1> HIDE DEF to, S
<1>7. Typed' /\ call'[c] = to /\ \A d \in Calls \ {c} : call'[d] = call[d]
  BY <1>1, <1>5, <1>6, MoveTyped DEF Typed
<1>8. Alone(c) /\ Kept(c)
  BY <1>1, <1>5, <1>6, <1>7 DEF Alone, Kept, Moves
<1>9. paid[c] \in Nat /\ paid[c] <= paid[c] /\ Here(c) \notin {"retry", "limiter"}
  BY <1>2 DEF Typed, S
<1>10. Sound(c)'
  BY <1>1, <1>3, <1>4, <1>6, <1>7, <1>8, <1>9, Descends
<1> QED
  BY <1>7, <1>8, <1>10

\* A step down that leaves tries and ids alone.
LEMMA DownSound ==
    ASSUME Typed, NEW c \in Calls, Sound(c), NEW S, Meets(c, "down", S), Moves(c, Down(c, Id(c))),
           Here(c) \notin {"retry", "requestid", "requestidHeader"},
           tokens' \in [Conns -> Nat], gauge' \in [Methods -> 0..1], sent' = sent, counted' = counted,
           paid' \in [Calls -> Nat], \A d \in Calls \ {c} : paid'[d] = paid[d], paid[c] <= paid'[c],
           Here(c) = "limiter" /\ Metered(c) => paid'[c] = paid[c] + 1
    PROVE  Typed' /\ Alone(c) /\ Sound(c)'
<1>1. Typed' /\ call'[c] = Down(c, Id(c)) /\ \A d \in Calls \ {c} : call'[d] = call[d]
  BY DownStep, MoveTyped DEF Sound, Typed
<1>2. Alone(c) /\ Kept(c)
  BY <1>1, DownStep DEF Sound, Alone, Kept, Moves
<1>3. Keeps(c, Id(c)) /\ paid'[c] \in Nat
  BY DEF Keeps
<1>4. Sound(c)'
  BY <1>1, <1>2, <1>3, DownStep, Descends DEF Sound
<1> QED
  BY <1>1, <1>2, <1>4

\* A step up that refuses.
LEMMA RefusalSound ==
    ASSUME Typed, NEW c \in Calls, Sound(c), NEW code \in Codes \ {"OK", "panic"}, Moves(c, Up(c, code)),
           \/ Meets(c, "down", {"breaker", "retry", "limiter", "invoke", "newStream"}) /\ Here(c) # "breaker"
           \/ Meets(c, "down", {"breaker"}) /\ code = "Unavailable"
           \/ Arrives(c),
           tokens' = tokens, gauge' = gauge, sent' = sent, counted' = counted, paid' = paid
    PROVE  Typed' /\ Alone(c) /\ Sound(c)'
<1>1. /\ Walking(c) /\ call[c].at # 0
      /\ Meets(c, "down", {"breaker", "retry", "limiter", "invoke", "newStream"}) \/ Arrives(c)
      /\ Meets(c, "down", {"breaker"}) => code = "Unavailable"
  <2>1. CASE Arrives(c)
    <3>1. call[c].at = Len(Path(c)) + 1 /\ Len(Path(c)) \in Nat /\ Walking(c)
      BY <2>1, AtService DEF Sound
    <3>2. call[c].at \notin DOMAIN Path(c)
      BY <3>1, ChainOf DEF Sound
    <3> QED
      BY <2>1, <3>1, <3>2 DEF Meets
  <2>2. CASE Meets(c, "down", {"breaker", "retry", "limiter", "invoke", "newStream"}) /\ Here(c) # "breaker"
    <3>1. Walking(c) /\ call[c].at # 0
      BY <2>2, AtStage DEF Sound
    <3>2. ~Meets(c, "down", {"breaker"})
      BY <2>2 DEF Meets, Here
    <3> QED
      BY <2>2, <3>1, <3>2
  <2>3. CASE Meets(c, "down", {"breaker"}) /\ code = "Unavailable"
    <3>1. Meets(c, "down", {"breaker", "retry", "limiter", "invoke", "newStream"})
      BY <2>3 DEF Meets
    <3> QED
      BY <2>3, <3>1, AtStage DEF Sound
  <2> QED
    BY <2>1, <2>2, <2>3
<1>2. Typed' /\ call'[c] = Up(c, code) /\ \A d \in Calls \ {c} : call'[d] = call[d]
  BY <1>1, UpStep, MoveTyped DEF Sound, Typed
<1>3. Alone(c) /\ Kept(c)
  BY <1>1, <1>2, UpStep DEF Sound, Alone, Kept, Moves
<1>4. Sound(c)'
  BY <1>1, <1>2, <1>3, UpStep, Refuses DEF Sound
<1> QED
  BY <1>2, <1>3, <1>4

\* A step up through a stage.
LEMMA UpSound ==
    ASSUME Typed, NEW c \in Calls, Sound(c), NEW S, Meets(c, "up", S), Moves(c, Up(c, Mended(c))),
           tokens' = tokens, gauge' \in [Methods -> 0..1], sent' = sent, paid' = paid,
           counted' \in [Calls -> Seq(Codes)], \A d \in Calls \ {c} : counted'[d] = counted[d],
           counted'[c] = IF Here(c) = "metrics" /\ Tracked(c) /\ ~(Stream(c) /\ call[c].code = "OK")
                         THEN Append(counted[c], call[c].code) ELSE counted[c]
    PROVE  Typed' /\ Alone(c) /\ Sound(c)'
<1>1. Walking(c) /\ call[c].at # 0
  BY AtStage DEF Sound
<1>2. Mended(c) \in Codes
  <2>1. call[c].code \in Codes
    BY DEF Typed, CallStates
  <2> QED
    BY <2>1, CodesKnown DEF Mended
<1>3. Typed' /\ call'[c] = Up(c, Mended(c)) /\ \A d \in Calls \ {c} : call'[d] = call[d]
  BY <1>1, <1>2, UpStep, MoveTyped DEF Sound, Typed
<1>4. Alone(c) /\ Kept(c)
  BY <1>1, <1>2, <1>3, UpStep DEF Sound, Alone, Kept, Moves
<1>5. Sound(c)'
  BY <1>1, <1>2, <1>3, <1>4, UpStep, Returns DEF Sound
<1> QED
  BY <1>3, <1>4, <1>5

LEMMA BreakerStep ==
    ASSUME Typed, NEW c \in Calls, Sound(c), NEW open \in BOOLEAN, Breaker(c, open)
    PROVE  Typed' /\ Alone(c) /\ Sound(c)'
<1>1. /\ Meets(c, "down", {"breaker"}) /\ tokens' = tokens /\ gauge' = gauge /\ sent' = sent
      /\ paid' = paid /\ counted' = counted
      /\ Moves(c, IF open THEN Up(c, "Unavailable") ELSE Down(c, Id(c)))
  BY DEF Breaker
<1>2. Here(c) = "breaker" /\ paid[c] \in Nat /\ paid[c] <= paid[c]
  BY <1>1, AtStage DEF Sound, Typed
<1>3. CASE open
  BY <1>1, <1>3, CodesKnown, RefusalSound
<1>4. CASE ~open
  BY <1>1, <1>2, <1>4, DownSound DEF Typed
<1> QED
  BY <1>3, <1>4

LEMMA RecoverStep ==
    ASSUME Typed, NEW c \in Calls, Sound(c), Recover(c)
    PROVE  Typed' /\ Alone(c) /\ Sound(c)'
<1>1. Meets(c, "up", {"recovery"}) /\ Here(c) = "recovery"
  BY AtStage DEF Recover, Sound
<1>2. Mended(c) = IF call[c].code = "panic" THEN "Internal" ELSE call[c].code
  BY <1>1 DEF Mended
<1> QED
  BY <1>1, <1>2, UpSound DEF Recover, Typed

LEMMA InvokeReturnsStep ==
    ASSUME Typed, NEW c \in Calls, Sound(c), InvokeReturns(c)
    PROVE  Typed' /\ Alone(c) /\ Sound(c)'
<1>1. Meets(c, "up", {"invoke"}) /\ Here(c) = "invoke"
  BY AtStage DEF InvokeReturns, Sound
<1>2. Mended(c) = IF call[c].code = "panic" THEN "Unknown" ELSE call[c].code
  BY <1>1 DEF Mended
<1> QED
  BY <1>1, <1>2, UpSound DEF InvokeReturns, Typed

\* A stage of the metrics is there for the calls that are tracked, or skipped.
LEMMA TrackedHere ==
    ASSUME Typed, NEW c \in Calls, Sound(c), NEW way, Meets(c, way, {"metrics"})
    PROVE  /\ Here(c) = "metrics" /\ (Tracked(c) <=> ~Skipped(c, MW(c).metrics))
           /\ call[c].method \in Methods /\ (way = "up" => call[c].code # "panic")
<1>1. /\ Here(c) = "metrics" /\ Walking(c) /\ Around(c, ToSet(Path(c)), Outside(c), Here(c))
      /\ Passed(c) = (IF way = "down" THEN Outside(c) ELSE Outside(c) \cup {Here(c)}) /\ call[c].pc = way
  BY AtStage DEF Sound
<1>2. HasMetrics(MW(c))
  BY <1>1 DEF Around, MadeOf, Section, MW
<1>3. call[c].method \in Methods
  BY <1>1 DEF Sound, Placed, Walking
<1>4. way = "up" /\ call[c].code = "panic" => "invoke" \in Outside(c)
  BY <1>1 DEF Sound, Clean
<1>5. "invoke" \notin Outside(c)
  <2> DEFINE R == Rank(Cfg(c), call[c].method)
  <2>1. CASE Outer(Cfg(c), call[c].method)
    BY <2>1, <1>1 DEF Around, MadeOf, Outer
  <2>2. CASE ~Outer(Cfg(c), call[c].method)
    <3>1. R["metrics"] < R["invoke"] /\ R \in [Stages -> Nat] /\ {"metrics", "invoke"} \subseteq Stages
      BY <2>2, Orders DEF Stages
    <3>2. Rises(Path(c), R, 0, 19) /\ call[c].at \in 1..Len(Path(c))
      BY <1>1, ChainOf, AtStage DEF Sound
    <3>3. \A y \in Outside(c) : R[y] < R["metrics"]
      BY <1>1, <3>1, <3>2, PrefixOrder DEF Outside, Here
    <3>4. R["metrics"] \in Nat /\ R["invoke"] \in Nat
      BY <3>1
    <3> QED
      BY <3>1, <3>3, <3>4
  <2> QED
    BY <2>1, <2>2
<1> QED
  BY <1>1, <1>2, <1>3, <1>4, <1>5 DEF Tracked, HasMetrics

LEMMA MetricsStartStep ==
    ASSUME Typed, NEW c \in Calls, Sound(c), MetricsStart(c)
    PROVE  Typed' /\ Alone(c) /\ Sound(c)'
<1>1. Here(c) = "metrics" /\ call[c].method \in Methods /\ Meets(c, "down", {"metrics"})
  BY TrackedHere DEF MetricsStart
<1>2. gauge' \in [Methods -> 0..1]
  BY <1>1 DEF MetricsStart, Typed
<1>3. paid[c] \in Nat /\ paid[c] <= paid[c]
  BY DEF Typed
<1> QED
  BY <1>1, <1>2, <1>3, DownSound DEF MetricsStart, Typed

LEMMA MetricsEndStep ==
    ASSUME Typed, NEW c \in Calls, Sound(c), MetricsEnd(c)
    PROVE  Typed' /\ Alone(c) /\ Sound(c)'
<1>1. /\ Here(c) = "metrics" /\ (Tracked(c) <=> ~Skipped(c, MW(c).metrics)) /\ call[c].method \in Methods
      /\ Meets(c, "up", {"metrics"}) /\ call[c].code # "panic"
  BY TrackedHere DEF MetricsEnd
<1>2. Mended(c) = call[c].code /\ call[c].code \in Codes
  BY <1>1 DEF Mended, Typed, CallStates
<1>3. /\ counted' \in [Calls -> Seq(Codes)] /\ gauge' \in [Methods -> 0..1]
      /\ \A d \in Calls \ {c} : counted'[d] = counted[d]
      /\ counted'[c] = IF Here(c) = "metrics" /\ Tracked(c) /\ ~(Stream(c) /\ call[c].code = "OK")
                       THEN Append(counted[c], call[c].code) ELSE counted[c]
  <2>1. CASE Skipped(c, MW(c).metrics) \/ (Stream(c) /\ call[c].code = "OK")
    BY <2>1, <1>1 DEF MetricsEnd, Typed
  <2>2. CASE ~(Skipped(c, MW(c).metrics) \/ (Stream(c) /\ call[c].code = "OK"))
    <3>1. Finish(c, call[c].code)
      BY <2>2 DEF MetricsEnd
    <3>2. Append(counted[c], call[c].code) \in Seq(Codes)
      BY <1>2 DEF Typed
    <3> QED
      BY <2>2, <3>1, <3>2, <1>1 DEF Finish, Typed
  <2> QED
    BY <2>1, <2>2
<1> QED
  BY <1>1, <1>2, <1>3, UpSound DEF MetricsEnd

LEMMA RetryStartStep ==
    ASSUME Typed, NEW c \in Calls, Sound(c), RetryStart(c)
    PROVE  Typed' /\ Alone(c) /\ Sound(c)'
<1>1. /\ Meets(c, "down", {"retry"}) /\ tokens' = tokens /\ gauge' = gauge /\ sent' = sent
      /\ paid' = paid /\ counted' = counted
  BY DEF RetryStart
<1>2. Here(c) = "retry" /\ Id(c) \in Nat /\ paid[c] \in Nat /\ paid[c] <= paid[c]
  BY <1>1, AtStage, DownStep DEF Sound, Typed
<1> DEFINE to == [Down(c, Id(c)) EXCEPT !.tries = 1]
<1>3. CASE Moves(c, to)
  <2>1. /\ to \in CallStates
        /\ to.pc = "down" /\ to.at = call[c].at + 1 /\ to.ids = Append(call[c].ids, Id(c))
        /\ to.conn = call[c].conn /\ to.method = call[c].method /\ to.given = call[c].given
        /\ to.tries = 1
    <3>1. /\ Down(c, Id(c)) \in CallStates
          /\ Down(c, Id(c)).pc = "down" /\ Down(c, Id(c)).at = call[c].at + 1
          /\ Down(c, Id(c)).ids = Append(call[c].ids, Id(c))
          /\ Down(c, Id(c)).conn = call[c].conn /\ Down(c, Id(c)).method = call[c].method
          /\ Down(c, Id(c)).given = call[c].given
      BY <1>1, <1>2, DownStep DEF Sound
    <3> QED
      BY <3>1 DEF CallStates
  <2> HIDE DEF to
  <2>2. Typed' /\ call'[c] = to /\ \A d \in Calls \ {c} : call'[d] = call[d]
    BY <1>1, <1>3, <2>1, MoveTyped DEF Typed
  <2>3. Alone(c) /\ Kept(c)
    BY <1>1, <1>3, <2>1, <2>2 DEF Alone, Kept, Moves
  <2>4. Keeps(c, Id(c))
    BY <1>2 DEF Keeps
  <2>5. Sound(c)'
    BY <1>1, <1>2, <2>1, <2>2, <2>3, <2>4, Descends
  <2> QED
    BY <2>2, <2>3, <2>5
<1>4. CASE Moves(c, Up(c, "Canceled"))
  <2>1. Meets(c, "down", {"breaker", "retry", "limiter", "invoke", "newStream"}) /\ Here(c) # "breaker"
    BY <1>1, <1>2 DEF Meets
  <2>2. "Canceled" \in Codes \ {"OK", "panic"}
    BY CodesKnown
  <2> QED
    BY <1>1, <1>4, <2>1, <2>2, RefusalSound
<1> QED
  BY <1>3, <1>4 DEF RetryStart

LEMMA RetryAgainStep ==
    ASSUME Typed, NEW c \in Calls, Sound(c), RetryAgain(c)
    PROVE  Typed' /\ Alone(c) /\ Sound(c)'
<1>1. /\ Meets(c, "up", {"retry"}) /\ tokens' = tokens /\ gauge' = gauge /\ sent' = sent
      /\ paid' = paid /\ counted' = counted
      /\ Retries(c) /\ call[c].code \in RetryCodes(MW(c).retry) /\ call[c].tries < MaxAttempts(MW(c).retry)
      /\ Moves(c, [Down(c, Id(c)) EXCEPT !.tries = @ + 1])
  BY DEF RetryAgain
<1> DEFINE to == [Down(c, Id(c)) EXCEPT !.tries = @ + 1]
<1>2. /\ to \in CallStates
      /\ to.pc = "down" /\ to.at = call[c].at + 1 /\ to.ids = Append(call[c].ids, Id(c))
      /\ to.conn = call[c].conn /\ to.method = call[c].method /\ to.given = call[c].given
      /\ to.tries = call[c].tries + 1
  <2>1. /\ Down(c, Id(c)) \in CallStates
        /\ Down(c, Id(c)).pc = "down" /\ Down(c, Id(c)).at = call[c].at + 1
        /\ Down(c, Id(c)).ids = Append(call[c].ids, Id(c))
        /\ Down(c, Id(c)).conn = call[c].conn /\ Down(c, Id(c)).method = call[c].method
        /\ Down(c, Id(c)).given = call[c].given /\ Down(c, Id(c)).tries = call[c].tries
    BY <1>1, DownStep DEF Sound
  <2>2. call[c].tries \in Nat /\ call[c].tries + 1 \in Nat
    BY DEF Typed, CallStates
  <2>3. to = [Down(c, Id(c)) EXCEPT !.tries = call[c].tries + 1]
    BY <2>1
  <2> QED
    BY <2>1, <2>2, <2>3 DEF CallStates
<1> HIDE DEF to
<1>3. Typed' /\ call'[c] = to /\ \A d \in Calls \ {c} : call'[d] = call[d]
  BY <1>1, <1>2, MoveTyped DEF Typed, to
<1>4. Alone(c) /\ Kept(c)
  BY <1>1, <1>2, <1>3 DEF Alone, Kept, Moves
<1>5. Sound(c)'
  BY <1>1, <1>2, <1>3, <1>4, TriesAgain
<1> QED
  BY <1>3, <1>4, <1>5

LEMMA RetryEndsStep ==
    ASSUME Typed, NEW c \in Calls, Sound(c), RetryEnds(c)
    PROVE  Typed' /\ Alone(c) /\ Sound(c)'
<1>1. Meets(c, "up", {"retry"}) /\ Here(c) = "retry" /\ Moves(c, Up(c, call[c].code))
  BY AtStage DEF RetryEnds, Sound
<1>2. Mended(c) = call[c].code
  <2>1. call[c].code # "panic"
    <3>1. Passed(c) = Outside(c) \cup {"retry"} /\ call[c].pc = "up" /\ "invoke" \notin Outside(c)
      BY <1>1, AtStage DEF Sound, Around
    <3> QED
      BY <3>1 DEF Sound, Clean
  <2> QED
    BY <2>1 DEF Mended
<1> QED
  BY <1>1, <1>2, UpSound DEF RetryEnds, Typed

LEMMA LimiterHere ==
    ASSUME Typed, NEW c \in Calls, Sound(c), Meets(c, "down", {"limiter"})
    PROVE  Here(c) = "limiter" /\ call[c].conn \in Conns
BY AtStage DEF Sound, Placed, Walking

LEMMA AcquireStep ==
    ASSUME Typed, NEW c \in Calls, Sound(c), Acquire(c)
    PROVE  Typed' /\ Alone(c) /\ Sound(c)'
<1>1. /\ Meets(c, "down", {"limiter"}) /\ Moves(c, Down(c, Id(c))) /\ gauge' = gauge /\ sent' = sent /\ counted' = counted
      /\ Here(c) = "limiter" /\ call[c].conn \in Conns
  BY LimiterHere DEF Acquire
<1>2. tokens \in [Conns -> Nat] /\ paid \in [Calls -> Nat] /\ gauge \in [Methods -> 0..1]
  BY DEF Typed
<1>3. CASE Skipped(c, MW(c).limiter) /\ tokens' = tokens /\ paid' = paid
  <2>1. ~Metered(c) /\ paid[c] <= paid[c]
    BY <1>2, <1>3 DEF Metered
  <2> QED
    BY <1>1, <1>2, <1>3, <2>1, DownSound
<1>4. CASE /\ tokens[call[c].conn] > 0
           /\ tokens' = [tokens EXCEPT ![call[c].conn] = @ - 1]
           /\ paid' = [paid EXCEPT ![c] = @ + 1]
  <2>1. /\ tokens' \in [Conns -> Nat] /\ paid' \in [Calls -> Nat] /\ paid'[c] = paid[c] + 1 /\ paid[c] <= paid'[c]
        /\ \A d \in Calls \ {c} : paid'[d] = paid[d]
    BY <1>1, <1>2, <1>4
  <2> QED
    BY <1>1, <1>2, <2>1, DownSound
<1> QED
  BY <1>3, <1>4 DEF Acquire

LEMMA AcquireFailsStep ==
    ASSUME Typed, NEW c \in Calls, Sound(c), AcquireFails(c)
    PROVE  Typed' /\ Alone(c) /\ Sound(c)'
<1>1. Meets(c, "down", {"limiter"}) /\ Here(c) = "limiter" /\ Moves(c, Up(c, "ResourceExhausted"))
  BY LimiterHere DEF AcquireFails
<1>2. Meets(c, "down", {"breaker", "retry", "limiter", "invoke", "newStream"}) /\ Here(c) # "breaker"
  BY <1>1 DEF Meets
<1>3. "ResourceExhausted" \in Codes \ {"OK", "panic"}
  BY CodesKnown
<1> QED
  BY <1>1, <1>2, <1>3, RefusalSound DEF AcquireFails

LEMMA LookUpStep ==
    ASSUME Typed, NEW c \in Calls, Sound(c), LookUp(c)
    PROVE  Typed' /\ Alone(c) /\ Sound(c)'
<1>1. Meets(c, "down", {"invoke", "newStream"}) /\ Here(c) \in {"invoke", "newStream"}
  BY AtStage DEF LookUp, Sound
<1>2. CASE Moves(c, Down(c, Id(c)))
  <2>1. paid[c] \in Nat /\ paid[c] <= paid[c]
    BY DEF Typed
  <2> QED
    BY <1>1, <1>2, <2>1, DownSound DEF LookUp, Typed
<1>3. CASE Moves(c, Up(c, "Unimplemented"))
  <2>1. Meets(c, "down", {"breaker", "retry", "limiter", "invoke", "newStream"}) /\ Here(c) # "breaker"
    BY <1>1 DEF Meets
  <2>2. "Unimplemented" \in Codes \ {"OK", "panic"}
    BY CodesKnown
  <2> QED
    BY <1>3, <2>1, <2>2, RefusalSound DEF LookUp
<1> QED
  BY <1>2, <1>3 DEF LookUp

LEMMA ServeClosedStep ==
    ASSUME Typed, NEW c \in Calls, Sound(c), ServeClosed(c)
    PROVE  Typed' /\ Alone(c) /\ Sound(c)'
<1>1. "Canceled" \in Codes \ {"OK", "panic"}
  BY CodesKnown
<1> QED
  BY <1>1, RefusalSound DEF ServeClosed

LEMMA ServeStep ==
    ASSUME Typed, NEW c \in Calls, Sound(c), NEW code \in Codes, Serve(c, code)
    PROVE  Typed' /\ Alone(c) /\ Sound(c)'
<1>1. /\ Arrives(c) /\ code \in Answers(c) /\ Moves(c, Up(c, code))
      /\ sent' = [sent EXCEPT ![c] = Append(@, [id |-> WireId(c), code |-> code])]
      /\ tokens' = tokens /\ gauge' = gauge /\ paid' = paid /\ counted' = counted
  BY DEF Serve
<1>2. Walking(c) /\ call[c].at = Len(Path(c)) + 1 /\ Len(Path(c)) \in Nat /\ call[c].at # 0
  BY <1>1, AtService DEF Sound
<1>3. WireId(c) \in Nat
  <2>1. call[c].ids \in Seq(Nat) /\ Len(call[c].ids) = call[c].at /\ call[c].at \in Nat
    BY <1>2 DEF Sound, Placed, Typed, CallStates
  <2>2. Id(c) \in Nat
    BY <1>2, <2>1 DEF Id, Last
  <2> QED
    BY <2>2 DEF WireId, OwnId, NoId
<1>4. sent' \in [Calls -> Seq(Attempts)] /\ sent'[c] = Append(sent[c], [id |-> WireId(c), code |-> code])
      /\ \A d \in Calls \ {c} : sent'[d] = sent[d]
  <2>1. [id |-> WireId(c), code |-> code] \in Attempts
    BY <1>3 DEF Attempts
  <2> QED
    BY <1>1, <2>1 DEF Typed
<1>5. Typed' /\ call'[c] = Up(c, code) /\ \A d \in Calls \ {c} : call'[d] = call[d]
  BY <1>1, <1>2, <1>4, UpStep, MoveTyped DEF Sound, Typed
<1>6. Alone(c) /\ Kept(c)
  BY <1>1, <1>2, <1>4, <1>5, UpStep DEF Sound, Alone, Kept, Moves
<1>7. Sound(c)'
  BY <1>1, <1>2, <1>4, <1>5, <1>6, UpStep, Served DEF Sound
<1> QED
  BY <1>5, <1>6, <1>7

\* A call that goes to another place, and one that also has its answer.
LEMMA StatesKept ==
    ASSUME NEW q \in CallStates, NEW pc \in {"idle", "down", "up", "open", "ended", "done"}, NEW code \in Codes
    PROVE  [q EXCEPT !.pc = pc] \in CallStates /\ [q EXCEPT !.pc = pc, !.code = code] \in CallStates
  BY DEF CallStates

LEMMA ReturnStep ==
    ASSUME Typed, NEW c \in Calls, Sound(c), Return(c)
    PROVE  Typed' /\ Alone(c) /\ Sound(c)'
<1> DEFINE to == [call[c] EXCEPT !.pc = IF Stream(c) /\ call[c].code = "OK" THEN "open" ELSE "done"]
<1>1. Moves(c, to) /\ tokens' = tokens /\ gauge' = gauge /\ sent' = sent /\ paid' = paid /\ counted' = counted
  BY DEF Return
<1>2. to \in CallStates
  <2>1. call[c] \in CallStates /\ call[c].code \in Codes
    BY DEF Typed, CallStates
  <2> QED
    BY <2>1, StatesKept
<1> HIDE DEF to
<1>3. Typed' /\ \A d \in Calls \ {c} : call'[d] = call[d]
  BY <1>1, <1>2, MoveTyped DEF Typed
<1>4. Alone(c)
  BY <1>1, <1>3 DEF Alone, Moves
<1> QED
  BY <1>3, <1>4, ReturnSound

LEMMA StreamStep ==
    ASSUME Typed, NEW c \in Calls, Sound(c), NEW code \in {"OK", "Unavailable", "Unknown"}, StreamEvent(c, code)
    PROVE  Typed' /\ Alone(c) /\ Sound(c)'
<1> DEFINE to == IF call[c].pc = "open" THEN [call[c] EXCEPT !.pc = "ended", !.code = code]
                 ELSE [call[c] EXCEPT !.pc = "done"]
<1>1. Moves(c, to) /\ tokens' = tokens /\ sent' = sent /\ paid' = paid
  BY DEF StreamEvent
<1>2. code \in Codes
  BY CodesKnown
<1>3. to \in CallStates
  <2>1. call[c] \in CallStates
    BY DEF Typed
  <2> QED
    BY <1>2, <2>1, StatesKept
<1>4. /\ counted' \in [Calls -> Seq(Codes)] /\ gauge' \in [Methods -> 0..1]
      /\ \A d \in Calls \ {c} : counted'[d] = counted[d]
  <2>1. CASE Tracked(c) /\ call[c].pc = "open"
    <3>1. Finish(c, code)
      BY <2>1 DEF StreamEvent
    <3>2. Append(counted[c], code) \in Seq(Codes)
      BY <1>2 DEF Typed
    <3>3. counted' = [counted EXCEPT ![c] = Append(@, code)] /\ gauge' = [gauge EXCEPT ![call[c].method] = 0]
      BY <3>1 DEF Finish
    <3> HIDE DEF to
    <3>4. gauge \in [Methods -> 0..1] /\ 0 \in 0..1
      BY DEF Typed
    <3>5. gauge' \in [Methods -> 0..1]
      BY <3>3, <3>4
    <3> QED
      BY <3>2, <3>3, <3>5 DEF Typed
  <2>2. CASE ~(Tracked(c) /\ call[c].pc = "open")
    BY <2>2 DEF StreamEvent, Typed
  <2> QED
    BY <2>1, <2>2
<1> HIDE DEF to
<1>5. Typed' /\ \A d \in Calls \ {c} : call'[d] = call[d]
  BY <1>1, <1>3, <1>4, MoveTyped DEF Typed
<1>6. Alone(c)
  BY <1>1, <1>4, <1>5 DEF Alone, Moves
<1> QED
  BY <1>5, <1>6, StreamSound

LEMMA CancelStep ==
    ASSUME Typed, NEW c \in Calls, Sound(c), Cancel(c)
    PROVE  Typed' /\ Alone(c) /\ Sound(c)'
<1>1. Typed' /\ Alone(c)
  BY DEF Cancel, Typed, Alone
<1>2. Sound(c)'
  BY Untouched DEF Cancel
<1> QED
  BY <1>1, <1>2

LEMMA BeginStep ==
    ASSUME Typed, ConnsBuilt, NEW c \in Calls, Sound(c), NEW k \in Conns, NEW request \in Requests[c],
           Begin(c, k, request)
    PROVE  Typed' /\ Alone(c) /\ Sound(c)'
<1> DEFINE there == conn[k] \in {"ready", "closed"}
           to == [NewCall EXCEPT
                !.pc = IF there THEN "down" ELSE "done", !.code = IF there THEN "OK" ELSE "Unknown",
                !.conn = k, !.method = request.method, !.given = request.given,
                !.patient = request.patient, !.at = 1,
                !.ids = <<IF request.given = "context" THEN OwnId ELSE NoId>>]
<1>1. Moves(c, to) /\ tokens' = tokens /\ gauge' = gauge /\ sent' = sent /\ paid' = paid /\ counted' = counted
  BY DEF Begin
<1>2. request \in [method : Methods, given : {"none", "context", "header"}, patient : BOOLEAN]
  BY ClientCallConstants
<1>3. to \in CallStates
  <2>1. <<IF request.given = "context" THEN OwnId ELSE NoId>> \in Seq(Nat)
    BY DEF OwnId, NoId
  <2>2. "OK" \in Codes /\ "Unknown" \in Codes
    BY CodesKnown
  <2> HIDE DEF there
  <2> QED
    BY <1>2, <2>1, <2>2 DEF NewCall, CallStates
<1> HIDE DEF to
<1>4. Typed' /\ \A d \in Calls \ {c} : call'[d] = call[d]
  BY <1>1, <1>3, MoveTyped DEF Typed
<1>5. Alone(c)
  BY <1>1, <1>4 DEF Alone, Moves
<1> QED
  BY <1>4, <1>5, BeginSound

-----------------------------------------------------------------------------
(* The gauges: a call that holds one up lets it go only where it is counted. *)

LEMMA Shapes ==
    ASSUME Typed, NEW c \in Calls
    PROVE  /\ \A id : LET to == Down(c, id) IN
                /\ to.pc = "down" /\ to.at = call[c].at + 1
                /\ to.conn = call[c].conn /\ to.method = call[c].method /\ to.given = call[c].given
           /\ \A id, t : LET to == [Down(c, id) EXCEPT !.tries = t] IN
                /\ to.pc = "down" /\ to.at = call[c].at + 1
                /\ to.conn = call[c].conn /\ to.method = call[c].method /\ to.given = call[c].given
           /\ \A id, n : LET to == [Down(c, id) EXCEPT !.made = n] IN
                /\ to.pc = "down" /\ to.at = call[c].at + 1
                /\ to.conn = call[c].conn /\ to.method = call[c].method /\ to.given = call[c].given
           /\ \A code : LET to == Up(c, code) IN
                /\ to.pc = "up" /\ to.at = call[c].at - 1 /\ to.code = code
                /\ to.conn = call[c].conn /\ to.method = call[c].method /\ to.given = call[c].given
<1>1. call[c] \in CallStates
  BY DEF Typed
<1> QED
  BY <1>1 DEF Down, Up, CallStates

LEMMA MoveKeeps ==
    ASSUME Typed, NEW c \in Calls, NEW to, Moves(c, to),
           to.conn = call[c].conn, to.method = call[c].method, to.given = call[c].given
    PROVE  call'[c] = to /\ Kept(c)
<1>1. call'[c] = to
  BY DEF Moves, Typed
<1> QED
  BY <1>1 DEF Moves, Kept

LEMMA HoldsDown ==
    ASSUME Typed, NEW c \in Calls, Sound(c), NEW way, NEW S, Meets(c, way, S),
           way = "down" \/ S = {"retry"}, NEW to, Moves(c, to),
           to.pc = "down", to.at = call[c].at + 1,
           to.conn = call[c].conn, to.method = call[c].method, to.given = call[c].given
    PROVE  /\ Kept(c) /\ call'[c].pc # "idle" /\ (Holds(c) => Holds(c)')
           /\ Here(c) = "metrics" /\ Tracked(c) => Holds(c)'
<1>1. call'[c] = to /\ Kept(c)
  BY MoveKeeps
<1>2. Tracked(c)' = Tracked(c) /\ Path(c)' = Path(c)
  BY <1>1, KeptSame
<1>3. /\ call[c].at \in 1..Len(Path(c)) /\ call[c].pc = way /\ Here(c) \in S
      /\ Prefix(Path(c), call[c].at) = Outside(c) \cup {Here(c)}
      /\ Passed(c) = (IF way = "down" THEN Outside(c) ELSE Outside(c) \cup {Here(c)})
      /\ Around(c, ToSet(Path(c)), Outside(c), Here(c))
  BY AtStage DEF Sound
<1>4. Passed(c)' = Outside(c) \cup {Here(c)}
  <2>1. call'[c].at - 1 = call[c].at
    BY <1>1, <1>3
  <2> QED
    BY <2>1, <1>1, <1>2, <1>3 DEF Passed
<1>5. Walking(c)'
  BY <1>1 DEF Walking
<1>6. way # "down" => ~Stream(c)
  <2>1. way # "down" => "retry" \in ToSet(Path(c))
    BY <1>3 DEF Around
  <2> QED
    BY <2>1, <1>3 DEF Around, MadeOf, Stream
<1>7. call[c].pc \in {"down", "up"}
  BY <1>3 DEF Meets
<1>8. Holds(c) => Tracked(c) /\ "metrics" \in Outside(c) \cup {Here(c)}
  BY <1>3, <1>6, <1>7 DEF Holds
<1>9. Tracked(c) /\ "metrics" \in Outside(c) \cup {Here(c)} => Holds(c)'
  BY <1>2, <1>4, <1>5 DEF Holds
<1>10. call'[c].pc # "idle"
  BY <1>1
<1> QED
  BY <1>1, <1>8, <1>9, <1>10

LEMMA HoldsUp ==
    ASSUME Typed, NEW c \in Calls, Sound(c), NEW S, NEW code,
           \/ Meets(c, "down", S) \/ Arrives(c)
           \/ Meets(c, "up", S) /\ (call[c].code = "OK" => code = "OK"),
           Moves(c, Up(c, code))
    PROVE  /\ Kept(c) /\ call'[c].pc # "idle"
           /\ \/ Holds(c) => Holds(c)'
              \/ Meets(c, "up", S) /\ Here(c) = "metrics" /\ ~(Stream(c) /\ call[c].code = "OK")
<1>1. call'[c] = Up(c, code) /\ Kept(c)
  BY Shapes, MoveKeeps
<1>2. call'[c].pc = "up" /\ call'[c].at = call[c].at - 1 /\ call'[c].code = code
  BY <1>1, Shapes
<1>3. Tracked(c)' = Tracked(c) /\ Path(c)' = Path(c) /\ Stream(c)' = Stream(c)
  BY <1>1, KeptSame
<1>4. Passed(c)' = Outside(c) /\ Walking(c)'
  BY <1>2, <1>3 DEF Passed, Outside, Walking
<1>5. CASE Meets(c, "down", S) \/ Arrives(c)
  <2>1. Passed(c) = Outside(c) /\ call[c].pc = "down"
    BY <1>5, AtStage, AtService DEF Sound
  <2> QED
    BY <2>1, <1>1, <1>2, <1>3, <1>4 DEF Holds
<1>6. CASE Meets(c, "up", S) /\ (call[c].code = "OK" => code = "OK")
  <2>1. Passed(c) = Outside(c) \cup {Here(c)} /\ call[c].pc = "up"
    BY <1>6, AtStage DEF Sound
  <2> QED
    BY <2>1, <1>1, <1>2, <1>3, <1>4, <1>6 DEF Holds
<1> QED
  BY <1>5, <1>6

\* What a call holds does not depend on the steps of another.
LEMMA OtherHolds ==
    ASSUME NEW c, NEW d \in Calls \ {c}, Alone(c)
    PROVE  Holds(d)' = Holds(d) /\ call'[d] = call[d]
<1>1. call'[d] = call[d] /\ config' = config
  BY DEF Alone
<1>2. Path(d)' = Path(d) /\ MW(d)' = MW(d) /\ Stream(d)' = Stream(d)
  BY <1>1 DEF Path, MW, Cfg, Stream
<1>3. Tracked(d)' = Tracked(d)
  BY <1>1, <1>2 DEF Tracked, Skipped
<1>4. Passed(d)' = Passed(d)
  BY <1>1, <1>2 DEF Passed
<1> QED
  BY <1>1, <1>2, <1>3, <1>4 DEF Holds, Walking

\* The gauge stays and so does the call that holds it, if it is the one that moves.
LEMMA GaugedKept ==
    ASSUME Gauged, NEW c \in Calls, Alone(c), gauge' = gauge,
           call[c].pc = "idle" \/ (Kept(c) /\ call'[c].pc # "idle" /\ (Holds(c) => Holds(c)'))
    PROVE  Gauged'
<1>1. ASSUME NEW m \in Methods, gauge'[m] # 0
      PROVE  \E d \in Calls : call'[d].pc # "idle" /\ call'[d].method = m /\ Holds(d)'
  <2>1. PICK d \in Calls : call[d].pc # "idle" /\ call[d].method = m /\ Holds(d)
    BY <1>1 DEF Gauged
  <2>2. CASE d = c
    BY <2>1, <2>2 DEF Kept
  <2>3. CASE d # c
    BY <2>1, <2>3, OtherHolds
  <2> QED
    BY <2>2, <2>3
<1> QED
  BY <1>1 DEF Gauged

\* Only the gauge of its own method moves: to 0, or to be held by the call.
LEMMA GaugedMoved ==
    ASSUME Gauged, NEW c \in Calls, Alone(c), \A m \in Methods : m # call[c].method => gauge'[m] = gauge[m],
           \/ call[c].method \in Methods => gauge'[call[c].method] = 0
           \/ Kept(c) /\ call'[c].pc # "idle" /\ Holds(c)'
    PROVE  Gauged'
<1>1. ASSUME NEW m \in Methods, gauge'[m] # 0
      PROVE  \E d \in Calls : call'[d].pc # "idle" /\ call'[d].method = m /\ Holds(d)'
  <2>1. CASE m = call[c].method
    BY <2>1, <1>1 DEF Kept
  <2>2. CASE m # call[c].method
    <3>1. PICK d \in Calls : call[d].pc # "idle" /\ call[d].method = m /\ Holds(d)
      BY <1>1, <2>2 DEF Gauged
    <3>2. d # c
      BY <2>2, <3>1
    <3> QED
      BY <3>1, <3>2, OtherHolds
  <2> QED
    BY <2>1, <2>2
<1> QED
  BY <1>1 DEF Gauged

LEMMA MetricsGauged ==
    ASSUME Typed, NEW c \in Calls, Sound(c), Gauged, Alone(c), MetricsStart(c) \/ MetricsEnd(c)
    PROVE  Gauged'
<1>1. CASE MetricsStart(c)
  <2>1. Here(c) = "metrics" /\ Meets(c, "down", {"metrics"}) /\ (Tracked(c) <=> ~Skipped(c, MW(c).metrics))
    BY <1>1, TrackedHere DEF MetricsStart
  <2>2. /\ Kept(c) /\ call'[c].pc # "idle" /\ (Holds(c) => Holds(c)')
        /\ Tracked(c) => Holds(c)'
    BY <1>1, <2>1, Shapes, HoldsDown DEF MetricsStart
  <2>3. CASE Tracked(c)
    <3>1. gauge' = [gauge EXCEPT ![call[c].method] = 1]
      BY <1>1, <2>1, <2>3 DEF MetricsStart
    <3>2. \A m \in Methods : m # call[c].method => gauge'[m] = gauge[m]
      BY <3>1 DEF Typed
    <3> QED
      BY <2>2, <2>3, <3>2, GaugedMoved
  <2>4. CASE ~Tracked(c)
    <3>1. gauge' = gauge
      BY <1>1, <2>1, <2>4 DEF MetricsStart
    <3> QED
      BY <2>2, <3>1, GaugedKept
  <2> QED
    BY <2>3, <2>4
<1>2. CASE MetricsEnd(c)
  <2>1. /\ Here(c) = "metrics" /\ Meets(c, "up", {"metrics"}) /\ (Tracked(c) <=> ~Skipped(c, MW(c).metrics))
        /\ Moves(c, Up(c, call[c].code))
    BY <1>2, TrackedHere DEF MetricsEnd
  <2>2. /\ Kept(c) /\ call'[c].pc # "idle"
        /\ (Holds(c) => Holds(c)') \/ ~(Stream(c) /\ call[c].code = "OK")
    BY <2>1, HoldsUp
  <2>3. CASE Tracked(c) /\ ~(Stream(c) /\ call[c].code = "OK")
    <3>1. gauge' = [gauge EXCEPT ![call[c].method] = 0]
      BY <1>2, <2>1, <2>3 DEF MetricsEnd, Finish
    <3>2. /\ \A m \in Methods : m # call[c].method => gauge'[m] = gauge[m]
          /\ call[c].method \in Methods => gauge'[call[c].method] = 0
      BY <3>1 DEF Typed
    <3> QED
      BY <3>2, GaugedMoved
  <2>4. CASE ~(Tracked(c) /\ ~(Stream(c) /\ call[c].code = "OK"))
    <3>1. gauge' = gauge
      BY <1>2, <2>1, <2>4 DEF MetricsEnd
    <3>2. Holds(c) => Holds(c)'
      BY <2>2, <2>4 DEF Holds
    <3> QED
      BY <2>2, <3>1, <3>2, GaugedKept
  <2> QED
    BY <2>3, <2>4
<1> QED
  BY <1>1, <1>2

LEMMA StreamGauged ==
    ASSUME Typed, NEW c \in Calls, Sound(c), Gauged, Alone(c),
           NEW code \in {"OK", "Unavailable", "Unknown"}, StreamEvent(c, code)
    PROVE  Gauged'
<1> DEFINE to == IF call[c].pc = "open" THEN [call[c] EXCEPT !.pc = "ended", !.code = code]
                 ELSE [call[c] EXCEPT !.pc = "done"]
<1>1. Moves(c, to) /\ call[c].pc \in {"open", "ended"}
  BY DEF StreamEvent
<1>2. CASE Tracked(c) /\ call[c].pc = "open"
  <2>1. gauge' = [gauge EXCEPT ![call[c].method] = 0]
    BY <1>2 DEF StreamEvent, Finish
  <2>2. /\ \A m \in Methods : m # call[c].method => gauge'[m] = gauge[m]
        /\ call[c].method \in Methods => gauge'[call[c].method] = 0
    BY <2>1 DEF Typed
  <2> QED
    BY <2>2, GaugedMoved
<1>3. CASE ~(Tracked(c) /\ call[c].pc = "open")
  <2>1. gauge' = gauge /\ ~Holds(c)
    BY <1>1, <1>3 DEF StreamEvent, Holds, Walking
  <2>2. call[c] \in CallStates
    BY DEF Typed
  <2>3. to.pc # "idle" /\ to.conn = call[c].conn /\ to.method = call[c].method /\ to.given = call[c].given
    BY <2>2 DEF CallStates
  <2> HIDE DEF to
  <2>4. Kept(c) /\ call'[c].pc # "idle"
    BY <1>1, <2>3, MoveKeeps
  <2> QED
    BY <2>1, <2>4, GaugedKept
<1> QED
  BY <1>2, <1>3

LEMMA ReturnGauged ==
    ASSUME Typed, NEW c \in Calls, Sound(c), Gauged, Alone(c), Return(c)
    PROVE  Gauged'
<1> DEFINE to == [call[c] EXCEPT !.pc = IF Stream(c) /\ call[c].code = "OK" THEN "open" ELSE "done"]
<1>1. Moves(c, to) /\ gauge' = gauge /\ call[c].pc = "up" /\ call[c].at = 0
  BY DEF Return
<1>2. call[c] \in CallStates
  BY DEF Typed
<1>3. /\ to.pc = (IF Stream(c) /\ call[c].code = "OK" THEN "open" ELSE "done")
      /\ to.conn = call[c].conn /\ to.method = call[c].method /\ to.given = call[c].given
  BY <1>2 DEF CallStates
<1> HIDE DEF to
<1>4. call'[c] = to /\ Kept(c)
  BY <1>1, <1>3, MoveKeeps
<1>5. Tracked(c)' = Tracked(c)
  BY <1>4, KeptSame
<1>6. Passed(c) = {}
  <2>1. 1..0 = {}
    OBVIOUS
  <2> QED
    BY <1>1, <2>1 DEF Passed, Prefix
<1>7. Holds(c) => Holds(c)'
  BY <1>1, <1>3, <1>4, <1>5, <1>6 DEF Holds
<1>8. call'[c].pc # "idle"
  BY <1>3, <1>4
<1> QED
  BY <1>1, <1>4, <1>7, <1>8, GaugedKept

LEMMA StepGauged ==
    ASSUME Typed, NEW c \in Calls, Sound(c), Gauged, Alone(c), Step(c)
    PROVE  Gauged'
<1> DEFINE Goes == gauge' = gauge /\ Kept(c) /\ call'[c].pc # "idle" /\ (Holds(c) => Holds(c)')
<1>1. CASE Cancel(c)
  <2>1. gauge' = gauge /\ Kept(c) /\ call' = call /\ config' = config /\ call[c].pc # "idle"
    BY <1>1 DEF Cancel, Alone, Kept
  <2>2. Holds(c)' = Holds(c)
    BY <2>1, KeptSame DEF Holds, Passed, Walking
  <2> QED
    BY <2>1, <2>2, GaugedKept
<1>2. CASE Pass(c)
  <2>1. gauge' = gauge
    BY <1>2 DEF Pass
  <2>2. CASE /\ Meets(c, "up", {"requestid", "requestidHeader", "breaker", "limiter", "newStream"} \cup Passive)
             /\ Moves(c, Up(c, call[c].code))
    <3>1. Here(c) # "metrics"
      BY <2>2, AtStage DEF Sound, Passive
    <3>2. Goes
      BY <2>1, <2>2, <3>1, HoldsUp
    <3> QED
      BY <3>2, GaugedKept
  <2>3. CASE Meets(c, "down", {"recovery"} \cup Passive) /\ Moves(c, Down(c, Id(c)))
    <3>1. Goes
      BY <2>1, <2>3, Shapes, HoldsDown
    <3> QED
      BY <3>1, GaugedKept
  <2> QED
    BY <1>2, <2>2, <2>3 DEF Pass
<1>3. CASE RequestId(c)
  <2> DEFINE to == IF Id(c) # NoId THEN Down(c, Id(c))
                   ELSE [Down(c, OwnId + call[c].made + 1) EXCEPT !.made = @ + 1]
  <2>1. gauge' = gauge /\ Meets(c, "down", {"requestid", "requestidHeader"}) /\ Moves(c, to)
    BY <1>3 DEF RequestId
  <2>2. /\ to.pc = "down" /\ to.at = call[c].at + 1
        /\ to.conn = call[c].conn /\ to.method = call[c].method /\ to.given = call[c].given
    BY Shapes
  <2> HIDE DEF to
  <2>3. Goes
    BY <2>1, <2>2, HoldsDown
  <2> QED
    BY <2>3, GaugedKept
<1>4. CASE Recover(c)
  <2>1. /\ gauge' = gauge /\ Meets(c, "up", {"recovery"})
        /\ Moves(c, Up(c, IF call[c].code = "panic" THEN "Internal" ELSE call[c].code))
    BY <1>4 DEF Recover
  <2>2. Here(c) = "recovery"
    BY <2>1, AtStage DEF Sound
  <2>3. Goes
    BY <2>1, <2>2, HoldsUp
  <2> QED
    BY <2>3, GaugedKept
<1>5. ASSUME NEW open \in BOOLEAN, Breaker(c, open) PROVE Gauged'
  <2>1. /\ gauge' = gauge /\ Meets(c, "down", {"breaker"})
        /\ Moves(c, IF open THEN Up(c, "Unavailable") ELSE Down(c, Id(c)))
    BY <1>5 DEF Breaker
  <2>2. ~Meets(c, "up", {"breaker"})
    BY <2>1 DEF Meets
  <2>3. CASE open
    <3>1. Goes
      BY <2>1, <2>2, <2>3, HoldsUp
    <3> QED
      BY <3>1, GaugedKept
  <2>4. CASE ~open
    <3>1. Goes
      BY <2>1, <2>4, Shapes, HoldsDown
    <3> QED
      BY <3>1, GaugedKept
  <2> QED
    BY <2>3, <2>4
<1>6. ASSUME NEW code \in {"OK", "Unavailable", "Unknown"}, StreamEvent(c, code) PROVE Gauged'
  BY <1>6, StreamGauged
<1>7. CASE RetryStart(c)
  <2>1. gauge' = gauge /\ Meets(c, "down", {"retry"}) /\ ~Meets(c, "up", {"retry"})
    BY <1>7 DEF RetryStart, Meets
  <2>2. CASE Moves(c, [Down(c, Id(c)) EXCEPT !.tries = 1])
    <3> DEFINE to == [Down(c, Id(c)) EXCEPT !.tries = 1]
    <3>1. /\ to.pc = "down" /\ to.at = call[c].at + 1
          /\ to.conn = call[c].conn /\ to.method = call[c].method /\ to.given = call[c].given
      BY Shapes
    <3> HIDE DEF to
    <3>2. Moves(c, to)
      BY <2>2 DEF to
    <3>3. Goes
      BY <2>1, <3>1, <3>2, HoldsDown
    <3> QED
      BY <3>3, GaugedKept
  <2>3. CASE Moves(c, Up(c, "Canceled"))
    <3>1. Goes
      BY <2>1, <2>3, HoldsUp
    <3> QED
      BY <3>1, GaugedKept
  <2> QED
    BY <1>7, <2>2, <2>3 DEF RetryStart
<1>8. CASE RetryAgain(c)
  <2> DEFINE to == [Down(c, Id(c)) EXCEPT !.tries = @ + 1]
  <2>1. gauge' = gauge /\ Meets(c, "up", {"retry"}) /\ Moves(c, to)
    BY <1>8 DEF RetryAgain
  <2>2. /\ to.pc = "down" /\ to.at = call[c].at + 1
        /\ to.conn = call[c].conn /\ to.method = call[c].method /\ to.given = call[c].given
    BY Shapes
  <2> HIDE DEF to
  <2>3. Goes
    BY <2>1, <2>2, HoldsDown
  <2> QED
    BY <2>3, GaugedKept
<1>9. CASE RetryEnds(c)
  <2>1. gauge' = gauge /\ Meets(c, "up", {"retry"}) /\ Moves(c, Up(c, call[c].code))
    BY <1>9 DEF RetryEnds
  <2>2. Here(c) = "retry"
    BY <2>1, AtStage DEF Sound
  <2>3. Goes
    BY <2>1, <2>2, HoldsUp
  <2> QED
    BY <2>3, GaugedKept
<1>10. CASE Acquire(c)
  <2>1. gauge' = gauge /\ Meets(c, "down", {"limiter"}) /\ Moves(c, Down(c, Id(c)))
    BY <1>10 DEF Acquire
  <2>2. Goes
    BY <2>1, Shapes, HoldsDown
  <2> QED
    BY <2>2, GaugedKept
<1>11. CASE AcquireFails(c)
  <2>1. /\ gauge' = gauge /\ Meets(c, "down", {"limiter"}) /\ Moves(c, Up(c, "ResourceExhausted"))
        /\ ~Meets(c, "up", {"limiter"})
    BY <1>11 DEF AcquireFails, Meets
  <2>2. Goes
    BY <2>1, HoldsUp
  <2> QED
    BY <2>2, GaugedKept
<1>12. CASE LookUp(c)
  <2> DEFINE S == {"invoke", "newStream"}
  <2>1. /\ gauge' = gauge /\ Meets(c, "down", S) /\ ~Meets(c, "up", S)
        /\ Moves(c, Down(c, Id(c))) \/ Moves(c, Up(c, "Unimplemented"))
    BY <1>12 DEF LookUp, Meets
  <2> HIDE DEF S
  <2>2. CASE Moves(c, Down(c, Id(c)))
    <3>1. Goes
      BY <2>1, <2>2, Shapes, HoldsDown
    <3> QED
      BY <3>1, GaugedKept
  <2>3. CASE Moves(c, Up(c, "Unimplemented"))
    <3>1. Goes
      BY <2>1, <2>3, HoldsUp
    <3> QED
      BY <3>1, GaugedKept
  <2> QED
    BY <2>1, <2>2, <2>3
<1>13. CASE InvokeReturns(c)
  <2>1. /\ gauge' = gauge /\ Meets(c, "up", {"invoke"})
        /\ Moves(c, Up(c, IF call[c].code = "panic" THEN "Unknown" ELSE call[c].code))
    BY <1>13 DEF InvokeReturns
  <2>2. Here(c) = "invoke"
    BY <2>1, AtStage DEF Sound
  <2>3. Goes
    BY <2>1, <2>2, HoldsUp
  <2> QED
    BY <2>3, GaugedKept
<1>14. CASE ServeClosed(c) \/ \E code \in Codes : Serve(c, code)
  <2>1. gauge' = gauge /\ Arrives(c) /\ ~Meets(c, "up", {}) /\ \E code \in Codes \cup {"Canceled"} : Moves(c, Up(c, code))
    BY <1>14 DEF ServeClosed, Serve, Meets
  <2>2. PICK code \in Codes \cup {"Canceled"} : Moves(c, Up(c, code))
    BY <2>1
  <2>3. Kept(c) /\ call'[c].pc # "idle" /\ (Holds(c) => Holds(c)')
    BY <2>1, <2>2, HoldsUp
  <2>4. Goes
    BY <2>1, <2>3
  <2> QED
    BY <2>4, GaugedKept
<1>15. CASE MetricsStart(c) \/ MetricsEnd(c)
  BY <1>15, MetricsGauged
<1>16. CASE Return(c)
  BY <1>16, ReturnGauged
<1> QED
  BY <1>1, <1>2, <1>3, <1>4, <1>5, <1>6, <1>7, <1>8, <1>9, <1>10, <1>11, <1>12, <1>13, <1>14, <1>15, <1>16 DEF Step

-----------------------------------------------------------------------------
(* The buckets. *)

LEMMA SpentIs ==
    \A k \in Conns : \A e : e \in Spent(k) <=> \E c \in Calls : call[c].conn = k /\ e \in {c} \X (1..paid[c])
BY DEF Spent

LEMMA BalancedKept ==
    ASSUME Balanced, config' = config, refills' = refills, tokens' = tokens, paid' = paid,
           \A c \in Calls : call'[c].conn = call[c].conn \/ paid[c] = 0
    PROVE  Balanced'
<1>1. ASSUME NEW k \in Conns
      PROVE  Spent(k)' = Spent(k)
  <2>1. \A e : e \in Spent(k)' <=> \E c \in Calls : call'[c].conn = k /\ e \in {c} \X (1..paid[c])
    BY DEF Spent
  <2>2. 1..0 = {}
    OBVIOUS
  <2>3. \A c \in Calls : paid[c] = 0 => {c} \X (1..paid[c]) = {}
    BY <2>2
  <2>4. \A e, c : c \in Calls /\ e \in {c} \X (1..paid[c]) => call'[c].conn = call[c].conn
    BY <2>3
  <2>5. \A e : e \in Spent(k)' <=> e \in Spent(k)
    BY <2>1, <2>4, SpentIs
  <2> QED
    BY <2>5
<1>2. \A k : Bucket(k)' = Bucket(k)
  BY DEF Bucket
<1> QED
  BY <1>1, <1>2 DEF Balanced

LEMMA BalancedAcquire ==
    ASSUME Typed, Balanced, NEW c \in Calls, Sound(c), Acquire(c)
    PROVE  Balanced'
<1>1. Meets(c, "down", {"limiter"}) /\ Moves(c, Down(c, Id(c)))
  BY DEF Acquire
<1>2. PICK k \in Conns : k = call[c].conn
  BY <1>1, LimiterHere
<1>3. /\ call'[c].conn = k /\ \A d \in Calls \ {c} : call'[d] = call[d]
      /\ config' = config /\ refills' = refills
  <2>1. call'[c] = Down(c, Id(c))
    BY <1>1 DEF Moves, Typed
  <2>2. call'[c].conn = k
    BY <2>1, <1>2, Shapes
  <2>3. \A d \in Calls \ {c} : call'[d] = call[d]
    BY <1>1 DEF Moves, Typed
  <2> QED
    BY <2>2, <2>3, <1>1 DEF Moves
<1>4. CASE tokens' = tokens /\ paid' = paid
  BY <1>2, <1>3, <1>4, BalancedKept
<1>5. CASE tokens[k] > 0 /\ tokens' = [tokens EXCEPT ![k] = @ - 1] /\ paid' = [paid EXCEPT ![c] = @ + 1]
  <2> DEFINE e == <<c, paid[c] + 1>>
  <2>1. paid[c] \in Nat /\ paid'[c] = paid[c] + 1 /\ \A d \in Calls \ {c} : paid'[d] = paid[d]
    BY <1>5 DEF Typed
  <2>2. /\ tokens'[k] = tokens[k] - 1 /\ \A j \in Conns \ {k} : tokens'[j] = tokens[j]
        /\ \A j \in Conns : tokens[j] \in Nat
    BY <1>2, <1>5 DEF Typed
  <2>3. 1..(paid[c] + 1) = (1..paid[c]) \cup {paid[c] + 1} /\ paid[c] + 1 \notin 1..paid[c]
    BY <2>1
  <2>4. {c} \X (1..(paid[c] + 1)) = ({c} \X (1..paid[c])) \cup {e}
    BY <2>3
  <2>5. \A j, f : f \in Spent(j)' <=> \E d \in Calls : call'[d].conn = j /\ f \in {d} \X (1..paid'[d])
    BY DEF Spent
  <2>6. \A d \in Calls : call'[d].conn = call[d].conn
    BY <1>2, <1>3
  <2>7. \A d \in Calls \ {c} : {d} \X (1..paid'[d]) = {d} \X (1..paid[d])
    BY <2>1
  <2>8. {c} \X (1..paid'[c]) = ({c} \X (1..paid[c])) \cup {e}
    BY <2>1, <2>4
  <2>9. ASSUME NEW j \in Conns \ {k} PROVE Spent(j)' = Spent(j)
    <3>1. \A f : f \in Spent(j)' <=> f \in Spent(j)
      BY <1>2, <2>5, <2>6, <2>7, SpentIs
    <3> QED
      BY <3>1
  <2>10. Spent(k)' = Spent(k) \cup {e}
    <3>1. \A f : f \in Spent(k)' <=> f \in Spent(k) \/ f = e
      BY <1>2, <2>5, <2>6, <2>7, <2>8, SpentIs
    <3> QED
      BY <3>1
  <2>11. e \notin Spent(k)
    <3>1. \A d \in Calls : e \in {d} \X (1..paid[d]) => d = c /\ paid[c] + 1 \in 1..paid[c]
      OBVIOUS
    <3> QED
      BY <1>2, <2>3, <3>1, SpentIs
  <2> HIDE DEF e
  <2>12. /\ IsFiniteSet(Spent(k)) /\ Cardinality(Spent(k)) \in Nat
         /\ IsFiniteSet(Spent(k)') /\ Cardinality(Spent(k)') = Cardinality(Spent(k)) + 1
    BY <1>2, <2>10, <2>11, FS_AddElement, FS_CardinalityType DEF Balanced
  <2>13. \A j : Bucket(j)' = Bucket(j)
    BY <1>3 DEF Bucket
  <2>14. tokens'[k] + Cardinality(Spent(k)') = tokens[k] + Cardinality(Spent(k))
    BY <1>2, <2>2, <2>12
  <2>15. ASSUME NEW j \in Conns
         PROVE  IsFiniteSet(Spent(j)') /\ tokens'[j] + Cardinality(Spent(j)') <= Bucket(j)' + refills'
    <3>1. CASE j = k
      <4>1. tokens[k] + Cardinality(Spent(k)) <= Bucket(k) + refills
        BY <1>2 DEF Balanced
      <4>2. IsFiniteSet(Spent(k)') /\ tokens'[k] + Cardinality(Spent(k)') <= Bucket(k)' + refills'
        BY <4>1, <1>3, <2>12, <2>13, <2>14
      <4> QED
        BY <3>1, <4>2
    <3>2. CASE j # k
      BY <3>2, <1>3, <2>2, <2>9, <2>13 DEF Balanced
    <3> QED
      BY <3>1, <3>2
  <2> QED
    BY <2>15 DEF Balanced
<1> QED
  BY <1>2, <1>4, <1>5 DEF Acquire

LEMMA BucketIs ==
    ASSUME config \in Assignments, NEW k \in Conns
    PROVE  Bucket(k) \in Nat
BY ClientCallConstants DEF Bucket

LEMMA BalancedRefill ==
    ASSUME Typed, Balanced, NEW k \in Conns, Refill(k)
    PROVE  Balanced'
<1>1. /\ config' = config /\ paid' = paid /\ call' = call /\ refills' = refills + 1
      /\ tokens' = [tokens EXCEPT ![k] = @ + 1] /\ refills \in Nat
  BY ClientCallConstants DEF Refill, Typed
<1>2. \A j : Spent(j)' = Spent(j) /\ Bucket(j)' = Bucket(j)
  BY <1>1 DEF Spent, Bucket
<1>3. ASSUME NEW j \in Conns
      PROVE  IsFiniteSet(Spent(j)') /\ tokens'[j] + Cardinality(Spent(j)') <= Bucket(j)' + refills'
  <2>1. /\ IsFiniteSet(Spent(j)) /\ Cardinality(Spent(j)) \in Nat
        /\ tokens[j] + Cardinality(Spent(j)) <= Bucket(j) + refills
    BY FS_CardinalityType DEF Balanced
  <2>2. tokens[j] \in Nat /\ tokens'[j] \in Nat /\ tokens'[j] <= tokens[j] + 1
    BY <1>1 DEF Typed
  <2>3. Bucket(j) \in Nat
    BY BucketIs DEF Typed
  <2> QED
    BY <2>1, <2>2, <2>3, <1>1, <1>2
<1> QED
  BY <1>3 DEF Balanced

-----------------------------------------------------------------------------
(* The invariant. *)

LEMMA InitInv == Init => CallInv
<1> SUFFICES ASSUME Init PROVE CallInv
  OBVIOUS
<1>1. NewCall \in CallStates
  <2>1. "OK" \in Codes /\ <<>> \in Seq(Nat)
    BY CodesKnown
  <2> QED
    BY <2>1 DEF NewCall, CallStates
<1>2. \A k \in Conns : Bucket(k) \in Nat
  BY BucketIs DEF Init
<1>3. Typed
  <2>1. tokens \in [Conns -> Nat] /\ 0 \in 0..MaxRefills /\ 0 \in 0..1
    BY <1>2, ClientCallConstants DEF Init
  <2> QED
    BY <2>1, <1>1 DEF Init, Typed
<1>4. ConnsBuilt
  BY DEF Init, ConnsBuilt, Usable
<1>5. ASSUME NEW c \in Calls PROVE Sound(c)
  <2>1. /\ call[c] = NewCall /\ call[c].pc = "idle"
        /\ sent[c] = <<>> /\ Len(sent[c]) = 0 /\ counted[c] = <<>> /\ paid[c] = 0
    BY DEF Init, NewCall
  <2>2. Placed(c) /\ Justified(c) /\ Repeats(c) /\ Clean(c) /\ Truthful(c)
    BY <2>1 DEF Placed, Justified, Repeats, Clean, Truthful, Walking
  <2>3. Counts(c) /\ Pays(c) /\ Named(c)
    BY <2>1 DEF Counts, Pays, Named, Carries, Labelled, Walking
  <2> QED
    BY <2>2, <2>3 DEF Sound
<1>6. Gauged
  BY DEF Init, Gauged
<1>7. Balanced
  <2>1. ASSUME NEW k \in Conns PROVE Spent(k) = {}
    <3>1. \A c \in Calls : 1..paid[c] = {}
      BY DEF Init
    <3> QED
      BY <3>1 DEF Spent
  <2>2. IsFiniteSet({}) /\ Cardinality({}) = 0
    BY FS_EmptySet
  <2>3. \A k \in Conns : tokens[k] = Bucket(k) /\ refills = 0
    BY DEF Init
  <2> QED
    BY <2>1, <2>2, <2>3, <1>2 DEF Balanced
<1> QED
  BY <1>3, <1>4, <1>5, <1>6, <1>7 DEF CallInv

\* A connection is made or closed, or its bucket gains a token.
LEMMA ConnInv ==
    ASSUME CallInv, config' = config, call' = call, sent' = sent, counted' = counted, paid' = paid,
           gauge' = gauge, Typed', Balanced',
           \A k \in Conns : \/ conn'[k] = conn[k]
                            \/ conn[k] = "none" /\ conn'[k] \in {"ready", "failed"}
                            \/ conn[k] = "ready" /\ conn'[k] = "closed",
           \A k \in Conns : conn[k] = "none" /\ conn'[k] = "ready" => ~BuildFails(config[k])
    PROVE  CallInv'
<1>1. ConnsBuilt'
  BY DEF CallInv, ConnsBuilt, Usable
<1>2. \A c \in Calls : Sound(c)'
  BY Untouched DEF CallInv
<1>3. Gauged'
  <2>1. ASSUME NEW c \in Calls PROVE Holds(c)' = Holds(c)
    <3>1. Path(c)' = Path(c) /\ MW(c)' = MW(c) /\ Stream(c)' = Stream(c)
      BY DEF Path, MW, Cfg, Stream
    <3>2. Tracked(c)' = Tracked(c) /\ Passed(c)' = Passed(c)
      BY <3>1 DEF Tracked, Skipped, Passed
    <3> QED
      BY <3>1, <3>2 DEF Holds, Walking
  <2> QED
    BY <2>1 DEF CallInv, Gauged
<1> QED
  BY <1>1, <1>2, <1>3 DEF CallInv

LEMMA ConnectionInv ==
    ASSUME CallInv, NEW k \in Conns, NEW discovery \in BOOLEAN,
           NewLocal(k) \/ NewRemote(k, discovery) \/ CloseConnection(k)
    PROVE  CallInv'
<1>1. /\ config' = config /\ call' = call /\ sent' = sent /\ counted' = counted /\ paid' = paid
      /\ gauge' = gauge /\ tokens' = tokens /\ refills' = refills
  BY DEF NewLocal, NewRemote, CloseConnection
<1>2. conn \in [Conns -> {"none", "ready", "failed", "closed"}]
  BY DEF CallInv, Typed
<1>3. /\ \/ conn[k] = "none" /\ conn'[k] \in {"ready", "failed"}
         \/ conn[k] = "ready" /\ conn'[k] = "closed"
      /\ conn[k] = "none" /\ conn'[k] = "ready" => ~BuildFails(config[k])
      /\ \A j \in Conns \ {k} : conn'[j] = conn[j]
      /\ conn' \in [Conns -> {"none", "ready", "failed", "closed"}]
  <2>1. CASE NewLocal(k)
    <3> DEFINE next == IF BuildFails(config[k]) \/ ~LocalServices(IF config[k] = None THEN <<>> ELSE config[k].services).ok
                       THEN "failed" ELSE "ready"
    <3>1. conn[k] = "none" /\ conn' = [conn EXCEPT ![k] = next]
      BY <2>1 DEF NewLocal
    <3>2. next \in {"ready", "failed"} /\ (next = "ready" => ~BuildFails(config[k]))
      OBVIOUS
    <3> HIDE DEF next
    <3> QED
      BY <3>1, <3>2, <1>2
  <2>2. CASE NewRemote(k, discovery)
    <3> DEFINE refused == \/ CreateFails(config[k], discovery) \/ BuildFails(config[k])
                          \/ SelectorRefuses(selector, Balancer(config[k].mw))
               next == IF refused \/ config[k].tls = "bad" THEN "failed" ELSE "ready"
    <3>1. conn[k] = "none" /\ conn' = [conn EXCEPT ![k] = next]
      BY <2>2 DEF NewRemote
    <3>2. next \in {"ready", "failed"} /\ (next = "ready" => ~BuildFails(config[k]))
      OBVIOUS
    <3> HIDE DEF next
    <3> QED
      BY <3>1, <3>2, <1>2
  <2>3. CASE CloseConnection(k)
    BY <2>3, <1>2 DEF CloseConnection
  <2> QED
    BY <2>1, <2>2, <2>3
<1>4. Typed'
  BY <1>1, <1>3 DEF CallInv, Typed
<1>5. Balanced'
  BY <1>1, BalancedKept DEF CallInv
<1> QED
  BY <1>1, <1>3, <1>4, <1>5, ConnInv

LEMMA RefillInv ==
    ASSUME CallInv, NEW k \in Conns, Refill(k)
    PROVE  CallInv'
<1>1. /\ config' = config /\ call' = call /\ sent' = sent /\ counted' = counted /\ paid' = paid
      /\ gauge' = gauge /\ conn' = conn
      /\ refills' = refills + 1 /\ refills < MaxRefills /\ tokens' = [tokens EXCEPT ![k] = @ + 1]
  BY DEF Refill
<1>2. Typed'
  <2>1. tokens' \in [Conns -> Nat] /\ refills' \in 0..MaxRefills
    BY <1>1, ClientCallConstants DEF CallInv, Typed
  <2> QED
    BY <2>1, <1>1 DEF CallInv, Typed
<1>3. Balanced'
  BY BalancedRefill DEF CallInv
<1> QED
  BY <1>1, <1>2, <1>3, ConnInv

\* What the call that moves keeps is enough: the others stay as they are.
LEMMA MoverInv ==
    ASSUME CallInv, NEW c \in Calls, Typed', Alone(c), Sound(c)', Gauged', Balanced'
    PROVE  CallInv'
<1>1. config' = config /\ conn' = conn
  BY DEF Alone
<1>2. ConnsBuilt'
  BY <1>1 DEF CallInv, ConnsBuilt, Usable
<1>3. ASSUME NEW d \in Calls \ {c} PROVE Sound(d)'
  <2>1. call'[d] = call[d] /\ sent'[d] = sent[d] /\ counted'[d] = counted[d] /\ paid'[d] = paid[d]
    BY DEF Alone
  <2> QED
    BY <1>1, <2>1, Untouched DEF CallInv
<1> QED
  BY <1>2, <1>3 DEF CallInv

LEMMA BeginInv ==
    ASSUME CallInv, NEW c \in Calls, NEW k \in Conns, NEW request \in Requests[c], Begin(c, k, request)
    PROVE  CallInv'
<1>1. Typed' /\ Alone(c) /\ Sound(c)'
  BY BeginStep DEF CallInv
<1>2. call[c].pc = "idle" /\ gauge' = gauge /\ tokens' = tokens /\ paid' = paid /\ config' = config /\ refills' = refills
  BY DEF Begin, Moves
<1>3. Gauged'
  BY <1>1, <1>2, GaugedKept DEF CallInv
<1>4. paid[c] = 0
  BY <1>2 DEF CallInv, Sound, Placed
<1>5. Balanced'
  BY <1>1, <1>2, <1>4, BalancedKept DEF CallInv, Alone
<1> QED
  BY <1>1, <1>3, <1>5, MoverInv

LEMMA StepSound ==
    ASSUME Typed, NEW c \in Calls, Sound(c), Step(c)
    PROVE  Typed' /\ Alone(c) /\ Sound(c)'
BY CancelStep, PassStep, RequestIdStep, RecoverStep, BreakerStep, MetricsStartStep, MetricsEndStep,
   StreamStep, RetryStartStep, RetryAgainStep, RetryEndsStep, AcquireStep, AcquireFailsStep, LookUpStep,
   InvokeReturnsStep, ServeClosedStep, ReturnStep, ServeStep DEF Step

\* No step of a call changes its connection.
LEMMA StepConn ==
    ASSUME Typed, NEW c \in Calls, Step(c)
    PROVE  call'[c].conn = call[c].conn
<1>1. ASSUME NEW to, Moves(c, to), to.conn = call[c].conn PROVE call'[c].conn = call[c].conn
  <2>1. call'[c] = to
    BY <1>1 DEF Moves, Typed
  <2> QED
    BY <1>1, <2>1
<1>2. call[c] \in CallStates
  BY DEF Typed
<1>3. /\ \A pc : [call[c] EXCEPT !.pc = pc].conn = call[c].conn
      /\ \A pc, code : [call[c] EXCEPT !.pc = pc, !.code = code].conn = call[c].conn
  BY <1>2 DEF CallStates
<1>4. CASE Cancel(c)
  BY <1>4 DEF Cancel
<1>5. CASE Pass(c) \/ Recover(c) \/ InvokeReturns(c) \/ LookUp(c) \/ RetryEnds(c)
  BY <1>1, <1>5, Shapes DEF Pass, Recover, InvokeReturns, LookUp, RetryEnds
<1>6. CASE RequestId(c)
  <2> DEFINE to == IF Id(c) # NoId THEN Down(c, Id(c))
                   ELSE [Down(c, OwnId + call[c].made + 1) EXCEPT !.made = @ + 1]
  <2>1. to.conn = call[c].conn
    BY Shapes
  <2>2. Moves(c, to)
    BY <1>6 DEF RequestId
  <2> HIDE DEF to
  <2> QED
    BY <1>1, <2>1, <2>2
<1>7. ASSUME NEW open \in BOOLEAN, Breaker(c, open) PROVE call'[c].conn = call[c].conn
  BY <1>1, <1>7, Shapes DEF Breaker
<1>8. CASE MetricsStart(c) \/ MetricsEnd(c) \/ Acquire(c) \/ AcquireFails(c) \/ ServeClosed(c)
  BY <1>1, <1>8, Shapes DEF MetricsStart, MetricsEnd, Acquire, AcquireFails, ServeClosed
<1>9. CASE RetryStart(c)
  <2> DEFINE to == [Down(c, Id(c)) EXCEPT !.tries = 1]
  <2>1. to.conn = call[c].conn /\ Up(c, "Canceled").conn = call[c].conn
    BY Shapes
  <2>2. Moves(c, to) \/ Moves(c, Up(c, "Canceled"))
    BY <1>9 DEF RetryStart
  <2> HIDE DEF to
  <2> QED
    BY <1>1, <2>1, <2>2
<1>10. CASE RetryAgain(c)
  <2> DEFINE to == [Down(c, Id(c)) EXCEPT !.tries = @ + 1]
  <2>1. to.conn = call[c].conn
    BY Shapes
  <2>2. Moves(c, to)
    BY <1>10 DEF RetryAgain
  <2> HIDE DEF to
  <2> QED
    BY <1>1, <2>1, <2>2
<1>11. ASSUME NEW code \in Codes, Serve(c, code) PROVE call'[c].conn = call[c].conn
  BY <1>1, <1>11, Shapes DEF Serve
<1>12. ASSUME NEW code, StreamEvent(c, code) PROVE call'[c].conn = call[c].conn
  BY <1>1, <1>3, <1>12 DEF StreamEvent
<1>13. CASE Return(c)
  BY <1>1, <1>3, <1>13 DEF Return
<1> QED
  BY <1>4, <1>5, <1>6, <1>7, <1>8, <1>9, <1>10, <1>11, <1>12, <1>13 DEF Step

LEMMA StepBalanced ==
    ASSUME Typed, NEW c \in Calls, Sound(c), Balanced, Alone(c), Step(c)
    PROVE  Balanced'
<1>1. CASE Acquire(c)
  BY <1>1, BalancedAcquire
<1>2. CASE ~Acquire(c)
  <2>1. tokens' = tokens /\ paid' = paid /\ config' = config /\ refills' = refills
    BY <1>2 DEF Step, Alone, Cancel, Pass, RequestId, Recover, Breaker, MetricsStart, MetricsEnd, StreamEvent,
                RetryStart, RetryAgain, RetryEnds, AcquireFails, LookUp, InvokeReturns, ServeClosed, Return, Serve
  <2>2. call'[c].conn = call[c].conn
    BY <1>2, StepConn
  <2> QED
    BY <2>1, <2>2, BalancedKept DEF Alone
<1> QED
  BY <1>1, <1>2

LEMMA StepInv ==
    ASSUME CallInv, NEW c \in Calls, Step(c)
    PROVE  CallInv'
<1>1. Typed' /\ Alone(c) /\ Sound(c)'
  BY StepSound DEF CallInv
<1>2. Gauged' /\ Balanced'
  BY <1>1, StepGauged, StepBalanced DEF CallInv
<1> QED
  BY <1>1, <1>2, MoverInv

LEMMA NextInv == CallInv /\ [Next]_vars => CallInv'
<1> SUFFICES ASSUME CallInv, [Next]_vars PROVE CallInv'
  OBVIOUS
<1>1. CASE Next
  <2>1. ASSUME NEW k \in Conns, NewLocal(k) \/ CloseConnection(k) PROVE CallInv'
    BY <2>1, ConnectionInv
  <2>2. ASSUME NEW k \in Conns, NEW discovery \in BOOLEAN, NewRemote(k, discovery) PROVE CallInv'
    BY <2>2, ConnectionInv
  <2> QED
    BY <1>1, <2>1, <2>2, RefillInv, BeginInv, StepInv DEF Next
<1>2. CASE UNCHANGED vars
  <2>1. /\ config' = config /\ call' = call /\ sent' = sent /\ counted' = counted /\ paid' = paid
        /\ gauge' = gauge /\ conn' = conn /\ tokens' = tokens /\ refills' = refills
    BY <1>2 DEF vars
  <2>2. Typed' /\ Balanced'
    BY <2>1, BalancedKept DEF CallInv, Typed
  <2> QED
    BY <2>1, <2>2, ConnInv
<1> QED
  BY <1>1, <1>2

\* The invariant of the calls is an invariant of the system.
THEOREM Inv == Spec => []CallInv
BY InitInv, NextInv, PTL DEF Spec

-----------------------------------------------------------------------------
(* The type of what the invariant leaves out. *)

RestTyped ==
    /\ methods \in [Conns -> SUBSET Methods]
    /\ selector \in {None, "wrr", "p2c", "random"}
    /\ cancelled \subseteq Calls

LEMMA Registered ==
    ASSUME NEW names \in Seq(DOMAIN Services)
    PROVE  LocalServices(names).methods \subseteq Methods
<1>1. ASSUME NEW p \in Places(names) PROVE MethodAt(names, p) \in Methods
  <2>1. PICK i \in DOMAIN names : p \in {i} \X DOMAIN Services[names[i]]
    BY <1>1 DEF Places
  <2>2. names[i] \in DOMAIN Services /\ p[1] = i /\ p[2] \in DOMAIN Services[names[i]]
    BY <2>1
  <2>3. Services[names[i]] \in Seq(Methods)
    BY <2>2, ClientConstants
  <2> QED
    BY <2>2, <2>3 DEF MethodAt
<1> QED
  BY <1>1 DEF LocalServices

LEMMA RestLocal ==
    ASSUME Typed, RestTyped, NEW k \in Conns, NewLocal(k)
    PROVE  RestTyped'
<1> DEFINE names == IF config[k] = None THEN <<>> ELSE config[k].services
           made  == IF BuildFails(config[k]) THEN {} ELSE LocalServices(names).methods
<1>1. names \in Seq(DOMAIN Services)
  <2>1. config \in Assignments
    BY DEF Typed
  <2>2. config[k] # None => config[k].services \in Seq(DOMAIN Services)
    BY <2>1, ClientCallConstants
  <2>3. <<>> \in Seq(DOMAIN Services)
    OBVIOUS
  <2> QED
    BY <2>2, <2>3
<1>2. made \subseteq Methods
  BY <1>1, Registered
<1>3. methods' = [methods EXCEPT ![k] = made] /\ selector' = selector /\ cancelled' = cancelled
  BY DEF NewLocal
<1> HIDE DEF made
<1> QED
  BY <1>2, <1>3 DEF RestTyped

LEMMA RestRemote ==
    ASSUME RestTyped, NEW k \in Conns, NEW discovery \in BOOLEAN, NewRemote(k, discovery)
    PROVE  RestTyped'
<1>1. Balancer(config[k].mw) \in {"wrr", "p2c", "random"}
  BY DEF Balancer
<1>2. selector' \in {selector, Balancer(config[k].mw)} /\ methods' = methods /\ cancelled' = cancelled
  BY DEF NewRemote
<1> QED
  BY <1>1, <1>2 DEF RestTyped

LEMMA RestKept ==
    ASSUME RestTyped, methods' = methods, selector' = selector, cancelled' = cancelled
    PROVE  RestTyped'
BY DEF RestTyped

LEMMA RestStep ==
    ASSUME RestTyped, NEW c \in Calls, Step(c)
    PROVE  RestTyped'
<1>1. CASE Cancel(c)
  BY <1>1 DEF Cancel, RestTyped
<1>2. CASE ~Cancel(c)
  <2>1. methods' = methods /\ selector' = selector /\ cancelled' = cancelled
    BY <1>2 DEF Step, Moves, Pass, RequestId, Recover, Breaker, MetricsStart, MetricsEnd, StreamEvent,
                RetryStart, RetryAgain, RetryEnds, Acquire, AcquireFails, LookUp, InvokeReturns,
                ServeClosed, Return, Serve
  <2> QED
    BY <2>1, RestKept
<1> QED
  BY <1>1, <1>2

LEMMA RestNext == CallInv /\ RestTyped /\ [Next]_vars => RestTyped'
<1> SUFFICES ASSUME CallInv, RestTyped, [Next]_vars PROVE RestTyped'
  OBVIOUS
<1>1. CASE Next
  <2>1. ASSUME NEW k \in Conns, NewLocal(k) PROVE RestTyped'
    BY <2>1, RestLocal DEF CallInv
  <2>2. ASSUME NEW k \in Conns, CloseConnection(k) \/ Refill(k) PROVE RestTyped'
    BY <2>2, RestKept DEF CloseConnection, Refill
  <2>3. ASSUME NEW k \in Conns, NEW discovery \in BOOLEAN, NewRemote(k, discovery) PROVE RestTyped'
    BY <2>3, RestRemote
  <2>4. ASSUME NEW c \in Calls, NEW k \in Conns, NEW request \in Requests[c], Begin(c, k, request)
        PROVE  RestTyped'
    BY <2>4, RestKept DEF Begin, Moves
  <2> QED
    BY <1>1, <2>1, <2>2, <2>3, <2>4, RestStep DEF Next
<1>2. CASE UNCHANGED vars
  BY <1>2, RestKept DEF vars
<1> QED
  BY <1>1, <1>2

\* Every variable keeps its type: a call is always of a method there is, with a code a caller
\* can get, and what a local connection registers are methods of its services
\* (localgrpc: Conn.RegisterService).
THEOREM TypeCorrect == Spec => []TypeOK
<1>1. Init => RestTyped
  BY DEF Init, RestTyped
<1>2. CallInv /\ RestTyped => TypeOK
  <2> SUFFICES ASSUME CallInv, RestTyped PROVE TypeOK
    OBVIOUS
  <2>1. ASSUME NEW c \in Calls
        PROVE  /\ call[c].pc \in {"idle", "down", "up", "open", "ended", "done"}
               /\ call[c].conn \in Conns \cup {None} /\ call[c].method \in Methods \cup {None}
               /\ call[c].at \in Nat /\ call[c].tries \in Nat /\ call[c].code \in Codes
    BY DEF CallInv, Typed, CallStates
  <2>2. \A c \in Calls : \A i \in DOMAIN counted[c] : counted[c][i] \in Codes
    BY DEF CallInv, Typed
  <2> QED
    BY <2>1, <2>2 DEF CallInv, Typed, RestTyped, TypeOK
<1> QED
  BY <1>1, <1>2, Inv, RestNext, PTL DEF Spec

-----------------------------------------------------------------------------
(* What it says of the code. *)

\* However the stages of a chain are put together, the service is asked again only for an
\* idempotent unary method, after an answer that is worth a retry, and at most max_attempts
\* times (middleware/retry: UnaryClientInterceptor, isIdempotent).
THEOREM RetriesAreJustified == Spec => []RetriesJustified
<1>1. CallInv => RetriesJustified
  BY DEF CallInv, Sound, Justified, Worth, RetriesJustified
<1> QED
  BY <1>1, Inv, PTL

\* A unary call returns nil to its caller exactly when its last attempt succeeded: neither the
\* retrier's nil for an error that is not retried nor a stage further out can make it so.
THEOREM SuccessIsTold == Spec => []SuccessIsReal
<1>1. CallInv => SuccessIsReal
  BY DEF CallInv, Sound, Truthful, Succeeded, SuccessIsReal, Last
<1> QED
  BY <1>1, Inv, PTL

\* The request counter records a call once, with the code its caller got, where the call leaves
\* the metrics or where its stream ends, and the gauge of a method that no call is in is 0
\* (middleware/metrics: finish, finishStream).
THEOREM CallsCountedOnce == Spec => []CountedOnce
<1>1. ASSUME CallInv, NEW m \in Methods, gauge[m] # 0 PROVE InFlight(m)
  <2>1. PICK c \in Calls : call[c].pc # "idle" /\ call[c].method = m /\ Holds(c)
    BY <1>1 DEF CallInv, Gauged
  <2> QED
    BY <2>1 DEF Holds, Walking, InFlight
<1>2. CallInv => CountedOnce
  BY <1>1 DEF CallInv, Sound, Counts, CountedOnce
<1> QED
  BY <1>2, Inv, PTL

\* Each attempt that reaches a service took a token of its connection, and all of them together
\* no more than the bucket held and gained (middleware/ratelimit: acquire).
THEOREM AttemptsArePaid == Spec => []PaidAttempts
<1>1. CallInv => PaidAttempts
  BY DEF CallInv, Sound, Pays, Metered, Balanced, PaidAttempts
<1> QED
  BY <1>1, Inv, PTL

\* All attempts of a remote call carry one request id, and an id that the caller gave is never
\* replaced (middleware/requestid: Client, UnaryClientInterceptor, StreamClientInterceptor).
THEOREM RequestIDIsOne == Spec => []OneRequestID
<1>1. ASSUME CallInv, NEW c \in Calls, NEW n \in DOMAIN sent[c]
      PROVE  /\ ~IsLocal(Cfg(c)) => sent[c][n].id = sent[c][1].id /\ sent[c][n].id # NoId
             /\ call[c].given # "none" => sent[c][n].id \in {OwnId, NoId}
  <2>1. n \in 1..Len(sent[c]) /\ call[c].given \in {"none", "context", "header"}
    BY <1>1 DEF CallInv, Typed, CallStates
  <2> QED
    BY <1>1, <2>1 DEF CallInv, Sound, Named, Labelled
<1>2. CallInv => OneRequestID
  BY <1>1 DEF OneRequestID
<1> QED
  BY <1>2, Inv, PTL

=============================================================================
