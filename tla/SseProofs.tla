----------------------------- MODULE SseProofs -----------------------------
(***************************************************************************)
(* Theorems about Sse, for any requests, configurations, declarations and  *)
(* claims.                                                                 *)
(***************************************************************************)
EXTENDS Sse, TLAPS

-----------------------------------------------------------------------------
(* The type invariant. *)

RequestRecord ==
    [pc : PCs, ask : AllAsks \cup {None}, tenant : Nat,
     transport : TransportStreams \cup {None}, own : {"live", "cancelled", "deadline"},
     stream : {"none", "live", "cancelled"}, watcher : {"none", "waiting", "returned"}, gone : BOOLEAN]

\* A request that has arrived carries one of its asks.
Asked == \A r \in Requests : req[r].pc # "idle" => req[r].ask \in Asks[r]

\* What the authentication of both ways in lets through.
LEMMA Identified ==
    ASSUME NEW r \in Requests, NEW ask \in Asks[r], TypeOK,
           NEW user \in {ServeUser(ask), RequestUser(ask)}
    PROVE  /\ user.tenant \in Nat
           /\ user.ok /\ config.authenticator =>
                Admits(Claims[ask.token], ask.stream) /\ user.tenant = Claims[ask.token].tenant
<1>1. Claims[ask.token] # None => Claims[ask.token].tenant \in Nat
  BY SseConstants
<1> QED
  BY <1>1 DEF ServeUser, RequestUser, Admits

\* Nobody is served that way without an authenticator.
LEMMA ServeAuthenticates ==
    ASSUME NEW ask, ServeUser(ask).ok PROVE config.authenticator
  BY DEF ServeUser


-----------------------------------------------------------------------------
(* The inductive invariant. *)

\* The handler of a server without resolver or authenticator asks nobody who they are.
Bypasses(ask) == ask.way = "handler" /\ ~(config.resolver /\ config.authenticator)

\* What each place on the way to a stream has established of a request.
Vetted(q) ==
    /\ q.pc \in {"auth", "resolve", "open", "streaming"} => q.ask.way # "preflight"
    /\ q.pc \in {"resolve", "open", "streaming"} /\ ~Bypasses(q.ask) =>
            Admits(Claims[q.ask.token], q.ask.stream) /\ q.tenant = Claims[q.ask.token].tenant
    /\ q.pc \in {"open", "streaming"} /\ ~Bypasses(q.ask) /\ config.registry =>
            q.ask.stream \in registry /\ q.transport = Transport(q.ask.stream, q.tenant)

SubscriberInv == TypeOK /\ Asked /\ \A r \in Requests : Vetted(req[r])

LEMMA InitInv == Init => SubscriberInv
<1> SUFFICES ASSUME Init PROVE SubscriberInv
  OBVIOUS
<1>1. NewRequest \in RequestRecord
  BY DEF NewRequest, RequestRecord, PCs
<1>2. req \in [Requests -> RequestRecord] /\ \A r \in Requests : req[r].pc = "idle"
  BY <1>1 DEF Init, NewRequest
<1>3. TypeOK
  BY <1>2 DEF Init, TypeOK, RequestRecord
<1> QED
  BY <1>2, <1>3 DEF SubscriberInv, Asked, Vetted

\* A step of a request rewrites its record only.
LEMMA SetKeeps ==
    ASSUME SubscriberInv, NEW r \in Requests, NEW to \in RequestRecord, Set(r, to),
           to.pc # "idle" => to.ask \in Asks[r], Vetted(to)
    PROVE  SubscriberInv'
<1>1. /\ req' \in [Requests -> RequestRecord]
      /\ \A q \in Requests : req'[q] = IF q = r THEN to ELSE req[q]
  BY DEF Set, SubscriberInv, TypeOK, RequestRecord
<1>2. UNCHANGED <<config, server, registry, bound, valid>>
  BY DEF Set
<1>3. TypeOK'
  BY <1>1, <1>2 DEF SubscriberInv, TypeOK, RequestRecord
<1>4. Asked'
  BY <1>1 DEF SubscriberInv, Asked
<1>5. ASSUME NEW q \in Requests PROVE Vetted(req[q])'
  <2>1. CASE q = r
    BY <1>1, <1>2, <2>1 DEF Vetted, Bypasses, Admits, Backstage, Transport
  <2>2. CASE q # r
    BY <1>1, <1>2, <2>2 DEF SubscriberInv, Vetted, Bypasses, Admits, Backstage, Transport
  <2> QED
    BY <2>1, <2>2
<1> QED
  BY <1>3, <1>4, <1>5 DEF SubscriberInv

\* The steps of the server keep the configuration and forget no stream.
LEMMA ServerKeeps ==
    ASSUME SubscriberInv, UNCHANGED <<config, req>>, registry \subseteq registry', TypeOK'
    PROVE  SubscriberInv'
<1>1. ASSUME NEW r \in Requests PROVE Vetted(req[r])'
  <2>1. Vetted(req[r])
    BY DEF SubscriberInv
  <2> QED
    BY <2>1 DEF Vetted, Bypasses, Admits, Backstage, Transport
<1> QED
  BY <1>1 DEF SubscriberInv, Asked

LEMMA ServerInv ==
    ASSUME SubscriberInv,
           \/ \E d \in Declarations, refused \in BOOLEAN : NewServer(d, refused)
           \/ BindServer \/ UnbindServer \/ Stop
           \/ \E t \in DOMAIN Claims : Revoke(t)
    PROVE  SubscriberInv'
<1> USE DEF SubscriberInv, TypeOK
<1>1. CASE \E d \in Declarations, refused \in BOOLEAN : NewServer(d, refused)
  <2> PICK d \in Declarations, refused \in BOOLEAN : NewServer(d, refused)
    BY <1>1
  <2>1. registry \subseteq registry' /\ registry' \subseteq registry \cup ToSet(d) /\ server' \in {"running", "failed"}
    BY DEF NewServer
  <2> QED
    BY <2>1, ServerKeeps DEF NewServer
<1>2. CASE BindServer \/ UnbindServer \/ Stop
  BY <1>2, ServerKeeps DEF BindServer, UnbindServer, Stop
<1>3. CASE \E t \in DOMAIN Claims : Revoke(t)
  BY <1>3, ServerKeeps DEF Revoke
<1> QED
  BY <1>1, <1>2, <1>3


\* A record of a request under way, as the invariant knows it.
LEMMA UnderWay ==
    ASSUME SubscriberInv, NEW r \in Requests
    PROVE  /\ req[r] \in RequestRecord /\ Vetted(req[r])
           /\ req[r].pc # "idle" => req[r].ask \in Asks[r]
  BY DEF SubscriberInv, TypeOK, RequestRecord, Asked

LEMMA ArriveInv ==
    ASSUME SubscriberInv, NEW r \in Requests, NEW ask \in Asks[r], Arrive(r, ask)
    PROVE  SubscriberInv'
<1> DEFINE to == [req[r] EXCEPT !.ask = ask, !.pc =
            CASE ask.way = "serve" -> IF bound /\ config.registry THEN "auth" ELSE "failed"
              [] ask.way = "preflight" -> "ended"
              [] ask.way = "handler" -> IF config.resolver THEN "auth" ELSE "open"]
<1>1. req[r] \in RequestRecord /\ ask \in AllAsks
  BY UnderWay DEF AllAsks
<1>2. /\ ask.way = "serve" => to.pc \in {"auth", "failed"}
      /\ ask.way = "preflight" => to.pc = "ended"
      /\ ask.way = "handler" => to.pc = IF config.resolver THEN "auth" ELSE "open"
      /\ to.ask = ask
  BY <1>1 DEF RequestRecord
<1>3. ask.way \in {"handler", "serve", "preflight"}
  BY SseConstants
<1>4. to \in RequestRecord
  BY <1>1, <1>2, <1>3 DEF RequestRecord, PCs
<1>5. Vetted(to)
  BY <1>2, <1>3 DEF Vetted, Bypasses
<1>6. Set(r, to)
  BY DEF Arrive
<1> QED
  BY <1>2, <1>4, <1>5, <1>6, SetKeeps

LEMMA AuthenticateInv ==
    ASSUME SubscriberInv, NEW r \in Requests, Authenticate(r)
    PROVE  SubscriberInv'
<1> DEFINE ask  == req[r].ask
           user == IF ask.way = "serve" THEN ServeUser(ask) ELSE RequestUser(ask)
           to   == [req[r] EXCEPT !.pc = IF user.ok THEN "resolve" ELSE "refused", !.tenant = user.tenant]
<1>1. req[r] \in RequestRecord /\ Vetted(req[r]) /\ ask \in Asks[r] /\ req[r].pc = "auth"
  BY UnderWay DEF Authenticate
<1>2. /\ user.tenant \in Nat
      /\ user.ok /\ config.authenticator =>
            Admits(Claims[ask.token], ask.stream) /\ user.tenant = Claims[ask.token].tenant
  BY <1>1, Identified DEF SubscriberInv
<1>3. /\ to.pc = (IF user.ok THEN "resolve" ELSE "refused") /\ to.ask = ask /\ to.tenant = user.tenant
      /\ to \in RequestRecord
  BY <1>1, <1>2 DEF RequestRecord, PCs
\* The authenticator is missing only where the handler bypasses it.
<1>4. user.ok /\ ~config.authenticator => Bypasses(ask)
  BY <1>1, SseConstants, ServeAuthenticates DEF Vetted, Bypasses
<1>5. Vetted(to)
  BY <1>1, <1>2, <1>3, <1>4 DEF Vetted
<1>6. Set(r, to)
  BY DEF Authenticate
<1> HIDE DEF to
<1> QED
  BY <1>1, <1>3, <1>5, <1>6, SetKeeps

LEMMA ResolveInv ==
    ASSUME SubscriberInv, NEW r \in Requests, Resolve(r)
    PROVE  SubscriberInv'
<1> DEFINE stream == req[r].ask.stream
<1>1. req[r] \in RequestRecord /\ Vetted(req[r]) /\ req[r].ask \in Asks[r] /\ req[r].pc = "resolve"
  BY UnderWay DEF Resolve
<1>2. stream \in STRING
  BY <1>1, SseConstants
<1>3. <<stream, 0>> \in TransportStreams /\ Transport(stream, req[r].tenant) \in TransportStreams
  BY <1>1, <1>2 DEF Transport, RequestRecord, TransportStreams
<1>4. CASE ~config.registry
  <2> DEFINE to == [req[r] EXCEPT !.pc = "open", !.transport = <<stream, 0>>]
  <2>1. to \in RequestRecord /\ to.pc = "open" /\ to.ask = req[r].ask /\ to.tenant = req[r].tenant
    BY <1>1, <1>3 DEF RequestRecord, PCs
  <2>2. Vetted(to)
    BY <1>1, <1>4, <2>1 DEF Vetted
  <2>3. Set(r, to)
    BY <1>4 DEF Resolve
  <2> QED
    BY <1>1, <2>1, <2>2, <2>3, SetKeeps
<1>5. CASE config.registry /\ (stream \notin registry \/ stream \in Failing)
  <2> DEFINE to == [req[r] EXCEPT !.pc = "failed"]
  <2>1. to \in RequestRecord /\ to.pc = "failed" /\ to.ask = req[r].ask
    BY <1>1 DEF RequestRecord, PCs
  <2>2. Set(r, to)
    BY <1>5 DEF Resolve
  <2> QED
    BY <1>1, <2>1, <2>2, SetKeeps DEF Vetted
<1>6. CASE config.registry /\ stream \in registry /\ stream \notin Failing
  <2> DEFINE to == [req[r] EXCEPT !.pc = "open", !.transport = Transport(stream, req[r].tenant)]
  <2>1. /\ to \in RequestRecord /\ to.pc = "open" /\ to.ask = req[r].ask /\ to.tenant = req[r].tenant
        /\ to.transport = Transport(stream, req[r].tenant)
    BY <1>1, <1>3 DEF RequestRecord, PCs
  <2>2. Vetted(to)
    BY <1>1, <1>6, <2>1 DEF Vetted
  <2>3. Set(r, to)
    BY <1>6 DEF Resolve
  <2> QED
    BY <1>1, <2>1, <2>2, <2>3, SetKeeps
<1> QED
  BY <1>4, <1>5, <1>6


\* A resolved transport stream is kept by Open, never taken for one that is missing.
LEMMA OpenInv ==
    ASSUME SubscriberInv, NEW r \in Requests, Open(r)
    PROVE  SubscriberInv'
<1> DEFINE ask == req[r].ask
           new == IF req[r].transport = None THEN <<ask.stream, 0>> ELSE req[r].transport
           to  == [req[r] EXCEPT !.pc = "streaming", !.stream = "live", !.watcher = "waiting",
                                 !.transport = new]
<1>1. req[r] \in RequestRecord /\ Vetted(req[r]) /\ ask \in Asks[r] /\ req[r].pc = "open"
  BY UnderWay DEF Open
<1>2. new \in TransportStreams
  BY <1>1, SseConstants DEF RequestRecord, TransportStreams
<1>3. /\ to \in RequestRecord /\ to.pc = "streaming" /\ to.ask = ask /\ to.tenant = req[r].tenant
      /\ to.transport = new
  BY <1>1, <1>2 DEF RequestRecord, PCs
<1>4. ~Bypasses(ask) /\ config.registry => new = req[r].transport
  <2> SUFFICES ASSUME ~Bypasses(ask), config.registry PROVE Transport(ask.stream, req[r].tenant) # None
    BY <1>1 DEF Vetted
  <2>1. Claims[ask.token] # None /\ req[r].tenant = Claims[ask.token].tenant
    BY <1>1 DEF Vetted, Admits
  <2> QED
    BY <1>1, <2>1, SseConstants DEF Transport
<1>5. Vetted(to)
  BY <1>1, <1>3, <1>4 DEF Vetted
<1>6. Set(r, to)
  BY DEF Open
<1> HIDE DEF to
<1> QED
  BY <1>1, <1>3, <1>5, <1>6, SetKeeps

\* The contexts, the watcher and the end change neither identity nor stream.
LEMMA ContextsInv ==
    ASSUME SubscriberInv, NEW r \in Requests,
           Deadline(r) \/ Disconnect(r) \/ WatcherWakes(r) \/ WatcherFinishes(r) \/ Finish(r)
    PROVE  SubscriberInv'
<1>1. req[r] \in RequestRecord /\ Vetted(req[r]) /\ (req[r].pc # "idle" => req[r].ask \in Asks[r])
  BY UnderWay
<1>2. ASSUME NEW to \in RequestRecord, Set(r, to), to.pc \in {req[r].pc, "ended"},
             to.pc = "ended" => req[r].pc # "idle",
             to.ask = req[r].ask, to.tenant = req[r].tenant, to.transport = req[r].transport
      PROVE  SubscriberInv'
  <2>1. Vetted(to)
    BY <1>1, <1>2 DEF Vetted
  <2>2. to.pc # "idle" => to.ask \in Asks[r]
    BY <1>1, <1>2
  <2> QED
    BY <1>2, <2>1, <2>2, SetKeeps
<1>3. CASE Deadline(r)
  <2> DEFINE to == [req[r] EXCEPT !.own = "deadline"]
  <2>1. Set(r, to)
    BY <1>3 DEF Deadline
  <2>2. /\ to \in RequestRecord /\ to.pc = req[r].pc /\ to.ask = req[r].ask
        /\ to.tenant = req[r].tenant /\ to.transport = req[r].transport
    BY <1>1 DEF RequestRecord
  <2> QED
    BY <1>2, <2>1, <2>2
<1>4. CASE Disconnect(r)
  <2> DEFINE to == [req[r] EXCEPT !.gone = TRUE, !.own = IF @ = "live" THEN "cancelled" ELSE @]
  <2>1. Set(r, to)
    BY <1>4 DEF Disconnect
  <2>2. /\ to \in RequestRecord /\ to.pc = req[r].pc /\ to.ask = req[r].ask
        /\ to.tenant = req[r].tenant /\ to.transport = req[r].transport
    BY <1>1 DEF RequestRecord
  <2> QED
    BY <1>2, <2>1, <2>2
<1>5. CASE WatcherWakes(r)
  <2> DEFINE to == [req[r] EXCEPT !.watcher = "returned",
                                  !.stream = IF req[r].own = "deadline" THEN @ ELSE "cancelled"]
  <2>1. Set(r, to)
    BY <1>5 DEF WatcherWakes
  <2>2. /\ to \in RequestRecord /\ to.pc = req[r].pc /\ to.ask = req[r].ask
        /\ to.tenant = req[r].tenant /\ to.transport = req[r].transport
    BY <1>1 DEF RequestRecord
  <2> QED
    BY <1>2, <2>1, <2>2
<1>6. CASE WatcherFinishes(r)
  <2> DEFINE to == [req[r] EXCEPT !.watcher = "returned"]
  <2>1. Set(r, to)
    BY <1>6 DEF WatcherFinishes
  <2>2. /\ to \in RequestRecord /\ to.pc = req[r].pc /\ to.ask = req[r].ask
        /\ to.tenant = req[r].tenant /\ to.transport = req[r].transport
    BY <1>1 DEF RequestRecord
  <2> QED
    BY <1>2, <2>1, <2>2
<1>7. CASE Finish(r)
  <2> DEFINE to == [req[r] EXCEPT !.pc = "ended", !.stream = "cancelled"]
  <2>1. Set(r, to) /\ req[r].pc = "streaming"
    BY <1>7 DEF Finish
  <2>2. /\ to \in RequestRecord /\ to.pc = "ended" /\ to.ask = req[r].ask
        /\ to.tenant = req[r].tenant /\ to.transport = req[r].transport
    BY <1>1 DEF RequestRecord, PCs
  <2> QED
    BY <1>2, <2>1, <2>2
<1> QED
  BY <1>3, <1>4, <1>5, <1>6, <1>7

LEMMA StepInv == SubscriberInv /\ [Next]_vars => SubscriberInv'
<1> SUFFICES ASSUME SubscriberInv, [Next]_vars PROVE SubscriberInv'
  OBVIOUS
<1>1. CASE \E r \in Requests : Request(r)
  <2> PICK r \in Requests : Request(r)
    BY <1>1
  <2>1. CASE \E ask \in Asks[r] : Arrive(r, ask)
    BY <2>1, ArriveInv
  <2>2. CASE ~\E ask \in Asks[r] : Arrive(r, ask)
    BY <2>2, AuthenticateInv, ResolveInv, OpenInv, ContextsInv DEF Request
  <2> QED
    BY <2>1, <2>2
<1>2. CASE UNCHANGED vars
  <2>1. TypeOK'
    BY <1>2 DEF SubscriberInv, TypeOK, vars
  <2> QED
    BY <1>2, <2>1, ServerKeeps DEF vars
<1> QED
  BY <1>1, <1>2, ServerInv DEF Next

-----------------------------------------------------------------------------
(* The theorems. *)

THEOREM SubscriberInvariant == Spec => []SubscriberInv
  BY InitInv, StepInv, PTL DEF Spec

\* The variables keep their types.
THEOREM TypeCorrect == Spec => []TypeOK
<1>1. SubscriberInv => TypeOK
  BY DEF SubscriberInv
<1> QED
  BY <1>1, SubscriberInvariant, PTL

\* Whoever streams was let through by an authenticator that knows it, unless the
\* server has none for its handler, and streams from a registered stream, of its own
\* tenant where the stream knows tenants - however the token has fared since.
THEOREM OnlyAuthorizedSubscribers == Spec => []SubscribersAuthorized
<1>1. SubscriberInv => SubscribersAuthorized
  <2> SUFFICES ASSUME SubscriberInv, NEW r \in Requests, req[r].pc = "streaming",
                      ~Bypasses(req[r].ask)
               PROVE  LET ask    == req[r].ask
                          claims == Claims[ask.token]
                      IN  /\ Admits(claims, ask.stream)
                          /\ config.registry =>
                               /\ ask.stream \in registry
                               /\ req[r].transport[1] = ask.stream
                               /\ ask.stream \in TenantAware => req[r].transport[2] = claims.tenant
    BY DEF SubscribersAuthorized, Bypasses
  <2>1. Vetted(req[r]) /\ req[r].ask \in Asks[r]
    BY UnderWay
  <2>2. Admits(Claims[req[r].ask.token], req[r].ask.stream) /\ req[r].tenant = Claims[req[r].ask.token].tenant
    BY <2>1 DEF Vetted
  <2>3. Claims[req[r].ask.token].tenant \in Nat
    BY <2>1, <2>2, SseConstants DEF Admits
  <2>4. config.registry => req[r].ask.stream \in registry /\ req[r].transport = Transport(req[r].ask.stream, req[r].tenant)
    BY <2>1 DEF Vetted
  <2> QED
    BY <2>2, <2>3, <2>4 DEF Transport
<1> QED
  BY <1>1, SubscriberInvariant, PTL
=============================================================================
