---------------------------- MODULE MCClientCall ----------------------------
(* A small instance of ClientCall for TLC: two connections, two calls, and the
   configurations at which the chains differ or cannot be built. *)
EXTENDS ClientCall

Ask(m, given, patient) == [method |-> m, given |-> given, patient |-> patient]

\* c1 asks for anything and may give up; c2 competes with it for tokens and metrics.
MCRequests ==
    "c1" :> { Ask(m, "none", FALSE) : m \in Methods }
            \cup { Ask("GetThing", given, TRUE) : given \in {"context", "header"} }
    @@ "c2" :> { Ask("GetThing", "none", TRUE) }

MCServices == [thing |-> <<"GetThing", "PostThing", "WatchThings">>, again |-> <<"GetThing">>]

Metrics == [provider |-> "ok", skip |-> {}]
Retry   == [initial |-> None, maxBackoff |-> None, factor |-> None, maxTotalWait |-> None,
            max |-> 2, codes |-> {}, prefixes |-> None, skip |-> {}]
Limiter == [rate |-> "ok", burst |-> 1, wait |-> FALSE, skip |-> {}]
Plain   == [recovery |-> FALSE, tracing |-> FALSE, metadata |-> FALSE, logging |-> FALSE,
            breaker |-> FALSE, auth |-> None, metrics |-> None, retry |-> None,
            limiter |-> None, balancer |-> None]
Full    == [Plain EXCEPT !.metrics = Metrics, !.retry = Retry, !.limiter = Limiter]

Local(mw)  == [endpoint |-> None, static |-> FALSE, mw |-> mw, tls |-> None, services |-> <<"thing">>]
Remote(mw) == [endpoint |-> "bare", static |-> FALSE, mw |-> mw, tls |-> None, services |-> <<>>]

Waiting   == [Full EXCEPT !.limiter = [Limiter EXCEPT !.wait = TRUE, !.skip = {"PostThing"}]]
Breaking  == [Full EXCEPT !.breaker = TRUE, !.recovery = TRUE, !.retry.codes = {"ResourceExhausted", "Internal"}]
Bounded   == [Plain EXCEPT !.metrics = Metrics, !.retry = [Retry EXCEPT
                 !.maxTotalWait = "ok", !.prefixes = {"PostThing"}, !.codes = {"NotFound", "Unknown"}]]
Quieter   == [Full EXCEPT !.metrics.skip = {"PostThing"}, !.retry.skip = {"GetThing"}, !.limiter.skip = {"GetThing"}]

MCAssignments ==
    { [k1 |-> Local(Full), k2 |-> [Remote(Full) EXCEPT !.tls = "bad"]],
      [k1 |-> Local(Breaking), k2 |-> Local([Full EXCEPT !.retry.codes = {"odd"}])],
      [k1 |-> Local(Bounded), k2 |-> [Local(Full) EXCEPT !.services = <<"thing", "again">>]],
      [k1 |-> Remote(Full), k2 |-> [Remote(Plain) EXCEPT !.mw.balancer = "p2c"]],
      [k1 |-> Remote(Breaking), k2 |-> None],
      [k1 |-> Remote(Waiting), k2 |-> Remote([Full EXCEPT !.auth = "bad"])],
      [k1 |-> Remote(Quieter), k2 |-> [Remote(None) EXCEPT !.endpoint = "discovery", !.static = TRUE]] }
=============================================================================
