------------------------------- MODULE MCSse -------------------------------
(* A small instance of Sse for TLC: two requests, the two ways to subscribe, and
   subjects of two tenants, one of them without access to the back office. *)
EXTENDS Sse

MCClaims ==
    [ admin |-> [user |-> 1, tenant |-> 1, role |-> "admin"],
      user  |-> [user |-> 2, tenant |-> 2, role |-> "user"],
      odd   |-> None ]

Ask(way, header, token, stream) == [way |-> way, header |-> header, token |-> token, stream |-> stream]

\* r1 tries everything; r2 is a plain subscription beside it.
MCAsks == [r \in {"r1", "r2"} |->
    IF r = "r2" THEN {Ask("serve", "bearer", "user", "base.notification")} ELSE
    { Ask(way, "bearer", "admin", "orders") : way \in {"handler", "serve", "preflight"} }
    \cup { Ask(way, "raw", "admin", "base.notification") : way \in {"handler", "serve"} }
    \cup { Ask(way, "bearer", "user", stream) : way \in {"handler", "serve"},
                                                stream \in {"orders", "base.notification"} }
    \cup { Ask("serve", "bearer", "odd", "orders"), Ask("serve", "bearer", "admin", "broken"),
           Ask("handler", "bearer", "admin", "unknown") } ]

Full == [authenticator |-> TRUE, userToken |-> TRUE, registry |-> TRUE, resolver |-> TRUE]
MCConfigs ==
    { Full, [Full EXCEPT !.authenticator = FALSE], [Full EXCEPT !.userToken = FALSE],
      [Full EXCEPT !.registry = FALSE], [Full EXCEPT !.resolver = FALSE] }

MCDeclarations ==
    { <<"orders", "base.notification", "broken">>, <<"orders", "orders">>, <<"orders", "">> }
=============================================================================
