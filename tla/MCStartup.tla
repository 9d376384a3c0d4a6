----------------------------- MODULE MCStartup -----------------------------
(* A small instance of Startup for TLC: two instances, two releases and
   two broken ones, a database that is empty and one an older release has left. *)
EXTENDS Startup

Op(terminal, method, service, rpc, refs, package) ==
    [path |-> <<"api", "v1", terminal, service, rpc>>, method |-> method, service |-> service, rpc |-> rpc,
     refs |-> refs, tag |-> service, desc |-> "", package |-> package]

ShopAdmin == <<"shop", "admin", "v1">>
SystemAdmin == <<"system", "admin", "v1">>
Schema(package) == Append(package, "Info")

\* Two modules with a service of one name at one terminal, a service that refers to
\* nothing of its own, and one whose schemas are shared.
MCDocument ==
    [ok |-> TRUE, tags |-> << [name |-> "Goods", terminal |-> "admin", text |-> "AdminGoods"] >>,
     ops |-> { Op("admin", "GET", "Goods", "List", {Schema(ShopAdmin), Schema(<<"common", "v1">>)}, ShopAdmin),
               Op("admin", "POST", "Goods", "Save", {}, ShopAdmin),
               Op("admin", "GET", "User", "List", {Schema(SystemAdmin)}, SystemAdmin),
               Op("admin", "PUT", "User", "Save", {Schema(ShopAdmin), Schema(SystemAdmin)}, SystemAdmin) }]

\* One module alone at its terminal: the interface may be bound to two methods.
MCSmaller ==
    [ok |-> TRUE, tags |-> << [name |-> "Goods", terminal |-> "admin", text |-> "AdminGoods"] >>,
     ops |-> { Op("admin", "GET", "Goods", "List", {Schema(ShopAdmin)}, ShopAdmin),
               Op("admin", "POST", "Goods", "List", {Schema(ShopAdmin)}, ShopAdmin),
               Op("admin", "PATCH", "Goods", "Touch", {Schema(ShopAdmin)}, ShopAdmin),
               Op("admin", "GET", "Stock", "List", {}, ShopAdmin) }]

Readme(path, locale, text) == [module |-> "shop", path |-> path, locale |-> locale, text |-> text]
Shop(versions) == << [name |-> "shop", versions |-> {[source |-> "default", version |-> v] : v \in versions}] >>

MCReleases ==
    [ first |->
        [documents |-> {MCSmaller}, translated |-> [en |-> {MCSmaller}], migrations |-> Shop({"v1"}),
         readmes |-> {Readme(<<"v1", "README">>, "en", "one"), Readme(<<"v1", "README">>, "", "plain")}],
      second |->
        [documents |-> {MCDocument}, translated |-> [en |-> {MCDocument}], migrations |-> Shop({"v1", "v2"}),
         readmes |-> {Readme(<<"v1", "mysql", "README">>, "en", "other"), Readme(<<"v2", "README">>, "en", "two")}],
      broken |->
        [documents |-> {[MCSmaller EXCEPT !.ok = FALSE]}, translated |-> [en |-> {}], migrations |-> Shop({"v1"}),
         readmes |-> {Readme(<<"v1", "README">>, "en", "one"), Readme(<<"v9", "README">>, "en", "nine")}],
      misplaced |->
        [documents |-> {}, translated |-> [en |-> {}], migrations |-> <<>>,
         readmes |-> {Readme(<<"README">>, "en", "zero")}] ]

MCConfigs ==
    [ full   |-> [databases |-> {"default"}, models |-> {"orders"}, http |-> TRUE, grpc |-> TRUE,
                  mcp |-> "alone", sse |-> "hosted"],
      hosted |-> [databases |-> {"default"}, models |-> {}, http |-> FALSE, grpc |-> TRUE,
                  mcp |-> "hosted", sse |-> "none"],
      bare   |-> [databases |-> {}, models |-> {"orders"}, http |-> FALSE, grpc |-> FALSE,
                  mcp |-> "none", sse |-> "none"],
      orphan |-> [databases |-> {"orders"}, models |-> {}, http |-> TRUE, grpc |-> FALSE,
                  mcp |-> "none", sse |-> "alone"] ]

GoodsList == Append(ShopAdmin, "Goods") \o <<"List">>
UserList == Append(SystemAdmin, "User") \o <<"List">>

Empty == [tenants |-> <<>>, roles |-> <<>>, menus |-> <<>>, apis |-> {}, translations |-> {}, policies |-> {},
          history |-> {}, i18n |-> <<>>]

\* A tenant's administrator and a role of a tenant that is gone; a rule that is not whole.
Left == [Empty EXCEPT
    !.tenants = (1 :> "default" @@ 2 :> "acme"),
    !.menus = (1 :> {GoodsList} @@ 2 :> {UserList}),
    !.roles = (1 :> [tenant |-> 1, code |-> "tenant", menus |-> {1, 2}]
               @@ 2 :> [tenant |-> 2, code |-> "tenant", menus |-> {1}]
               @@ 3 :> [tenant |-> 3, code |-> "clerk", menus |-> {1}]),
    !.policies = {[tenant |-> "acme", role |-> "tenant", operation |-> GoodsList, method |-> "GET", whole |-> FALSE]}]

MCNameOrder == <<"default", "orders">>

Symmetry == Permutations(Instances)

MCDatabases == {Empty, Left}
=============================================================================
