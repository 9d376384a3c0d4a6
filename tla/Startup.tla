------------------------------ MODULE Startup ------------------------------
(***************************************************************************)
(* Instances of the application starting against one database: database    *)
(* clients (data/client.go), migrations and their descriptions             *)
(* (resource/migration), the synchronisation of interfaces, roles and      *)
(* rules (resource/resource.go), the transports and the application        *)
(* (server, mcp, sse, queue, bootstrap.go), and the release of what was    *)
(* opened when a step fails or the application ends.                       *)
(*                                                                         *)
(* Every step may fail, and an instance may crash between two steps.  The  *)
(* store is external: a transaction shows all of its writes at its commit  *)
(* or none, and one that has replaced the interfaces keeps others from     *)
(* replacing them until it ends.                                           *)
(***************************************************************************)
EXTENDS ApiCatalog, Permissions

CONSTANTS
    Instances,   \* processes that start against the database
    Releases,    \* [release -> what it ships: documents, translations, migrations, readmes]
    Configs,     \* [configuration -> its databases, the models' databases, each transport]
    Databases,   \* the contents the database may have at first
    NameOrder,   \* the names of databases, sorted
    MaxStarts,   \* bound: how often instances start
    None         \* no instance, no contents

\* The tables of the database.
Contents(d) ==
    d = [tenants |-> d.tenants, roles |-> d.roles, menus |-> d.menus, apis |-> d.apis, translations |-> d.translations,
         policies |-> d.policies, history |-> d.history, i18n |-> d.i18n]

Applied == [module : STRING, source : STRING, version : STRING]

ASSUME StartAssumption ==
    /\ DefaultTarget \in ToSet(NameOrder)
    /\ MaxStarts \in Nat /\ None \notin Instances
    /\ \A d \in Databases : Contents(d) /\ d.history \subseteq Applied
    /\ \A release \in DOMAIN Releases : Releases[release].migrations \in
         Seq([name : STRING, versions : SUBSET [source : STRING, version : STRING]])

\* An interface recorded under the package its operation is in.
OwnPackage(api) ==
    \E r \in DOMAIN Releases : \E doc \in Releases[r].documents : \E op \in doc.ops :
        api.operation = op.package \o <<op.service, op.rpc>> /\ api.path = op.path

\* The package of a service is among those that may be inferred for it; what the
\* database has at first is from such documents.
ASSUME DocumentsAssumption ==
    /\ \A d \in Databases : \A api \in d.apis : OwnPackage(api)
    /\ \A r \in DOMAIN Releases : \A doc \in Releases[r].documents :
         /\ Attributable(doc)
         /\ IsFiniteSet(doc.ops)
         /\ \A op \in doc.ops : /\ op.package \in Seq(STRING) /\ op.service \in STRING /\ op.rpc \in STRING
                                /\ IsFiniteSet(op.refs)

VARIABLES
    db,        \* the committed contents
    synced,    \* a synchronisation has committed
    writer,    \* the instance whose transaction has replaced the interfaces, or None
    inst,      \* each instance
    redescribed, \* instances another one has written descriptions since they read them
    resynced,  \* instances another one has synchronised since they read the rules
    starts     \* number of starts so far

ghosts == <<synced, redescribed, resynced>>
vars == <<db, synced, writer, inst, redescribed, resynced, starts>>

PCs == { "down", "clients", "load", "migrate", "describe", "describing", "parse", "apis", "translations",
         "roles", "rules", "commit", "refresh", "policies", "mcp", "sse", "http", "grpc", "queue", "job",
         "app", "running", "closing", "failed", "stopped" }

\* An instance: its place, its release and configuration, what has a cleanup and what
\* was cleaned up, in order, the servers that run, how many modules have migrated, what
\* it read of the descriptions, its view in a transaction, the interfaces it read for
\* its rules, its rules in memory, and whether no step has failed.
Fresh == [pc |-> "down", release |-> None, config |-> None, opened |-> <<>>, closed |-> <<>>, serving |-> {},
          migrated |-> 0, seen |-> None, view |-> None, apis |-> {}, memory |-> {}, ok |-> TRUE]

TypeOK ==
    /\ db.history \subseteq Applied
    /\ synced \in BOOLEAN
    /\ writer \in Instances \cup {None}
    /\ \A i \in Instances :
        /\ DOMAIN inst[i] = DOMAIN Fresh
        /\ inst[i].pc \in PCs
        /\ inst[i].release \in DOMAIN Releases \cup {None}
        /\ inst[i].config \in DOMAIN Configs \cup {None}
        /\ Len(inst[i].closed) <= Len(inst[i].opened)
        /\ inst[i].migrated \in Nat
        /\ inst[i].pc \in {"translations", "roles", "rules", "commit"} <=> writer = i
    /\ redescribed \subseteq Instances
    /\ resynced \subseteq Instances
    /\ starts \in 0..MaxStarts

Init ==
    /\ db \in Databases
    /\ synced = FALSE /\ writer = None /\ starts = 0
    /\ inst = [i \in Instances |-> Fresh]
    /\ redescribed = {} /\ resynced = {}

-----------------------------------------------------------------------------
Release(i) == Releases[inst[i].release]
Config(i) == Configs[inst[i].config]

Set(i, to) == inst' = [inst EXCEPT ![i] = to]
Local(i, to) == Set(i, to) /\ UNCHANGED <<db, writer, ghosts, starts>>
Goes(i, pc) == Local(i, [inst[i] EXCEPT !.pc = pc])

\* A provider returns an error: what was opened is released.  A transaction is lost.
Failing(i) == [inst[i] EXCEPT !.pc = "closing", !.ok = FALSE, !.view = None]
Fails(i) == Local(i, Failing(i))

Start(i, release, config) ==
    /\ inst[i].pc \in {"down", "failed", "stopped"}
    /\ starts < MaxStarts
    /\ starts' = starts + 1
    /\ Set(i, [Fresh EXCEPT !.pc = "clients", !.release = release, !.config = config])
    /\ UNCHANGED <<db, writer, ghosts>>

Crash(i) ==
    /\ inst[i].pc \notin {"down", "failed", "stopped"}
    /\ Set(i, Fresh)
    /\ writer' = IF writer = i THEN None ELSE writer
    /\ UNCHANGED <<db, ghosts, starts>>

-----------------------------------------------------------------------------
(* Clients. *)

\* NewClients: what is configured and what the models name, in the order of names.
\* A name without a configuration uses that of the default.
Names(i) ==
    SelectSeq(NameOrder, LAMBDA n : n \in Config(i).databases \cup Config(i).models)

Refuses(config) ==
    /\ config.databases # {}
    /\ DefaultTarget \notin config.databases \/ "" \in config.databases \cup config.models

NewClients(i) ==
    /\ inst[i].pc = "clients"
    /\ LET opened == inst[i].opened
       IN  \/ Config(i).databases = {} /\ Goes(i, "load")
           \/ Refuses(Config(i)) /\ Fails(i)
           \/ /\ Config(i).databases # {} /\ ~Refuses(Config(i))
              /\ Len(opened) = Len(Names(i))
              /\ Goes(i, "load")
           \/ /\ Config(i).databases # {} /\ ~Refuses(Config(i))
              /\ Len(opened) < Len(Names(i))
              /\ LET open == Append(opened, Names(i)[Len(opened) + 1])
                 IN  \/ Local(i, [inst[i] EXCEPT !.opened = open])
                     \* one that fails may already have something to release
                     \/ \E half \in {open, opened} : Local(i, [Failing(i) EXCEPT !.opened = half])

Clients(i) == ToSet(inst[i].opened)

-----------------------------------------------------------------------------
(* Migrations. *)

\* NewMigration: the descriptions are read before anything runs; without modules
\* neither runs.
LoadMigrations(i) ==
    /\ inst[i].pc = "load"
    /\ IF ~Loads(Release(i).readmes) THEN Fails(i)
       ELSE Goes(i, IF Release(i).migrations = <<>> THEN "parse" ELSE "migrate")

\* Migration.Run: module by module.  What a module that fails has applied stays.
Pending(i) ==
    LET module == Release(i).migrations[inst[i].migrated + 1]
    IN  {[module |-> module.name, source |-> v.source, version |-> v.version] :
            v \in {w \in module.versions : w.source \in Clients(i)}} \ db.history

RunMigrations(i) ==
    /\ inst[i].pc = "migrate"
    /\ IF inst[i].migrated = Len(Release(i).migrations) THEN Goes(i, "describe")
       ELSE \E applied \in SUBSET Pending(i) :
            /\ db' = [db EXCEPT !.history = @ \cup applied]
            /\ \/ applied = Pending(i) /\ Set(i, [inst[i] EXCEPT !.migrated = @ + 1])
               \/ Set(i, Failing(i))
            /\ UNCHANGED <<writer, ghosts, starts>>

\* syncDescriptionTranslations: the transaction reads, then writes what differs.
DescribeRead(i) ==
    /\ inst[i].pc = "describe"
    /\ IF Localised(Release(i).readmes) = {} THEN Goes(i, "parse")
       ELSE IF DefaultTarget \notin Clients(i) THEN Fails(i)
       ELSE /\ Set(i, [inst[i] EXCEPT !.pc = "describing", !.seen = [history |-> db.history, i18n |-> db.i18n]])
            /\ redescribed' = redescribed \ {i}
            /\ UNCHANGED <<db, writer, synced, resynced, starts>>

\* A row another instance has created meanwhile is a duplicate key.
Duplicate(i, texts) == (DOMAIN texts \ DOMAIN inst[i].seen.i18n) \cap DOMAIN db.i18n # {}

DescriptionRows(i, texts) ==
    LET seen == inst[i].seen.i18n
        same(k) == k \in DOMAIN seen /\ seen[k] = texts[k]
        written == {k \in DOMAIN texts : k.of \in inst[i].seen.history /\ ~same(k)}
    IN  [k \in DOMAIN db.i18n \cup written |-> IF k \in written THEN texts[k] ELSE db.i18n[k]]

DescribeWrite(i) ==
    /\ inst[i].pc = "describing"
    /\ \/ Fails(i)
       \/ \E texts \in Texts(Release(i).readmes) :
            IF Duplicate(i, texts) \/ ~Recorded(texts, inst[i].seen.history) THEN Fails(i)
            ELSE /\ db' = [db EXCEPT !.i18n = DescriptionRows(i, texts)]
                 /\ Set(i, [inst[i] EXCEPT !.pc = "parse", !.seen = None])
                 /\ redescribed' = redescribed \cup (Instances \ {i})
                 /\ UNCHANGED <<writer, synced, resynced, starts>>

-----------------------------------------------------------------------------
(* Synchronisation. *)

\* NewSyncResult, sync: translations and documents are parsed before the transaction.
Parsed == [r \in DOMAIN Releases |->
    [apis |-> UNION {OpenAPIDataToBaseAPI(doc) : doc \in Releases[r].documents},
     translations |-> UNION {UNION {OpenAPIDataToBaseAPII18N(doc, locale) : doc \in Releases[r].translated[locale]} :
                                locale \in DOMAIN Releases[r].translated}]]

ParseDocuments(i) ==
    /\ inst[i].pc = "parse"
    /\ IF \A doc \in Release(i).documents : doc.ok THEN Goes(i, "apis") ELSE Fails(i)

\* One step of the transaction, on its own view.
Writes(i, view, pc) ==
    /\ Set(i, [inst[i] EXCEPT !.view = view, !.pc = pc])
    /\ writer' = i
    /\ UNCHANGED <<db, ghosts, starts>>

Rollback(i) ==
    /\ Set(i, Failing(i))
    /\ writer' = None
    /\ UNCHANGED <<db, ghosts, starts>>

ReplaceApis(i) ==
    /\ inst[i].pc = "apis"
    /\ \/ Fails(i)
       \/ writer = None /\ Writes(i, [db EXCEPT !.apis = Parsed[inst[i].release].apis], "translations")

ReplaceAllTranslations(i) ==
    /\ inst[i].pc = "translations"
    /\ \/ Rollback(i)
       \/ Writes(i, [inst[i].view EXCEPT !.translations = Parsed[inst[i].release].translations], "roles")

SyncRoles(i) ==
    /\ inst[i].pc = "roles"
    /\ \/ Rollback(i)
       \/ Writes(i, SyncTenantRoleMenus(inst[i].view), "rules")

\* Mutant: the rules are built from what is committed, outside of the transaction.
RebuildFromCommitted(i) ==
    /\ inst[i].pc = "rules"
    /\ \/ Rollback(i)
       \/ \E pick \in Picks(db) :
            Writes(i, [inst[i].view EXCEPT !.policies = buildCasbinRuleList(db, pick)], "commit")

RebuildPolicyData(i) ==
    /\ inst[i].pc = "rules"
    /\ \/ Rollback(i)
       \/ \E pick \in Picks(inst[i].view) :
            Writes(i, [inst[i].view EXCEPT !.policies = buildCasbinRuleList(inst[i].view, pick)], "commit")

\* The commit keeps what is outside the transaction's tables as it is now.
Commit(i) ==
    /\ inst[i].pc = "commit"
    /\ \/ Rollback(i)
       \/ /\ db' = [inst[i].view EXCEPT !.history = db.history, !.i18n = db.i18n]
          /\ Set(i, [inst[i] EXCEPT !.pc = "refresh", !.view = None])
          /\ writer' = None
          /\ synced' = TRUE
          /\ resynced' = (resynced \cup Instances) \ {i}
          /\ UNCHANGED <<redescribed, starts>>

\* Mutant: the interfaces are those the instance has parsed.
RefreshOwnApis(i) ==
    /\ inst[i].pc = "refresh"
    /\ \/ Fails(i)
       \/ /\ Set(i, [inst[i] EXCEPT !.pc = "policies", !.apis = Parsed[inst[i].release].apis])
          /\ resynced' = resynced \ {i}
          /\ UNCHANGED <<db, writer, synced, redescribed, starts>>

\* RefreshPolicy: two reads outside of any transaction.
RefreshApis(i) ==
    /\ inst[i].pc = "refresh"
    /\ \/ Fails(i)
       \/ /\ Set(i, [inst[i] EXCEPT !.pc = "policies", !.apis = db.apis])
          /\ resynced' = resynced \ {i}
          /\ UNCHANGED <<db, writer, synced, redescribed, starts>>

Effective(apis, policies) == SuperRules(apis) \cup WholeRules(policies)

RefreshRules(i) ==
    /\ inst[i].pc = "policies"
    /\ \/ Fails(i)
       \/ Local(i, [inst[i] EXCEPT !.pc = "mcp", !.memory = Effective(inst[i].apis, db.policies)])

-----------------------------------------------------------------------------
(* Transports and the application. *)

\* mcp.NewServer, sse.NewServer: each has a cleanup once it is there; one that is
\* there and then fails has released itself.
NewTransport(i, name, next) ==
    /\ inst[i].pc = name
    /\ LET there == [inst[i] EXCEPT !.opened = Append(@, name)]
       IN  IF Config(i)[name] = "none" THEN Goes(i, next)
           ELSE \/ Fails(i)
                \/ Local(i, [there EXCEPT !.pc = next])

\* validateInProcessHTTPHost
Hosted(config) == config.http \/ (config.mcp # "hosted" /\ config.sse # "hosted")

\* NewHTTPServer: an error once the server is there stops it again.
NewHTTPServer(i) ==
    /\ inst[i].pc = "http"
    /\ IF ~Hosted(Config(i)) THEN Fails(i)
       ELSE IF ~Config(i).http THEN Goes(i, "grpc")
       ELSE \/ Fails(i)
            \/ Local(i, [Failing(i) EXCEPT !.opened = Append(@, "http")])
            \/ Goes(i, "grpc")

\* NewGRPCServer, queue.NewServer, job.NewServer have no cleanup of their own.
NewServer(i, name, next) ==
    /\ inst[i].pc = name
    /\ \/ Fails(i)
       \/ Goes(i, next)

\* NewApp: a transport hosted by the HTTP server is not one of its servers.
Servers(config) ==
    {"queue", "job"} \cup {name \in {"http", "grpc"} : config[name]}
                     \cup {name \in {"mcp", "sse"} : config[name] = "alone"}

RunApp(i) ==
    /\ inst[i].pc = "app"
    /\ Local(i, [inst[i] EXCEPT !.pc = "running", !.serving = Servers(Config(i))])

\* The application ends, or a server of it does not start: it stops them all first.
StopServer(i) ==
    /\ inst[i].pc = "running"
    /\ IF inst[i].serving = {} THEN Goes(i, "closing")
       ELSE \E name \in inst[i].serving : Local(i, [inst[i] EXCEPT !.serving = @ \ {name}])

\* Mutant: the cleanups run in the order of creation.
FirstOpened(i) == inst[i].opened[Len(inst[i].closed) + 1]

\* The cleanups run in reverse, those of the clients among them.
LastOpened(i) == inst[i].opened[Len(inst[i].opened) - Len(inst[i].closed)]

Cleanup(i) ==
    /\ inst[i].pc = "closing"
    /\ IF Len(inst[i].closed) < Len(inst[i].opened)
       THEN Local(i, [inst[i] EXCEPT !.closed = Append(@, LastOpened(i))])
       ELSE Goes(i, IF inst[i].ok THEN "stopped" ELSE "failed")

-----------------------------------------------------------------------------
Steps(i) ==
    \/ NewClients(i) \/ LoadMigrations(i) \/ RunMigrations(i) \/ DescribeRead(i) \/ DescribeWrite(i)
    \/ ParseDocuments(i) \/ ReplaceApis(i) \/ ReplaceAllTranslations(i) \/ SyncRoles(i)
    \/ RebuildPolicyData(i) \/ Commit(i) \/ RefreshApis(i) \/ RefreshRules(i)
    \/ NewTransport(i, "mcp", "sse") \/ NewTransport(i, "sse", "http") \/ NewHTTPServer(i)
    \/ NewServer(i, "grpc", "queue") \/ NewServer(i, "queue", "job") \/ NewServer(i, "job", "app")
    \/ RunApp(i) \/ StopServer(i) \/ Cleanup(i)

Next ==
    \E i \in Instances :
        \/ \E release \in DOMAIN Releases, config \in DOMAIN Configs : Start(i, release, config)
        \/ Crash(i)
        \/ Steps(i)

Spec == Init /\ [][Next]_vars
-----------------------------------------------------------------------------
(* Properties. *)

\* Once a synchronisation has committed, the rules in the database are those of the
\* roles, menus and interfaces in it, and every tenant's administrator has the menus
\* of the template: whatever fails, crashes or starts beside it.  The roles are
\* copied after the interfaces are replaced and before the rules are built
\* (resource.go:93, base_tenant.go:33).
RulesMatchRoles ==
    synced => /\ SyncTenantRoleMenus(db) = db
              /\ \E pick \in Picks(db) : db.policies = buildCasbinRuleList(db, pick)

\* An instance that has refreshed its rules enforces those of the database, the super
\* role on every interface included, as long as no other instance has synchronised
\* since it began to (RefreshPolicy reads twice, outside of the transaction).
MemoryFollows ==
    \A i \in Instances \ resynced :
        inst[i].pc \in {"mcp", "sse", "http", "grpc", "queue", "job", "app", "running"} =>
            inst[i].memory = Effective(db.apis, db.policies)

\* An instance past its descriptions has recorded every one of them, with a text of
\* its release, unless another instance wrote some since it read them
\* (syncDescriptionTranslations: a missing migration fails the start, sync.go:84).
DescriptionsRecorded ==
    \A i \in Instances \ redescribed :
        (/\ inst[i].pc \notin {"down", "clients", "load", "migrate", "describe", "describing"}
         /\ inst[i].ok /\ Release(i).migrations # <<>>) =>
            \E texts \in Texts(Release(i).readmes) :
                \A k \in DOMAIN texts : k \in DOMAIN db.i18n /\ db.i18n[k] = texts[k]

\* No interface is recorded under a package that is not its own: a name that could
\* stand for several is left out (buildServicePackageMap).
NoForeignPackage == \A api \in db.apis : OwnPackage(api)

\* What an instance opened it releases once, the last first, and only after its
\* servers have stopped, whether it ran or a step failed (NewClients, client.go:46).
ReleasedInReverse ==
    \A i \in Instances :
        /\ inst[i].closed # <<>> => inst[i].serving = {}
        /\ \A k \in DOMAIN inst[i].closed : inst[i].closed[k] = Reverse(inst[i].opened)[k]
        /\ inst[i].pc \in {"failed", "stopped"} => Len(inst[i].closed) = Len(inst[i].opened)
=============================================================================
