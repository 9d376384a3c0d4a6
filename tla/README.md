# kratos-core in TLA+

kratos-core is the core library of a Go service framework (Kratos v3): it gives a
host application its persistent job scheduler, request logging pipeline, queue
consumers, in-process gRPC client, SSE server, resource synchronisation, database
migrations and HTTP/gRPC servers.  This directory models the parts of it where
several goroutines, several processes or a failing store meet, checks them with
TLC on small instances, and proves what matters most with TLAPS for every value of
the constants.  Line numbers refer to the files of the repository.

* [The system](#the-system): its components, their state, operations and hazards
* [The modules](#the-modules): what each models and how it corresponds to the code
* [The runs](#the-runs): what each run checks, bounds, fairness
* [The proofs](#the-proofs)
* [What the models found](#what-the-models-found)
* [What is only model-checked, and what is not modelled](#what-is-only-model-checked-and-what-is-not-modelled)
* [Plan](#plan)

## The system

### Inventory

| Component | State it keeps | Operations | Interacts with | Hard because | Must hold |
|---|---|---|---|---|---|
| Job scheduler (`job/scheduler.go`, `job/server.go`, `job/job.go`) | the rows' `EntryID` (store), the entries of the cron service, `runContext`, `scheduleMu`, `runCancel` | `StartJob`, `StopJob`, `Reload` with rollback, `Server.Start`, `Server.Stop` | the host's job store, the cron service, the execution locker | every step may fail half way, the row outlives the process and the cron numbering does not, `RemoveAllJobs` takes no lock | no timer out of reach of its row; rows and cron agree; a reload registers exactly the enabled jobs; all calls return |
| Job execution (`job/execution.go`, `job/execution_lock.go`) | leases, the `JOB_LOG` stream | `RunJob`, the cron closure, `Acquire`, `Release` | Redis or memory locks, the queue | leases that expire while the body runs, crashes with a lease, panics | overlap only after a lost lease; logs in the order of leases; leases end |
| Log pipeline (`biz/base_log.go`) | process-wide emitter, bounded channel, `closed`, worker | `EmitLog`, `Emit`, `run`, cleanup | request middleware, the queue | send against close of a channel, a full buffer, draining at shutdown | no panic, nothing accepted lost, cleanup drains and returns |
| Log delivery (`biz/base_log.go`, `data/log.go`) | log tables, the stream's pending messages | `Consume`, `persist`, `LogMessagePrimaryKey` | the queue, the host's log store | redelivery, two consumers at once, a store call that fails after it wrote, key arithmetic at its limits | one row per event, none forgotten, keys in range and in order |
| Local gRPC streams (`client/localgrpc/conn.go`) | two channels of capacity one, three close-only channels, header, trailer, end | `SendMsg`, `RecvMsg`, `CloseSend`, `Header`, `SetHeader`, `SendHeader`, `SetTrailer`, the handler's return | client and handler goroutines, contexts | `select` takes any ready case: the end races the last message, the header its freezing | each direction is an ordered spool; header and trailer are final when shown; the end releases every blocked call |
| Client connection and local unary calls (`client/`, `client/localgrpc/conn.go`) | the chain of a connection, registered methods, the process's balancer | `NewConnection`, `CreateGrpcClient`, `RegisterService`, `Invoke`, `NewStream` | the application's own services or a remote one | the local chain and the remote chain order their stages differently | a call meets each stage once, or as often as it is retried |
| Client middlewares (`client/middleware/*`) | gauges, counters, the bucket of a connection, request ids | unary and stream interceptors of metrics, retry, rate limit, request id | each other, in the order of the chain | an error that is not retried is nil to the retrier; a stream ends through `SendMsg` or `RecvMsg`; attempts of several calls share a bucket | retries are justified, errors arrive, calls are counted once, attempts pay |
| SSE (`sse/`) | bound server and publisher, stream registry, a watcher per subscription | `NewServer`, `Serve`, `BindServer`, `UnbindServer`, `Register`, `DetachRequestContext` | HTTP server, token store | a detached context against deadline and disconnection; unbinding and revocation during use | only admitted subjects on streams of their tenant; subscriptions end |
| Resource synchronisation (`resource/resource.go`, `resource/biz/`) | APIs, translations, tenant roles, rules; in-memory policies | `sync`, `ReplaceAll`, `SyncTenantRoleMenus`, `RebuildPolicyData`, `RefreshPolicy` | permission store, Casbin | transaction and in-memory refresh are two steps, the refresh reads twice; two instances of two releases start at once | rules are those of roles, menus and interfaces; memory holds what the database holds |
| Migrations (`resource/migration/`) | migration history, translations of descriptions | `Run`, `syncDescriptionTranslations`, `stripSQLComments` | several databases | concurrent runs; a single pass with a mark over scripts | every description recorded; scripts lose their comments and nothing else |
| OpenAPI, locale, i18n (`resource/openapi`, `resource/locale`, `resource/i18n`) | documents per locale, the message catalogue | `Register`, look-ups, `NewCatalog`, `LocalizeError` | HTTP handlers, every error | fallback among keys, texts and locales | an internal text never reaches a client, a business text always does |
| Queue (`queue/`) | registered handlers | `NewServer`, the `JOB_LOG` handler, `AddQueue`, `ScheduleQueue` | queue adapters | the handler's shared `err` variable | a message's result is its own |
| Data clients (`data/client.go`) | clients by name, cleanups | `NewClients` | databases | one client of several fails | what was opened is released once, in reverse |
| Request pipeline (`server/`, `biz/auth.go`) | contexts of requests; tokens, policies and buckets they share | the middlewares of `NewHTTPMiddleware` and `NewGRPCMiddleware` | everything above | order of middlewares, two readings of one header, revocation in flight | who reaches a handler, with which tenant, within which limit, and what is logged |
| Assembly (`bootstrap.go`, `module/`, `config/`, `mcp/`) | the list of servers | `NewApp` | Kratos application | order of creation, failure half way | servers stop before what they use is released |
| Bodies in request logs, generated API | | | | formatting, generated code | |

### How the components interact

`NewApp` hands up to six servers to Kratos, which starts them together and stops them
together.  A request passes the middlewares of `server/`; the logging and
authorisation middlewares call `EmitLog`, which hands an event to the **log
pipeline**; its worker appends it to a queue stream, and the **queue server** hands
the message to `LogPipeline.Consume`, **log delivery**.  The host's job service calls
`Job.Start`, `Job.Stop` and `Job.Run`: the first two reach the **scheduler**, which
shares the rows of `JobStore` with every later process; `Run` and the cron entries
reach **job execution**, whose logs go to the queue as `JOB_LOG`.  Clients of the
application's own services use the **local connection**.  Before any of this,
`NewApp` opens the databases, runs the **migrations**, derives interfaces and rules
from the OpenAPI documents and loads them into the authorisation engine
(**startup**); the rules are what the **request pipeline** asks on every request.

## The modules

| Module | Models | Lines |
|---|---|---|
| `JobScheduler` | scheduler, `Server.Start`/`Stop`, restart | `job/scheduler.go`, `job/server.go`, `job/job.go` |
| `JobExecution` | an execution from trigger to release, on several instances | `job/scheduler.go:145-255`, `job/execution.go`, `job/execution_lock.go` |
| `LogPipeline` | emitter, channel, worker, cleanup | `biz/base_log.go:184-269` |
| `LogDelivery` | consumer, idempotent insert, keys | `biz/base_log.go:271-321, 398-421` |
| `LocalStream` | one stream of the local connection | `client/localgrpc/conn.go:196-585` |
| `Spool` | abstract: what a channel of this program promises | implemented by `LogPipeline` and, twice, by `LocalStream` |
| `ClientChain` | from a configuration to the chain of a connection | `client/connection.go`, `client/grpc.go`, `client/middleware.go`, `client/interceptor.go` |
| `ClientCall` | calls in these chains, over `ClientChain` | `client/middleware/*`, `client/connection.go`, `client/localgrpc/conn.go:85-176` |
| `Sse` | subscriptions from the request to the end of their stream | `sse/`, `server/http.go:189-219` |
| `ApiCatalog` | operators: the interfaces of a document | `resource/biz/base_api.go` |
| `Permissions` | operators on the contents of the database: roles, rules, descriptions | `resource/biz/base_tenant.go`, `resource/biz/casbin_rule.go`, `resource/migration/` |
| `Startup` | instances that start and end, over `ApiCatalog` and `Permissions` | `data/client.go`, `resource/resource.go`, `resource/migration/`, `bootstrap.go`, servers |
| `Catalog` | operators: the message catalogue and errors | `resource/i18n/`, `errorsx/` |
| `Gateway` | requests in the server's middlewares, over `Catalog` | `server/`, `biz/auth.go` |
| `SqlComments` | one pass over a migration script, and its reference definition | `resource/migration/description.go:166-353` |
| `*Proofs` | theorems | |
| `MC*` | instances for TLC | |

All models take the code as goroutines that interleave between shared accesses: an
action is the code between two points where another goroutine, a failure or a crash
can be noticed (a lock, a channel operation, a call of the store, the cron service or
the queue).  Operators named `Mutant: ...` are not part of any specification; each is
a plausible wrong version of the definition after it, kept to show that the
properties depend on it.

### JobScheduler

`row[j]` is the `EntryID` of the stored row and `timers` what the cron service has
registered; `row` survives `Restart`, `timers` and its numbering `lastID` do not.
Only the holder `mu` of `scheduleMu` runs `startJob` or `stopJob`, so their locals are
one variable `frame`, whose `pc` names the next store or cron call: `StopFind`,
`StopUpdate`, `StopRemove` and `StartFind`, `StartRegister`, `StartUpdate`,
`StartUndo`, `StartReplace`.  Each of the store calls may fail; a failed lookup of the
executor or the arguments, and a refused cron expression, are the failures of
`StartFind` and `StartRegister`.  `Reload*` and `Rollback*` are the loop of
`reloadJobs`, with `startedJobs` as its slice and `undo` as the loop variable of the
backward walk.  `phase` is where `Server.Start` or `Server.Stop` is.
A host goroutine's `CallJob` passes a record whose `EntryID` is the row's or, stale,
zero.

### JobExecution

`shared` says whether the locker is in Redis mode.  `pc[x]` walks execution `x` through `Prepare` (the checks of `RunJob`), `Acquire`,
`Body`, `Log` (the deferred function of `Execute`), `Release`.  `held` are the leases;
`Expire` takes a shared lease away, under a running execution only if `MayLose`.
`SameKey` says whose leases exclude each other: one job everywhere with Redis, one job
in one instance without.  `Crash` ends an instance at any point.  `AddQueue` may drop
the log.

### LogPipeline

The events channel is a sequence with `chanClosed`; `stateMu` is `readers` and
`writer`.  `EmitLog`, `EmitLock`, `EmitCheck`, `EmitSend`, `EmitUnlock` are the steps
of `EmitLog` and `Emit`; `Receive` and `AppendEvent` the worker, which may fail to
serialise or append; `Uninstall`, `CloseLock`, `Mark`, `CloseChannel`, `CloseUnlock`,
`Wait` the cleanup function, which several goroutines may call.  `accepted` and
`handled` are histories, and the refinement of `Spool` is in terms of them.

### LogDelivery

The queue is external: `Deliver` hands a message to an idle consumer as long as no
consumer returned nil for it.  `Create` succeeds, fails before the write, or fails
after it; `Exists` may fail as well; `Die` ends a consumer between its steps.  A
table refuses a key it has (`Write`).  `Fits` and `PrimaryKey` are
`LogMessagePrimaryKey`; the shift and the bitwise or of the code are a product and a
sum here, equal because the sequence number is below `SequenceLimit`.  The hash is a
constant operator; `DistinctKeys` assumes that it does not collide.  The event kind
is empty or `"api"` alike, since `normalizeLogEvent` maps the first to the second.

### LocalStream

The two channels of capacity one hold at most one message, named by its number.
`clientSendClose`, `headerReady` and `done` are the close-only channels.  A blocking
`select` is an action with one disjunct per case, any of which may be taken when it is
ready.  Metadata is the number of joins made.  The handler may send from a goroutine of
its own and return while that goroutine is inside `SendMsg`, as a Go handler may;
`leftBehind` records it.  The calls of a client's two goroutines (one sends, one receives)
interleave freely.  The model has one context per stream.

### ClientChain and ClientCall

A configuration becomes a sequence of stages, outermost first (`RemoteUnaryChain`,
`LocalUnaryChain`, and those of streams).  The builders are operators because
they run once, in one goroutine, before the first call; what they refuse
(`BuildFails`, `CreateFails`) is what `NewLocal` and `NewRemote` fail with.
`call[c].at` is the stage a call is in, on its way down or up, in the chain its
connection made before the first call (`Chains`); each interceptor has an action for
the way down and one for the way up, and `Pass` is the stages that only hand the call
on, those of `Passive` in both directions.  A retry sends the call down again from its
own stage.  `Serve` is the service, which may answer with any of `Outcomes` or panic; a
panic unwinds to the recovery of the chain, if it has one.
`LocalServices` is the registration of generated services in the order they are given,
which stops at the first method that is there already (`Repeated`).
`sent`, `paid` and `counted` are histories.

### Sse

A request has its own context (`own`: live, past its deadline, or cancelled) and the
one of its stream.  `Open` is `DetachRequestContext`: it starts the watcher, which
`WatcherWakes` when the first ends and `WatcherFinishes` when the handler has
returned.  `Authenticate` and `Resolve` are the two checks, for each of the two ways
to subscribe; tokens may be revoked and the server unbound or stopped between them.
`Registers` is `Registry.Register` with its rollback.

### Startup, ApiCatalog and Permissions

`db` is what is committed.  An instance walks through the providers of `NewApp` in the
order wire gives them; every step may fail, which sends it to `closing`, and a crash
drops it at once.  A transaction works on a `view` that `Commit` makes the contents;
`writer` is the instance whose transaction has replaced the interfaces, which keeps
others from doing so until it ends.  `RefreshApis` and `RefreshRules` are the two
reads of `RefreshPolicy`.  What the transaction computes is in `ApiCatalog` (the
package of a service is inferred from the schemas its operations refer to) and
`Permissions` (a role's menus name operations, the operations interfaces).  Where the
code ranges over a map, the operator has every result the order can give (`Picks`,
`Texts`).  `redescribed` and `resynced` remember which instances another has overtaken.

### Gateway and Catalog

`Chain` is the list of middlewares a configuration gives a transport, and each
middleware is one action: what it decides before it calls the next.  `LogEnds` and
`I18nEnds` are the two that act on the way back.  Tokens may be revoked
(`Revoke`), rules withdrawn (`Withdraw`) and buckets refilled (`Refill`) at any point.
A rule is the record `Permissions` makes of it, of a tenant, a role, an operation and a
method; `AuthzClaims` asks for the one of the caller's own tenant, and the engine, an
external library, looks for exactly that.  The instance has roles of one name in four
tenants, one of which has no rule for it.
A message is a set of tenant fields, each at the path of its message types, because
`applyTenantScope` recurses by type.  `trail` is the events handed to `EmitLog`.
`Catalog` builds the message catalogue from language files, as `NewCatalog` and
`NewI18n` do, and `LocalizeError` is what the client sees of an error.

### SqlComments

One action per state of the scanner and kind of character; the variables are those of
`stripSQLComments`.  `Stripped` says the same of tokens and lines, with no mark and no
flags: a comment goes, the blanks before it go when nothing else stands before it, and
a line of nothing but comments and blanks goes with its end.

### Spool

An item goes in while the spool is open, comes out in order, and the spool is over
only when it is closed and empty.  `LogPipeline` implements it with the cleanup's mark
as closing and the worker's end as the end.  In a stream the client's direction closes
with `CloseSend` and is over with the handler's `io.EOF`; the handler's direction
closes when the handler has returned and is over with the client's `io.EOF`, unless
the handler left a sender behind, in which case it never closes.  A
direction that ends by an error or by cancellation is not over: the code lets an error
of the handler overtake a message that is still in the channel (`conn.go:545-548`),
and nothing in the repository promises otherwise.

## The runs

| Run | Question | Bounds |
|---|---|---|
| `JobScheduler` | do rows and cron entries stay accountable, and does every call return, under concurrent calls, a reload and its rollback, failures at each call and a restart between any two steps? | 2 jobs, 2 processes in a row, 1 caller, 2 registrations each |
| `JobSchedulerStale` | (violation) does a reload of a second process register the enabled jobs? | 2 processes, 2 registrations each |
| `JobExecution` | exclusion, order of logs and end of leases, with Redis (leases may be lost) and without | 2 jobs, 2 instances, 2 executions, both modes |
| `LogPipeline` | no panic on the channel, nothing lost, a complete drain, an implementation of `Spool`; do `EmitLog` and cleanup return? | 2 emitters with 2 events each, 2 closers, a buffer of 1 |
| `LogDelivery` | one row per event, none forgotten, keys in order | 6 messages at the limits of the key, 2 consumers, 2 deliveries each |
| `LocalStream` | metadata final, each direction a `Spool`; does the end release every blocked call? | 2 messages each way, 1 addition to each metadata |
| `ClientCalls` | are retries justified and errors delivered, are calls counted once and attempts paid, does an id last? | 2 calls, 3 methods, 2 connections in 7 pairs of configurations, 2 attempts, a bucket of 1 refilled once |
| `Sse` | who gets on a stream, and does a subscription end? | 2 requests, 5 configurations, 3 declarations of streams, 3 tokens |
| `SseDisconnect` | (violation) does a client that leaves after its deadline end its stream? | the same |
| `Startup` | what do instances commit, hold in memory and release, whatever fails? | 2 instances, 2 starts, 4 releases, 4 configurations, 2 databases |
| `Gateway` | who reaches a handler, with which tenant, within which limits, and what is logged and shown? | 2 requests, 8 tokens, 6 configurations, 1 refill |
| `SqlComments` | does the scanner give what the reference gives? | every script of up to 4 of 14 pieces |

Why the bounds are enough for the cases named: two jobs are what a rollback needs (one
started, one failing), what the stale-number case needs (a later row that names the
number of an earlier one) and what a reverse order needs; two registrations in each
process let a job be replaced, or one registered beside another, and the second
process starts on every row the first can leave.  One calling goroutine beside the
life cycle is enough for two to contend for `scheduleMu`.  Two executions are a holder
and a contender, and every property of `JobExecution` is about a pair; three were
checked in each mode once.  A buffer of one with
four events is full and empty in every order, and two closers are the repeated cleanup.
Two messages fill a channel of capacity one and block the sender behind it.  The keys
of `LogDelivery` have two bits for the sequence number and six in all, with
messages at the last value that fits and the first that does not, in both parts.
The configurations of `ClientCalls` are one for each difference in the order of stages,
each option that changes what a stage does, and each way a connection can fail to be
made; two calls compete for the one token.  Two instances and two starts are a start
beside another, and a start on what another release left; three starts were checked
once.  The requests of `Gateway` are one that tries every token, body, answer and
transport, and one of the same or another user of the same tenant beside it.  Four
pieces are an opening, its content, an end and something after it, and five were
checked once; a script of `SqlComments` has up to eight characters.
Symmetry is used for jobs and callers (`JobSchedulerStale`), consumers (`LogDelivery`)
and instances (`Startup`), whose members those modules treat alike; a run with a
liveness property uses none.

Each system's `TypeOK` is left to the proofs: it is a theorem wherever it is stated.

Deadlock is checked for the scheduler.  The other systems stop by design once their
bounded work is done, and their runs say so (`CHECK_DEADLOCK FALSE`); what must not
block there is a liveness property.

### Fairness

* `JobScheduler`: store and cron calls return, so the holder of the mutex goes on
  (weak); Go's mutex hands itself to a waiter after a millisecond, so a goroutine that
  waits gets it (strong).  Nothing makes the host call, Kratos stop, or the process
  restart.
* `JobExecution`: queue and lock calls return, deferred functions run and Redis
  expires the key of an execution that is gone (weak).  Nothing makes the body of a
  job return, so `LeaseEnds` starts once the body is over.
* `LogPipeline`: goroutines run and `Append` returns (weak), the RWMutex is fair to
  waiters (strong).  Nothing makes anyone call `EmitLog` or the cleanup function.
* `Sse`: the watcher is a goroutine and runs; the transport leaves a stream whose
  context or server has ended (weak).  Nothing makes a client leave.
* `LocalStream`: a call whose `select` has a ready case returns (weak).  Nothing makes
  the handler or the client call, nor the handler return.

## The proofs

Each `*Proofs` module states an inductive invariant, proves that `Init` establishes it
and that each action preserves it (one lemma per action, one step per conjunct), and
derives the theorems from it.

**JobSchedulerProofs**, for any jobs, callers and number of restarts, from
`SchedulerConstants`.  `TimersAccounted` is not inductive alone: that `StopRemove`
removes the row's old entry, and not another's, needs `FrameKnowsRow` (the frame holds
the number the row named when it was read, and the row holds what the operation last
wrote); that nothing else changes the row in between needs `LockDiscipline`; that the
rollback's walk stays in its slice is `UndoInRange`.  `NoOrphanTimer` follows: when the
mutex is free there is no frame, so no timer is being registered or removed.  The proof
covers restarts, since a new process starts with no timers.

The other four invariants of the scheduler follow from a second inductive invariant,
`ReloadInv`, over the first.  `ServerState` says what the phase of the server implies
for `runContext`, the cron service and the locker, and gives `ServingIsOperational`.
`StopFrames`, `StartFrames` and `CallerTimers` say which numbers the frame of an
operation and the record of a caller may hold.  `Undone` says what the rollback has
behind it, and gives `RollbackUndoesReload` when no undo failed; `Processed` what the
loop of `reloadJobs` has behind it.  The rest is needed for the last two: a registration
that carried a stale number could remove the timer of another job, and only `OneOwner`
says that in the first process no number is taken for one of two jobs.  Under it
`Agreed` (`StoreAgreesWithCron`) and `Registering` (`FirstReloadRegistersEnabled`) are
kept, each with the help of the other, so they are proved together.  All of these are
about the first process on a store; in a later one the last two fail (see below).

**JobExecutionProofs**, for any jobs, instances and executions, both modes of the locker
and any crashes, from `ExecutionConstants`.  `OverlapOnlyAfterLoss` speaks of now, and
what it needs of the past is in the history `grants`: `HandedOver`, that a lease under a
key is granted only when the earlier ones are released or lost.  `LoggedAtEnd` and
`InOrder` say that a log follows the end of the body and precedes the release, so that
logs stand in the order of grants (`LogsFollowGrants`).  `MemoryKeeps` says that without
Redis no lease is lost, hence `MemoryExcludes`: no overlap at all.

**LogProofs** on `LogPipeline`, for any emitters, closers and capacity, from
`PipelineConstants`. `NoChannelPanic` needs that readers and the writer of `stateMu`
exclude each other and that `closed` and `chanClosed` differ only inside the writer's
section. `Conservation` is inductive by itself with the worker's `current`;
`CleanupDrains` adds that the worker ends only on a closed, empty channel.
`ImplementsSpool` maps each step to a step of `Spool` or a stutter.

**LocalStreamProofs**, for any number of messages and metadata, from
`StreamConstants`.  The invariant says what each control point implies (`MetadataInv`:
the header is frozen before `headerReady` is closed; `EndInv`: what the client knows
once the end has reached it; `UpInv`, `DownInv`: what was sent is what was received
followed by what the channel holds).  A sender left behind may still put a message into
the channel after the handler returned and the client saw `io.EOF`; the mapping of
`DownstreamImplementsSpool` therefore calls such a direction open for good.

**LogProofs** on `LogDelivery`, for any consumers, messages, deliveries, hash and key
width, from `DeliveryConstants` and `DistinctKeys`. The invariant `Keyed`: a message
with a key has one row exactly when its key is in its table. It gives `RecordedOnce`
(the table refuses the key) and `AckedIsRecorded` (a key `Exists` finds is the message's
own, not another's). `OrderedKeys` adds arithmetic: the largest time that fits leaves
room for every sequence number.

**ClientCallProofs**, for any connections, configurations, calls and methods, from
`ClientConstants` and `ClientCallConstants` (numbers of a configuration are unsigned,
requests name methods and configurations name services that exist). A chain is what `Chain` makes of a configuration, so
its order is proved first: `ChainStages` gives every stage a rank that rises along each
chain (`InnerRank`, and `OuterRank` for a unary call of a remote connection, whose
middlewares stand outside its interceptors) and says which stages a chain has
(`MadeOf`). The stages a call has entered and not left are a prefix of its chain
(`Passed`), so a rank tells which others it is inside of (`Around`). Per call, `Sound`
relates what it has sent, paid and counted to that prefix: inside the retrier less has
been sent than was tried, each answer but the one on its way up was worth a retry, and
outside it nothing was sent on the way down (`Repeats`, hence `RetriesJustified`); the
code on its way up is that of the last answer (`Truthful`, `SuccessIsReal`), a panic
excepted, which goes up no further than the first stage that recovers it (`Clean`); it
is counted where it has left the metrics (`Counts`); inside the limiter one attempt more
is paid than was sent (`Pays`); inside the stage that adds the header the context has
one id, that of every attempt (`Carries`, `Labelled`, `OneRequestID`). Over all calls, a
gauge that is up has a call that holds it (`Gauged`, the second half of `CountedOnce`),
and tokens there and spent are at most the bucket and its refills (`Balanced`,
`PaidAttempts`). Every action of a call is one of six kinds of step (`Descends`,
`Returns`, `Refuses`, `Served`, `TriesAgain`, and those without a stage), and each
action's lemma says of which kind it is.

**SseProofs**, for any requests, claims and declarations, from `SseConstants`.  `Vetted`
says what each place on the way to a stream has established: that the claims admit the
caller to the stream it names, its tenant, and, once resolved, that the stream is
registered and the transport's id is the one of that tenant.  The registry only grows,
so an id that was found stays.  `SubscribersAuthorized` is its last line.

**GatewayProofs**, for any requests, configurations, tokens, rules and messages, from
`GatewayConstants`, `KeyNames` and `MessagesAssumption`.  A chain depends on the
configuration, so its order is stated as the links two neighbouring stages may have
(`Links`), and `Walks` says that what is left of
a request's chain is linked and ends with the handler: a stage cannot be skipped.
`Checked` then says which checks the place of a request implies (`HandledIsAllowed`),
with `Remembers` for tokens and rules of the caller's tenant that have gone since; `Confined` what its message
holds (`TenantConfined`); `PolicyTraced` and `ApiTraced` which events are out, and that
they say what the client is told (`OneTrail`).  `LimitsSeparate` has an invariant of its
own, `LimitInv`: `Balanced` relates what a bucket has taken to the number of policies
that were granted under its key, over all requests (`MoreShares` counts what one more
request adds); `Admitted` says that no bucket of a request that was let through exceeds
that request's limit, which for another request needs that equal keys mean the same
operation and the same dimension; `Refused` that there was no room for who was refused,
and that there would be none now.

`ErrorsSayEnough` joins two arguments.  One is about the catalogue alone: a key found by
its text is one of the catalogue (`SourceIsKey`), so an internal error always ends at a
key that has a message (`InternalIsHidden`), and another error whose key was made from
its text ends at the text or at a translation (`BusinessKeepsItsText`).  They need
`MessagesAssumption`: message files name no key that is made from a text, have the
message of internal errors, as the four files of Core do, and have every message in the
default language; and errors are made by the constructors of `errorsx` or by other
libraries, so that only business errors carry a key of their own (`WellMade`).  Nothing in
the code checks that a file is complete: for a default language without a message, or an
internal error with an unknown key of its own, `Localize` does fall back to the error's
own text, and the theorem does not speak of it.  The other argument is that requests
bring the catalogue exactly such errors: `ToldInv` says that every reply is well made,
that the localisation is on a request's stack only where the catalogue of its
configuration is valid and not empty, with that configuration's default language, and
that what was shown is what the catalogue makes of the reply, which no later step
replaces.

**StartupProofs**, for any instances, releases, configurations and contents, from
`StartAssumption`.  Per instance, `Typed`, `Views` (what a transaction has done so far
on its own view), `Releasing` (what is closed is the reverse of what was opened, from
its end), `Enforces` and `Describing` (what is held in memory or was written, unless
another instance wrote since); over all of them that `writer` is the only one inside a
transaction.  With the writer alone, what `Commit` makes the contents is `Copied` and
`Ruled` (`RulesMatchRoles`).  The lemma `Stepped` reduces each action to what it does to
its own instance.

`NoForeignPackage` has an invariant of its own, `ApisInv`: the interfaces of the
database, and those of the view of the one open transaction, are recorded under the
package of an operation of some release.  It rests on `DocumentsAssumption`.  An
operation id names a service and no package, so `buildServicePackageMap` takes the
package from the schemas that the service's operations refer to, and where they refer to
none, the only package its terminal has; the assumption says that the package of a
service is among those it refers to or, where it refers to none, among those of its
terminal (`Attributable`).  That is what the code relies on: where it fails, in either
case, the code records another module's package, and the theorem says nothing.  What
the code adds, and the theorem shows, is that of several candidates none is chosen
(`OnlyCandidate`: the only candidate is the own package), and that this survives every
replacement, roll-back and crash.

## What the models found

`JobSchedulerStale`: `ReloadRegistersEnabled` is violated in a second process.  A row's
`EntryID` survives the first process, and the cron service of the second counts its
entries from 1 again.  `reloadJobs` handles one row after the other: `stopJob` of the
second row removes "its" entry by the old number, which by now may be the entry just
made for the first row (`scheduler.go:138`).  `Server.Start` returns nil, and an enabled
job whose row names an entry does not run.  A crash is not needed: `Server.Stop`
clears the cron service but not the rows, so an ordinary restart is enough.
`README.md:120` says that the scheduler reloads the enabled `BaseJob` rows when it
starts.  In the first process, where no stale number exists, the same holds
(`FirstReloadRegistersEnabled`, run `JobScheduler`), and so does `StoreAgreesWithCron`.

`SseDisconnect`: `DisconnectHeard` is violated.  `DetachRequestContext` is to drop the
deadline of the service and to keep the cancellation that a client's leaving brings
(`sse/context.go:10`).  Its goroutine returns as soon as the request's context ends,
for whatever reason, and when the reason was the deadline it cancels nothing: whoever
leaves after the deadline is not noticed by the context any more, only by a write that
fails.

Noted while modelling, each in the model but against no promise of the repository:
`stripSQLComments` leaves nothing in the place of a comment, so `1 -/**/- 1` and
`SELECT/**/1` change their meaning; the user of an API log is read with
`TrimPrefix("Bearer ")` while authentication accepts the word in any case
(`logging/utils.go:24`), so `OneTrail` compares users for that spelling only; over gRPC
an API log has no request id (`logging.go:50`); a handler that panics leaves no API
event (`logging.go:73`); a tenant field inside a message of its own type is not
visited (`tenant.go:101`), so `TenantConfined` speaks of the fields that are; where the
default language in the cache has no message for an internal error, its own text is shown
(`i18n.go:128` falls back to it), which `MessagesAssumption` excludes; an
error of code 503 is logged as such and shown as 500 (`i18n/error.go:70`); an instance
that started first enforces the rules of its own start until it refreshes, and a commit
of another instance between the two reads of `RefreshPolicy` mixes two releases
(`casbin_rule.go:91`), which is what `resynced` excludes from `MemoryFollows`; where two
instances write descriptions at once, the second to create a row fails and the last to
change one prevails, which is what `redescribed` excludes from `DescriptionsRecorded`.

## What is only model-checked, and what is not modelled

Only model-checked, and why:

* all liveness properties, and the fairness they rest on: the provers have no rule for
  `WF_` and `SF_` of these actions;
* `StripsExactlyComments`: its reference definition is recursive over a script.

Left out of the modelled components: the middlewares of a local stream, which run inside
its handler and retry nothing (`connection.go:217`; `LocalStreamChain` ends where the
stream is made); the cleanup function of the log pipeline among what `Startup` releases;
the prompts of tools (`terminalToolPrompt`); two processes on one job store at the same
time; a store call of the scheduler that reports an error although it wrote; the
construction of more than one log pipeline in a process; the contents of log records;
a stream context that a server interceptor ends apart from the caller's; the response
metadata of local unary calls; TLS, credentials and durations of the client; the
publishing of events over SSE, which promises no delivery; `RebuildPolicy` called by a
host at run time; the bodies of logged requests, their redaction and abbreviation.

Not modelled: the OpenAPI registry and the negotiation of locales are look-ups over
documents that change only while `NewApp` runs in one goroutine, and tests cover them;
the `JOB_LOG` handler's shared variable bites only if the queue adapter, which is in
another module, calls it twice at once; generated code.  `PROJECT.json` gives the reason
for each component.

## Plan

Done: every component of the inventory that has state, as far as the previous section
says, and `Spool`, the abstract channel that the pipeline and both directions of a
stream implement.

Proved: every safety invariant that a run checks but `StripsExactlyComments`, the
refinements of `Spool`, and type correctness of every system that states it.

Left: a composition of `LogPipeline` with `LogDelivery`, whose interface is so far the
stream between them: `LogProofs` has the theorems of both halves side by side, and
none about an event from `EmitLog` to its row.
