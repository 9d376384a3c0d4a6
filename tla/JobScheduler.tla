---------------------------- MODULE JobScheduler ----------------------------
(***************************************************************************)
(* The persistent job scheduler of package job: job/scheduler.go,          *)
(* job/job.go and the life cycle of job/server.go.                         *)
(*                                                                         *)
(* A BaseJob row of the host's store keeps the number of its cron entry    *)
(* (EntryID, 0 when the job is not scheduled).  The store outlives the     *)
(* process, the cron service and its numbering do not.  Start, Stop and    *)
(* Reload change the row and the cron service in several steps under       *)
(* scheduleMu, any store call may fail, RemoveAllJobs takes no lock, and   *)
(* the process may die between any two steps.                              *)
(*                                                                         *)
(* Only the holder of scheduleMu runs startJob or stopJob, so their        *)
(* locals are one variable, frame.                                         *)
(***************************************************************************)
EXTENDS Naturals, Sequences, FiniteSets

CONSTANTS
    Jobs,        \* the BaseJob rows of the store
    Callers,     \* goroutines of the host that call Job.Start and Job.Stop
    Main,        \* the goroutine of the Kratos application running Server
    None,        \* no job, or nobody
    MaxEntryID,  \* bound: registrations of one cron service
    MaxLife      \* bound: processes that run one after the other on the store

ASSUME SchedulerConstants ==
    /\ Main \notin Callers
    /\ None \notin Jobs \cup Callers \cup {Main}
    /\ MaxEntryID \in Nat
    /\ MaxLife \in Nat

VARIABLES
    row,         \* store: EntryID of each BaseJob
    enabled,     \* store: the jobs whose status is enabled
    timers,      \* the entries registered in the cron service
    lastID,      \* the last entry number the cron service gave out
    cronOn,      \* the cron service is running
    mu,          \* holder of scheduleMu
    frame,       \* locals of the startJob or stopJob under way
    calls,       \* the call each goroutine of Callers is in
    phase,       \* where Server.Start or Server.Stop is; "idle": s.mu is free
    todo,        \* reloadJobs: listed rows not visited yet
    listed,      \* reloadJobs: EntryID of the rows when they were listed
    startedJobs, \* reloadJobs: the records registered so far
    undo,        \* reloadJobs: how many of startedJobs the rollback has left
    runContext,  \* Scheduler.runContext
    cancelled,   \* the run context of this process is cancelled
    serving,     \* Server.Start succeeded and Stop has not begun (runCancel # nil)
    lockerOpen,  \* the execution locker has not been closed
    begun,       \* the life-cycle calls made so far
    life         \* the process, counted from 1

store     == <<row, enabled>>
cronVars  == <<timers, lastID, cronOn>>
reloading == <<todo, listed, startedJobs, undo>>
server    == <<runContext, cancelled, serving, lockerOpen, begun>>
vars      == <<store, cronVars, mu, frame, calls, phase, reloading, server, life>>

-----------------------------------------------------------------------------
Timer      == [id : Nat \ {0}, job : Jobs, ctx : {"run", "caller"}]
JobRecord  == [job : Jobs, entry : Nat]
NoCall     == [kind |-> "none", job |-> None, entry |-> 0]
Call       == {NoCall} \cup [kind : {"start", "stop"}, job : Jobs, entry : Nat]

NoFrame    == [pc |-> "none", job |-> None, entry |-> 0, new |-> 0]
ActiveFrame == [pc : {"stop.find", "stop.update", "stop.remove",
                      "start.find", "start.register", "start.update",
                      "start.undo", "start.replace", "ok", "fail"},
                job : Jobs, entry : Nat, new : Nat]
Frame       == {NoFrame} \cup ActiveFrame

\* The frame of stopJob or startJob called with a record of job j.
FrameAt(pc, j, entry) == [pc |-> pc, job |-> j, entry |-> entry, new |-> 0]

Phases     == {"idle", "lock", "list", "each", "stopping", "starting",
               "rollback", "undoing", "error", "remove", "clear"}

TypeOK ==
    /\ row \in [Jobs -> Nat]
    /\ enabled \in SUBSET Jobs
    /\ timers \in SUBSET Timer
    /\ lastID \in Nat
    /\ cronOn \in BOOLEAN
    /\ mu \in Callers \cup {Main, None}
    /\ frame \in Frame
    /\ calls \in [Callers -> Call]
    /\ phase \in Phases
    /\ todo \in SUBSET Jobs
    /\ listed \in [Jobs -> Nat]
    /\ startedJobs \in Seq(JobRecord)
    /\ undo \in Nat
    /\ runContext \in {"nil", "run"}
    /\ cancelled \in BOOLEAN
    /\ serving \in BOOLEAN
    /\ lockerOpen \in BOOLEAN
    /\ begun \in SUBSET {"start", "stop"}
    /\ life \in Nat

-----------------------------------------------------------------------------
\* A new process: empty cron service, no run context, nothing under way.
ProcessInit ==
    /\ timers = {} /\ lastID = 0 /\ cronOn = FALSE
    /\ mu = None /\ frame = NoFrame
    /\ calls = [c \in Callers |-> NoCall]
    /\ phase = "idle"
    /\ todo = {} /\ listed = [j \in Jobs |-> 0] /\ startedJobs = <<>> /\ undo = 0
    /\ runContext = "nil" /\ cancelled = FALSE
    /\ serving = FALSE /\ lockerOpen = TRUE /\ begun = {}

\* The store of a first deployment: no row has an entry number yet.
Init ==
    /\ row = [j \in Jobs |-> 0]
    /\ enabled \in SUBSET Jobs
    /\ life = 1
    /\ ProcessInit

\* The entry number both operations work on: the row's when it has one, the
\* caller's otherwise.
EffectiveEntry(j, entry) == IF row[j] > 0 THEN row[j] ELSE entry

\* cron.Server.StopTimerJob: forgets the entry with this number, if there is one.
StopTimerJob(id) == timers' = {t \in timers : t.id # id}

\* The context a timer registered now runs its job with.
ExecutionContext == IF runContext = "nil" THEN "caller" ELSE runContext

Goto(pc) == frame' = [frame EXCEPT !.pc = pc]

(***************************************************************************)
(* stopJob: read the row, clear it, then remove the entry.                 *)
(***************************************************************************)
StopFind ==
    /\ frame.pc = "stop.find"
    /\ \/ frame' = [frame EXCEPT !.pc = "stop.update",
                                 !.entry = EffectiveEntry(frame.job, frame.entry)]
       \/ Goto("fail")
    /\ UNCHANGED <<store, cronVars, mu, calls, phase, reloading, server, life>>

StopUpdate ==
    /\ frame.pc = "stop.update"
    /\ \/ /\ row' = [row EXCEPT ![frame.job] = 0]
          /\ Goto("stop.remove")
       \/ /\ Goto("fail")
          /\ UNCHANGED row
    /\ UNCHANGED <<enabled, cronVars, mu, calls, phase, reloading, server, life>>

\* The last lines of stopJob: the entry is removed and the record reset.
StopRemove ==
    /\ frame.pc = "stop.remove"
    /\ IF frame.entry > 0 THEN StopTimerJob(frame.entry) ELSE UNCHANGED timers
    /\ frame' = [frame EXCEPT !.pc = "ok", !.entry = 0]
    /\ UNCHANGED <<store, lastID, cronOn, mu, calls, phase, reloading, server, life>>

(***************************************************************************)
(* startJob: look up the executor and parse the arguments, read the row,   *)
(* register a new entry, store its number, and only then drop the old      *)
(* entry; when the number cannot be stored the new entry is dropped.       *)
(***************************************************************************)
StartFind ==
    /\ frame.pc = "start.find"
    /\ \/ frame' = [frame EXCEPT !.pc = "start.register",
                                 !.entry = EffectiveEntry(frame.job, frame.entry)]
       \/ Goto("fail")
    /\ UNCHANGED <<store, cronVars, mu, calls, phase, reloading, server, life>>

\* Mutant: the old entry is dropped before the new number is stored.
StartRegisterDropsOld ==
    /\ frame.pc = "start.register"
    /\ \/ /\ lastID < MaxEntryID
          /\ lastID' = lastID + 1
          /\ timers' = {t \in timers : t.id # frame.entry} \cup
                {[id |-> lastID + 1, job |-> frame.job, ctx |-> ExecutionContext]}
          /\ frame' = [frame EXCEPT !.pc = "start.update", !.new = lastID + 1]
       \/ /\ Goto("fail")
          /\ UNCHANGED <<timers, lastID>>
    /\ UNCHANGED <<store, cronOn, mu, calls, phase, reloading, server, life>>

StartRegister ==
    /\ frame.pc = "start.register"
    /\ \/ /\ lastID < MaxEntryID
          /\ lastID' = lastID + 1
          /\ timers' = timers \cup
                {[id |-> lastID + 1, job |-> frame.job, ctx |-> ExecutionContext]}
          /\ frame' = [frame EXCEPT !.pc = "start.update", !.new = lastID + 1]
       \/ /\ Goto("fail")
          /\ UNCHANGED <<timers, lastID>>
    /\ UNCHANGED <<store, cronOn, mu, calls, phase, reloading, server, life>>

StartUpdate ==
    /\ frame.pc = "start.update"
    /\ \/ /\ row' = [row EXCEPT ![frame.job] = frame.new]
          /\ Goto("start.replace")
       \/ /\ Goto("start.undo")
          /\ UNCHANGED row
    /\ UNCHANGED <<enabled, cronVars, mu, calls, phase, reloading, server, life>>

\* Mutant: the number could not be stored and the new entry stays.
StartUndoKeepsEntry ==
    /\ frame.pc = "start.undo"
    /\ Goto("fail")
    /\ UNCHANGED <<store, cronVars, mu, calls, phase, reloading, server, life>>

StartUndo ==
    /\ frame.pc = "start.undo"
    /\ StopTimerJob(frame.new)
    /\ Goto("fail")
    /\ UNCHANGED <<store, lastID, cronOn, mu, calls, phase, reloading, server, life>>

StartReplace ==
    /\ frame.pc = "start.replace"
    /\ IF frame.entry > 0 /\ frame.entry # frame.new
       THEN StopTimerJob(frame.entry) ELSE UNCHANGED timers
    /\ frame' = [frame EXCEPT !.pc = "ok", !.entry = frame.new]
    /\ UNCHANGED <<store, lastID, cronOn, mu, calls, phase, reloading, server, life>>

HolderStep == StopFind \/ StopUpdate \/ StopRemove \/ StartFind \/ StartRegister
                 \/ StartUpdate \/ StartUndo \/ StartReplace

(***************************************************************************)
(* Job.Start and Job.Stop.  The host passes the EntryID it knows: the one  *)
(* it read from the row, which may be stale when the lock is obtained, or  *)
(* none.                                                                   *)
(***************************************************************************)
CallJob(c, kind, j, entry) ==
    /\ calls[c] = NoCall
    /\ calls' = [calls EXCEPT ![c] = [kind |-> kind, job |-> j, entry |-> entry]]
    /\ UNCHANGED <<store, cronVars, mu, frame, phase, reloading, server, life>>

LockCall(c) ==
    /\ calls[c] # NoCall
    /\ mu = None
    /\ mu' = c
    /\ frame' = FrameAt(IF calls[c].kind = "start" THEN "start.find" ELSE "stop.find",
                        calls[c].job, calls[c].entry)
    /\ UNCHANGED <<store, cronVars, calls, phase, reloading, server, life>>

\* Mutant: the error path returns without unlocking.
ReturnCallKeepsLock(c) ==
    /\ mu = c
    /\ frame.pc \in {"ok", "fail"}
    /\ mu' = IF frame.pc = "ok" THEN None ELSE mu
    /\ frame' = NoFrame
    /\ calls' = [calls EXCEPT ![c] = NoCall]
    /\ UNCHANGED <<store, cronVars, phase, reloading, server, life>>

ReturnCall(c) ==
    /\ mu = c
    /\ frame.pc \in {"ok", "fail"}
    /\ mu' = None
    /\ frame' = NoFrame
    /\ calls' = [calls EXCEPT ![c] = NoCall]
    /\ UNCHANGED <<store, cronVars, phase, reloading, server, life>>

(***************************************************************************)
(* Server.Start: start the cron service, then Reload under scheduleMu.     *)
(***************************************************************************)
ServerStart ==
    /\ phase = "idle" /\ "start" \notin begun
    /\ begun' = begun \cup {"start"}
    /\ \/ cronOn' = TRUE /\ phase' = "lock" /\ UNCHANGED lockerOpen
       \/ lockerOpen' = FALSE /\ UNCHANGED <<cronOn, phase>>
    /\ UNCHANGED <<store, timers, lastID, mu, frame, calls, reloading,
                   runContext, cancelled, serving, life>>

ReloadLock ==
    /\ phase = "lock" /\ mu = None
    /\ mu' = Main
    /\ runContext' = "run"
    /\ phase' = "list"
    /\ UNCHANGED <<store, cronVars, frame, calls, reloading,
                   cancelled, serving, lockerOpen, begun, life>>

ReloadList ==
    /\ phase = "list"
    /\ \/ /\ todo' = Jobs /\ listed' = row /\ startedJobs' = <<>> /\ undo' = 0
          /\ phase' = "each"
       \/ /\ phase' = "error"
          /\ UNCHANGED reloading
    /\ UNCHANGED <<store, cronVars, mu, frame, calls, server, life>>

\* The next row of the list, in whatever order the store returned it.
ReloadNext(j) ==
    /\ phase = "each" /\ j \in todo
    /\ todo' = todo \ {j}
    /\ frame' = FrameAt("stop.find", j, listed[j])
    /\ phase' = "stopping"
    /\ UNCHANGED <<store, cronVars, mu, calls, listed, startedJobs, undo, server, life>>

\* Mutant: the status of the row is not looked at.
ReloadStoppedAnyStatus ==
    /\ phase = "stopping" /\ frame.pc \in {"ok", "fail"}
    /\ IF frame.pc = "fail"
       THEN phase' = "error" /\ frame' = NoFrame
       ELSE phase' = "starting" /\ frame' = FrameAt("start.find", frame.job, frame.entry)
    /\ UNCHANGED <<store, cronVars, mu, calls, reloading, server, life>>

ReloadStopped ==
    /\ phase = "stopping" /\ frame.pc \in {"ok", "fail"}
    /\ CASE frame.pc = "fail"    -> phase' = "error" /\ frame' = NoFrame
         [] frame.pc = "ok" /\ frame.job \in enabled ->
                phase' = "starting" /\ frame' = FrameAt("start.find", frame.job, frame.entry)
         [] OTHER                -> phase' = "each" /\ frame' = NoFrame
    /\ UNCHANGED <<store, cronVars, mu, calls, reloading, server, life>>

\* Mutant: the rollback misses the job that was started last.
ReloadStartedSkipsLast ==
    /\ phase = "starting" /\ frame.pc \in {"ok", "fail"}
    /\ IF frame.pc = "ok"
       THEN /\ startedJobs' = Append(startedJobs, [job |-> frame.job, entry |-> frame.entry])
            /\ phase' = "each"
            /\ UNCHANGED undo
       ELSE /\ undo' = IF startedJobs = <<>> THEN 0 ELSE Len(startedJobs) - 1
            /\ phase' = "rollback"
            /\ UNCHANGED startedJobs
    /\ frame' = NoFrame
    /\ UNCHANGED <<store, cronVars, mu, calls, todo, listed, server, life>>

ReloadStarted ==
    /\ phase = "starting" /\ frame.pc \in {"ok", "fail"}
    /\ IF frame.pc = "ok"
       THEN /\ startedJobs' = Append(startedJobs, [job |-> frame.job, entry |-> frame.entry])
            /\ phase' = "each"
            /\ UNCHANGED undo
       ELSE /\ undo' = Len(startedJobs)
            /\ phase' = "rollback"
            /\ UNCHANGED startedJobs
    /\ frame' = NoFrame
    /\ UNCHANGED <<store, cronVars, mu, calls, todo, listed, server, life>>

\* The rollback walks startedJobs backwards and gives up at the first error.
RollbackNext ==
    /\ phase = "rollback" /\ undo > 0
    /\ frame' = FrameAt("stop.find", startedJobs[undo].job, startedJobs[undo].entry)
    /\ phase' = "undoing"
    /\ UNCHANGED <<store, cronVars, mu, calls, reloading, server, life>>

RollbackStopped ==
    /\ phase = "undoing" /\ frame.pc \in {"ok", "fail"}
    /\ IF frame.pc = "ok" THEN undo' = undo - 1 /\ phase' = "rollback"
                          ELSE phase' = "error" /\ UNCHANGED undo
    /\ frame' = NoFrame
    /\ UNCHANGED <<store, cronVars, mu, calls, todo, listed, startedJobs, server, life>>

RollbackDone ==
    /\ phase = "rollback" /\ undo = 0
    /\ phase' = "error"
    /\ UNCHANGED <<store, cronVars, mu, frame, calls, reloading, server, life>>

\* The locals of reloadJobs go out of scope.
ForgetReload ==
    todo' = {} /\ listed' = [j \in Jobs |-> 0] /\ startedJobs' = <<>> /\ undo' = 0

ReloadDone ==
    /\ phase = "each" /\ todo = {}
    /\ mu' = None
    /\ phase' = "idle"
    /\ serving' = TRUE
    /\ ForgetReload
    /\ UNCHANGED <<store, cronVars, frame, calls,
                   runContext, cancelled, lockerOpen, begun, life>>

\* Mutant: the error path falls through to the assignment of runCancel.
ReloadFailedServes ==
    /\ phase = "error"
    /\ mu' = None
    /\ cancelled' = TRUE
    /\ cronOn' = FALSE
    /\ serving' = TRUE
    /\ phase' = "remove"
    /\ ForgetReload
    /\ UNCHANGED <<store, timers, lastID, frame, calls,
                   runContext, lockerOpen, begun, life>>

\* Reload failed: cancel the run context and stop the cron service.
ReloadFailed ==
    /\ phase = "error"
    /\ mu' = None
    /\ cancelled' = TRUE
    /\ cronOn' = FALSE
    /\ phase' = "remove"
    /\ ForgetReload
    /\ UNCHANGED <<store, timers, lastID, frame, calls,
                   runContext, serving, lockerOpen, begun, life>>

(***************************************************************************)
(* Server.Stop, and the end both Stop and a failed Start share: neither    *)
(* clears the rows, and RemoveAllJobs does not take scheduleMu.            *)
(***************************************************************************)
ServerStop ==
    /\ phase = "idle" /\ "stop" \notin begun
    /\ begun' = begun \cup {"stop"}
    /\ cancelled' = (cancelled \/ serving)
    /\ serving' = FALSE
    /\ cronOn' = FALSE
    /\ phase' = "remove"
    /\ UNCHANGED <<store, timers, lastID, mu, frame, calls, reloading,
                   runContext, lockerOpen, life>>

RemoveAllJobs ==
    /\ phase = "remove"
    /\ timers' = {}
    /\ phase' = "clear"
    /\ UNCHANGED <<store, lastID, cronOn, mu, frame, calls, reloading, server, life>>

ClearExecutionContext ==
    /\ phase = "clear" /\ mu = None
    /\ runContext' = "nil"
    /\ lockerOpen' = FALSE
    /\ phase' = "idle"
    /\ UNCHANGED <<store, cronVars, mu, frame, calls, reloading,
                   cancelled, serving, begun, life>>

(***************************************************************************)
(* The process ends, at any point, and another one starts on the store.    *)
(***************************************************************************)
Restart ==
    /\ life < MaxLife
    /\ life' = life + 1
    /\ timers' = {} /\ lastID' = 0 /\ cronOn' = FALSE
    /\ mu' = None /\ frame' = NoFrame
    /\ calls' = [c \in Callers |-> NoCall]
    /\ phase' = "idle"
    /\ ForgetReload
    /\ runContext' = "nil" /\ cancelled' = FALSE
    /\ serving' = FALSE /\ lockerOpen' = TRUE /\ begun' = {}
    /\ UNCHANGED store

-----------------------------------------------------------------------------
Calling == \E c \in Callers, j \in Jobs, kind \in {"start", "stop"} :
                \E entry \in {0, row[j]} : CallJob(c, kind, j, entry)
Locking == \E c \in Callers : LockCall(c)
Returning == \E c \in Callers : ReturnCall(c)
Reloading == \/ ReloadLock \/ ReloadList \/ (\E j \in Jobs : ReloadNext(j))
             \/ ReloadStopped \/ ReloadStarted \/ RollbackNext \/ RollbackStopped
             \/ RollbackDone \/ ReloadDone \/ ReloadFailed
LifeCycle == ServerStart \/ ServerStop \/ RemoveAllJobs \/ ClearExecutionContext

Next == HolderStep \/ Calling \/ Locking \/ Returning \/ Reloading \/ LifeCycle \/ Restart

Spec == Init /\ [][Next]_vars

\* Store and cron calls return, and a goroutine that waits for a Go mutex gets
\* it in the end (sync.Mutex hands the lock over after a millisecond); nothing
\* makes the host call, the application stop, or the process restart.
FairSpec ==
    /\ Spec
    /\ WF_vars(HolderStep) /\ WF_vars(Returning)
    /\ WF_vars(Reloading) /\ WF_vars(RemoveAllJobs)
    /\ SF_vars(ReloadLock) /\ SF_vars(ClearExecutionContext)
    /\ \A c \in Callers : SF_vars(LockCall(c))

-----------------------------------------------------------------------------
\* No orphan timer: whenever scheduleMu is free, an entry registered in the
\* cron service is the one its job's row names, so that Stop and the next Start
\* can find it.  In particular a job never has two timers.
NoOrphanTimer ==
    mu = None => \A t \in timers : row[t.job] = t.id

\* The same, at every step: an entry its row does not name is the one startJob
\* is registering or the one the operation under way is about to remove.
BeingRegistered(t) ==
    /\ frame.pc \in {"start.update", "start.undo"}
    /\ t.job = frame.job /\ t.id = frame.new
BeingRemoved(t) ==
    /\ frame.pc \in {"stop.remove", "start.replace"}
    /\ t.job = frame.job /\ t.id = frame.entry
TimersAccounted ==
    \A t \in timers : row[t.job] = t.id \/ BeingRegistered(t) \/ BeingRemoved(t)

\* The rows hold no entry numbers of an earlier process.
FirstProcess == life = 1

\* While the first process on a store serves and no operation is under way, the
\* rows and the cron service agree in both directions: a row with a number has
\* that very entry ("avoid the running state diverging from the database",
\* startJob).
StoreAgreesWithCron ==
    FirstProcess /\ serving /\ mu = None =>
        \A j \in Jobs : row[j] > 0 => \E t \in timers : t.id = row[j] /\ t.job = j

\* When Reload is about to return without error, exactly the enabled jobs are
\* registered, each under the number its row holds.
ReloadRegistersEnabled ==
    phase = "each" /\ todo = {} =>
        \A j \in Jobs : j \in enabled <=> \E t \in timers : t.job = j /\ t.id = row[j]

\* The same of the first process on a store.
FirstReloadRegistersEnabled == FirstProcess => ReloadRegistersEnabled

\* A rollback that reached the first started job has undone every one of them:
\* no entry is left and no row claims one.
RollbackUndoesReload ==
    phase = "rollback" /\ undo = 0 =>
        \A i \in DOMAIN startedJobs :
            /\ row[startedJobs[i].job] = 0
            /\ \A t \in timers : t.job # startedJobs[i].job

\* A server that serves and was not told to stop has a running cron service, an
\* open execution locker and a live run context, and every timer runs its job
\* with that context, never with that of the request that registered it.
ServingIsOperational ==
    serving =>
        /\ \A t \in timers : t.ctx = "run"
        /\ "stop" \notin begun =>
                cronOn /\ lockerOpen /\ ~cancelled /\ runContext = "run"

\* Every Job.Start and Job.Stop returns (or its process dies), and so do
\* Server.Start and Server.Stop, whatever fails on the way.
CallsReturn ==
    /\ \A c \in Callers : calls[c] # NoCall ~> calls[c] = NoCall
    /\ phase # "idle" ~> phase = "idle"
=============================================================================
