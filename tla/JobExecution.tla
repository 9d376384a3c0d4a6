---------------------------- MODULE JobExecution ----------------------------
(***************************************************************************)
(* One execution of a job, from its trigger to the end of its lease:       *)
(* Scheduler.RunJob and executeJob (job/scheduler.go), Execution           *)
(* (job/execution.go) and the execution locker (job/execution_lock.go).    *)
(*                                                                         *)
(* Several instances of the program run against one queue.  With Redis     *)
(* they share the lease of a job; without it each has its own.  A shared   *)
(* lease may be lost while its job still runs (the five minutes pass and   *)
(* the renewal did not get through), and outlives an instance that dies.   *)
(***************************************************************************)
EXTENDS Naturals, Sequences, FiniteSets, SequencesExt

CONSTANTS
    Jobs,       \* the jobs that are triggered
    Instances,  \* processes of the program
    Runs,       \* bound: executions, each used once
    None,       \* no job, or no instance
    MayLose     \* a shared lease may expire under a running execution

ASSUME ExecutionConstants ==
    /\ None \notin Jobs \cup Instances
    /\ MayLose \in BOOLEAN

VARIABLES
    shared,   \* the lockers are in Redis mode
    pc,       \* where each execution is
    job,      \* the job it executes
    inst,     \* the instance it runs in
    manual,   \* RunJob rather than a cron entry
    result,   \* what executeJob or RunJob returns, once known
    held,     \* executions that hold their lease
    lost,     \* executions whose lease expired before its release
    closed,   \* instances whose locker was closed by Server
    grants,   \* history: the executions in the order they got their lease
    logs      \* the JOB_LOG stream: the executions whose log was appended

vars == <<shared, pc, job, inst, manual, result, held, lost, closed, grants, logs>>

PCs     == {"new", "prepare", "acquire", "body", "log", "release", "done", "dead"}
Results == {"none", "success", "failure", "skipped", "conflict", "error", "invalid"}

TypeOK ==
    /\ shared \in BOOLEAN
    /\ pc \in [Runs -> PCs]
    /\ job \in [Runs -> Jobs \cup {None}]
    /\ inst \in [Runs -> Instances \cup {None}]
    /\ manual \in [Runs -> BOOLEAN]
    /\ result \in [Runs -> Results]
    /\ held \in SUBSET Runs /\ lost \in SUBSET Runs
    /\ closed \in SUBSET Instances
    /\ grants \in Seq(Runs) /\ logs \in Seq(Runs)

Init ==
    /\ shared \in BOOLEAN
    /\ pc = [x \in Runs |-> "new"]
    /\ job = [x \in Runs |-> None]
    /\ inst = [x \in Runs |-> None]
    /\ manual = [x \in Runs |-> FALSE]
    /\ result = [x \in Runs |-> "none"]
    /\ held = {} /\ lost = {} /\ closed = {}
    /\ grants = <<>> /\ logs = <<>>

\* executionLockKey: the key names the job; in memory mode every process has its
\* own table of keys.
SameKey(x, y) == job[x] = job[y] /\ (shared \/ inst[x] = inst[y])
Contended(x)  == \E y \in held \ {x} : SameKey(x, y)

Finish(x, r) ==
    /\ pc' = [pc EXCEPT ![x] = "done"]
    /\ result' = [result EXCEPT ![x] = r]

\* A cron entry fires, or the host calls Job.Run.
Trigger(x, j, i, byHand) ==
    /\ pc[x] = "new"
    /\ pc' = [pc EXCEPT ![x] = IF byHand THEN "prepare" ELSE "acquire"]
    /\ job' = [job EXCEPT ![x] = j]
    /\ inst' = [inst EXCEPT ![x] = i]
    /\ manual' = [manual EXCEPT ![x] = byHand]
    /\ UNCHANGED <<shared, result, held, lost, closed, grants, logs>>

\* AddQueue: the append may fail, which is only logged.
AddQueue(x) == logs' = Append(logs, x) \/ UNCHANGED logs

\* RunJob looks the executor up and parses the arguments; a failure is logged as
\* an execution that failed (LogFailureWithInput).
Prepare(x) ==
    /\ pc[x] = "prepare"
    /\ \/ /\ pc' = [pc EXCEPT ![x] = "acquire"]
          /\ UNCHANGED <<result, logs>>
       \/ /\ Finish(x, "invalid")
          /\ AddQueue(x)
    /\ UNCHANGED <<shared, job, inst, manual, held, lost, closed, grants>>

\* Mutant: an execution that did not get the lease goes on all the same.
AcquireIgnoresContention(x) ==
    /\ pc[x] = "acquire"
    /\ pc' = [pc EXCEPT ![x] = "body"]
    /\ held' = held \cup {x}
    /\ grants' = Append(grants, x)
    /\ UNCHANGED <<shared, job, inst, manual, lost, closed, logs, result>>

\* executionLocker.Acquire and its three outcomes in executeJob.
Acquire(x) ==
    /\ pc[x] = "acquire"
    /\ \/ /\ ~Contended(x) /\ inst[x] \notin closed
          /\ held' = held \cup {x}
          /\ grants' = Append(grants, x)
          /\ pc' = [pc EXCEPT ![x] = "body"]
          /\ UNCHANGED result
       \/ /\ Contended(x) /\ inst[x] \notin closed
          /\ Finish(x, IF manual[x] THEN "conflict" ELSE "skipped")
          /\ UNCHANGED <<held, grants>>
       \/ /\ Finish(x, "error")
          /\ UNCHANGED <<held, grants>>
    /\ UNCHANGED <<shared, job, inst, manual, lost, closed, logs>>

\* InvokeTarget.Exec returns, or panics and is recovered.
Body(x) ==
    /\ pc[x] = "body"
    /\ \E r \in {"success", "failure"} : result' = [result EXCEPT ![x] = r]
    /\ pc' = [pc EXCEPT ![x] = "log"]
    /\ UNCHANGED <<shared, job, inst, manual, held, lost, closed, grants, logs>>

\* Mutant: the lease is released before the log is queued.
LogAfterRelease(x) ==
    /\ pc[x] = "log"
    /\ IF x \in held
       THEN held' = held \ {x} /\ UNCHANGED <<logs, pc>>
       ELSE AddQueue(x) /\ pc' = [pc EXCEPT ![x] = "release"] /\ UNCHANGED held
    /\ UNCHANGED <<shared, job, inst, manual, result, lost, closed, grants>>

\* The deferred function of Execute: one log, whatever happened.
Log(x) ==
    /\ pc[x] = "log"
    /\ AddQueue(x)
    /\ pc' = [pc EXCEPT ![x] = "release"]
    /\ UNCHANGED <<shared, job, inst, manual, result, held, lost, closed, grants>>

\* Mutant: the lease is not released when the body failed.
ReleaseOnSuccess(x) ==
    /\ pc[x] = "release"
    /\ pc' = [pc EXCEPT ![x] = "done"]
    /\ held' = IF result[x] = "success" THEN held \ {x} ELSE held
    /\ UNCHANGED <<shared, job, inst, manual, result, lost, closed, grants, logs>>

\* The deferred Release of executeJob; over Redis it may fail, which is only
\* logged and leaves the lease to its expiry.
Release(x) ==
    /\ pc[x] = "release"
    /\ pc' = [pc EXCEPT ![x] = "done"]
    /\ \/ held' = held \ {x}
       \/ shared /\ UNCHANGED held
    /\ UNCHANGED <<shared, job, inst, manual, result, lost, closed, grants, logs>>

\* The lease's time runs out: nobody renews it any more, or, when MayLose, the
\* renewals of a running execution do not reach Redis.
Expire(x) ==
    /\ shared /\ x \in held
    /\ pc[x] \in {"done", "dead"} \/ MayLose
    /\ held' = held \ {x}
    /\ lost' = lost \cup {x}
    /\ UNCHANGED <<shared, pc, job, inst, manual, result, closed, grants, logs>>

\* Server.Stop or a failed Server.Start closes the locker of its instance.
CloseLocker(i) ==
    /\ i \notin closed
    /\ closed' = closed \cup {i}
    /\ UNCHANGED <<shared, pc, job, inst, manual, result, held, lost, grants, logs>>

Under(i) == {x \in Runs : inst[x] = i /\ pc[x] \notin {"new", "done", "dead"}}

\* An instance dies and its next process opens a new locker: its executions stop
\* where they are, a memory lease vanishes with it and a shared one stays until
\* it expires.
Crash(i) ==
    /\ Under(i) # {}
    /\ pc' = [x \in Runs |-> IF x \in Under(i) THEN "dead" ELSE pc[x]]
    /\ held' = IF shared THEN held ELSE held \ Under(i)
    /\ closed' = closed \ {i}
    /\ UNCHANGED <<shared, job, inst, manual, result, lost, grants, logs>>

Advance(x) == Prepare(x) \/ Acquire(x) \/ Body(x) \/ Log(x) \/ Release(x)

Next ==
    \/ \E x \in Runs, j \in Jobs, i \in Instances, b \in BOOLEAN : Trigger(x, j, i, b)
    \/ \E x \in Runs : Advance(x) \/ Expire(x)
    \/ \E i \in Instances : CloseLocker(i) \/ Crash(i)

Spec == Init /\ [][Next]_vars

\* Queue and lock calls return, deferred functions run, Redis expires keys.
\* Nothing makes the body of a job return.
FairSpec ==
    /\ Spec
    /\ \A x \in Runs : /\ WF_vars(Prepare(x) \/ Acquire(x) \/ Log(x) \/ Release(x))
                       /\ WF_vars(Expire(x) /\ pc[x] \in {"done", "dead"})

-----------------------------------------------------------------------------
Running(x) == pc[x] \in {"body", "log"}

\* Two executions of one job overlap only when the lease of one of them was lost
\* while it ran; in memory mode, within one instance, they never do.
OverlapOnlyAfterLoss ==
    \A x, y \in Runs :
        x # y /\ Running(x) /\ Running(y) /\ SameKey(x, y) => x \in lost \/ y \in lost

\* By the time an execution gets its lease, the log of every earlier execution
\* under the same key that ended by itself is queued, unless its lease was lost
\* early or its append failed; so the JOB_LOG stream has a job's logs in the
\* order of its executions.
LogsFollowGrants ==
    \A m, n \in DOMAIN logs : m < n =>
        LET x == logs[m]
            y == logs[n]
        IN  SameKey(x, y) /\ {x, y} \subseteq ToSet(grants) /\ {x, y} \cap lost = {}
                => SelectInSeq(grants, LAMBDA g : g = x) < SelectInSeq(grants, LAMBDA g : g = y)

\* A lease does not outlast its execution, however it ended.
LeaseEnds == \A x \in Runs : x \in held /\ pc[x] # "body" ~> x \notin held
=============================================================================
