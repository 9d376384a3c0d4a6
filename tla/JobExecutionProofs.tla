------------------------- MODULE JobExecutionProofs -------------------------
(***************************************************************************)
(* Theorems about JobExecution, for any jobs, instances and executions, in *)
(* both modes of the locker, whatever leases are lost and instances die:   *)
(* executions of one job overlap only after the loss of a lease, and their *)
(* logs are queued in the order in which they had it.                      *)
(***************************************************************************)
EXTENDS JobExecution, TLAPS

-----------------------------------------------------------------------------
(* The inductive invariant. *)

Granted == {"body", "log", "release", "done", "dead"}
Working == {"body", "log", "release"}

\* An execution gets its lease once, and has it while it works unless it lost it.
Leases ==
    /\ \A p \in DOMAIN grants : pc[grants[p]] \in Granted
    /\ \A p, q \in DOMAIN grants : grants[p] = grants[q] => p = q
    /\ \A x \in Runs : pc[x] \in Working =>
         /\ x \in held \/ x \in lost
         /\ \E p \in DOMAIN grants : grants[p] = x

\* A lease is granted only when the earlier ones under its key are gone.
HandedOver ==
    \A p, q \in DOMAIN grants :
        p < q /\ SameKey(grants[p], grants[q]) /\ grants[p] \notin lost => grants[p] \notin held

\* An execution is logged at its end, once.
LoggedAtEnd ==
    /\ \A m \in DOMAIN logs : pc[logs[m]] \in {"release", "done", "dead"}
    /\ \A m, n \in DOMAIN logs : logs[m] = logs[n] => m = n

\* LogsFollowGrants, said with places in the two sequences.
InOrder ==
    \A m, n \in DOMAIN logs : \A p, q \in DOMAIN grants :
        /\ m < n /\ grants[p] = logs[m] /\ grants[q] = logs[n]
        /\ SameKey(logs[m], logs[n]) /\ logs[m] \notin lost /\ logs[n] \notin lost
        => p < q

\* In memory mode no lease is ever lost.
MemoryKeeps == ~shared => lost = {}

ExecutionInv == TypeOK /\ Leases /\ HandedOver /\ LoggedAtEnd /\ InOrder /\ MemoryKeeps

-----------------------------------------------------------------------------
\* What Append does, by place.
LEMMA AppendPlaces ==
    ASSUME NEW S, NEW s \in Seq(S), NEW e \in S
    PROVE  /\ Append(s, e) \in Seq(S)
           /\ Len(s) \in Nat /\ DOMAIN s = 1..Len(s)
           /\ DOMAIN Append(s, e) = 1..(Len(s) + 1)
           /\ \A p \in DOMAIN s : Append(s, e)[p] = s[p]
           /\ Append(s, e)[Len(s) + 1] = e
  OBVIOUS

\* In a sequence without duplicates an element has one place, which is the first
\* that SelectInSeq finds.
LEMMA OnlyPlace ==
    ASSUME NEW S, NEW s \in Seq(S), \A p, q \in DOMAIN s : s[p] = s[q] => p = q,
           NEW k \in DOMAIN s
    PROVE  /\ {i \in 1..Len(s) : s[i] = s[k]} = {k}
           /\ Min({i \in 1..Len(s) : s[i] = s[k]}) = k
<1>1. {i \in 1..Len(s) : s[i] = s[k]} = {k}
  OBVIOUS
<1>2. k \in Nat
  OBVIOUS
<1>3. Min({k}) = k
  BY <1>2 DEF Min
<1> QED
  BY <1>1, <1>3

\* The first state.
LEMMA InitInv == Init => ExecutionInv
  BY DEF Init, ExecutionInv, TypeOK, Leases, HandedOver, LoggedAtEnd, InOrder, MemoryKeeps,
         PCs, Results, Working

\* A new execution has no lease and no log yet, so its job and instance are nobody's
\* key.
LEMMA TriggerInv ==
    ASSUME ExecutionInv, NEW x \in Runs, NEW j \in Jobs, NEW i \in Instances, NEW b \in BOOLEAN,
           Trigger(x, j, i, b)
    PROVE  ExecutionInv'
<1> USE DEF ExecutionInv, Trigger
<1>1. TypeOK'
  BY DEF TypeOK, PCs
<1>2. \A y \in Runs : y # x => pc'[y] = pc[y] /\ job'[y] = job[y] /\ inst'[y] = inst[y]
  BY DEF TypeOK
<1>3. pc'[x] \in {"prepare", "acquire"}
  BY DEF TypeOK
<1>4. \A p \in DOMAIN grants : grants[p] \in Runs /\ grants[p] # x
  BY DEF TypeOK, Leases, Granted
<1>5. \A m \in DOMAIN logs : logs[m] \in Runs /\ logs[m] # x
  BY DEF TypeOK, LoggedAtEnd
<1>6. Leases'
  BY <1>2, <1>3, <1>4 DEF Leases, Granted, Working
<1>7. HandedOver'
  BY <1>2, <1>4 DEF HandedOver, SameKey
<1>8. LoggedAtEnd'
  BY <1>2, <1>5 DEF LoggedAtEnd
<1>9. InOrder'
  BY <1>2, <1>5 DEF InOrder, SameKey
<1> QED
  BY <1>1, <1>6, <1>7, <1>8, <1>9 DEF MemoryKeeps

LEMMA AddQueueType ==
    ASSUME logs \in Seq(Runs), NEW x \in Runs, AddQueue(x) \/ UNCHANGED logs
    PROVE  logs' \in Seq(Runs)
  BY AppendPlaces DEF AddQueue

\* A log of an execution that has none: it comes after everything that was queued.
LEMMA AddQueueInv ==
    ASSUME ExecutionInv, NEW x \in Runs, AddQueue(x), pc[x] \in {"prepare", "log"},
           pc' = [pc EXCEPT ![x] = IF pc[x] = "prepare" THEN "done" ELSE "release"],
           UNCHANGED <<shared, job, inst, held, lost, grants>>
    PROVE  Leases' /\ HandedOver' /\ LoggedAtEnd' /\ InOrder'
<1> USE DEF ExecutionInv
<1>1. /\ logs \in Seq(Runs)
      /\ \A y \in Runs : pc'[y] = IF y # x THEN pc[y] ELSE IF pc[x] = "prepare" THEN "done" ELSE "release"
  BY DEF TypeOK
<1>2. \A p \in DOMAIN grants : grants[p] \in Runs
  BY DEF TypeOK
<1>3. \A m \in DOMAIN logs : logs[m] \in Runs /\ logs[m] # x
  BY DEF TypeOK, LoggedAtEnd
<1>4. Leases' /\ HandedOver'
  BY <1>1, <1>2 DEF Leases, HandedOver, SameKey, Granted, Working
<1>5. CASE logs' = logs
  BY <1>1, <1>3, <1>4, <1>5 DEF LoggedAtEnd, InOrder, SameKey
<1>6. CASE logs' = Append(logs, x)
  <2>1. /\ Len(logs) \in Nat /\ DOMAIN logs = 1..Len(logs) /\ DOMAIN logs' = 1..(Len(logs) + 1)
        /\ \A m \in DOMAIN logs : logs'[m] = logs[m]
        /\ logs'[Len(logs) + 1] = x
    BY <1>1, <1>6, AppendPlaces
  <2>2. LoggedAtEnd'
    <3>1. ASSUME NEW m \in DOMAIN logs' PROVE pc'[logs'[m]] \in {"release", "done", "dead"}
      BY <1>1, <1>3, <2>1 DEF LoggedAtEnd
    <3>2. ASSUME NEW m \in DOMAIN logs', NEW n \in DOMAIN logs', logs'[m] = logs'[n] PROVE m = n
      BY <1>3, <2>1, <3>2 DEF LoggedAtEnd
    <3> QED
      BY <3>1, <3>2 DEF LoggedAtEnd
  \* A lease granted after that of x would mean that x had given its own up.
  <2>3. ASSUME NEW m \in DOMAIN logs, NEW p \in DOMAIN grants, NEW q \in DOMAIN grants,
               grants[p] = logs[m], grants[q] = x, SameKey(logs[m], x), x \notin lost
        PROVE  p < q
    <3>1. pc[x] = "log" /\ x \in held
      BY <2>3 DEF Leases, Granted, Working
    <3>2. p \in Nat /\ q \in Nat /\ p # q
      BY <1>3, <2>3 DEF TypeOK
    <3>3. SameKey(grants[q], grants[p])
      BY <2>3 DEF SameKey
    <3> QED
      BY <2>3, <3>1, <3>2, <3>3 DEF HandedOver
  <2>4. InOrder'
    <3> SUFFICES ASSUME NEW m \in DOMAIN logs', NEW n \in DOMAIN logs',
                        NEW p \in DOMAIN grants, NEW q \in DOMAIN grants,
                        m < n, grants[p] = logs'[m], grants[q] = logs'[n],
                        SameKey(logs'[m], logs'[n]), logs'[m] \notin lost, logs'[n] \notin lost
                 PROVE  p < q
      BY DEF InOrder, SameKey
    <3>1. m \in DOMAIN logs
      BY <2>1
    <3>2. CASE n \in DOMAIN logs
      BY <2>1, <3>1, <3>2 DEF InOrder
    <3>3. CASE n \notin DOMAIN logs
      BY <2>1, <2>3, <3>1, <3>3
    <3> QED
      BY <3>2, <3>3
  <2> QED
    BY <1>4, <2>2, <2>4
<1> QED
  BY <1>5, <1>6 DEF AddQueue

LEMMA PrepareInv == ASSUME ExecutionInv, NEW x \in Runs, Prepare(x) PROVE ExecutionInv'
<1> USE DEF ExecutionInv, Prepare, Finish
<1>1. TypeOK'
  <2>1. logs' \in Seq(Runs)
    BY AddQueueType DEF TypeOK
  <2> QED
    BY <2>1 DEF TypeOK, PCs, Results
<1>2. CASE AddQueue(x) /\ pc' = [pc EXCEPT ![x] = "done"]
  BY <1>1, <1>2, AddQueueInv DEF MemoryKeeps
<1>3. CASE UNCHANGED logs /\ pc' = [pc EXCEPT ![x] = "acquire"]
  <2>1. \A p \in DOMAIN grants : grants[p] \in Runs /\ grants[p] # x
    BY DEF TypeOK, Leases, Granted
  <2>2. \A m \in DOMAIN logs : logs[m] \in Runs /\ logs[m] # x
    BY DEF TypeOK, LoggedAtEnd
  <2>3. Leases' /\ HandedOver' /\ LoggedAtEnd' /\ InOrder'
    BY <1>3, <2>1, <2>2 DEF TypeOK, Leases, HandedOver, LoggedAtEnd, InOrder, SameKey, Working
  <2> QED
    BY <1>1, <2>3 DEF MemoryKeeps
<1> QED
  BY <1>2, <1>3

\* The lease of x comes last in grants, and every earlier one under its key is gone.
LEMMA AcquireInv == ASSUME ExecutionInv, NEW x \in Runs, Acquire(x) PROVE ExecutionInv'
<1> USE DEF ExecutionInv, Acquire, Finish
<1>1. TypeOK'
  <2>1. grants' = Append(grants, x) \/ UNCHANGED grants
    OBVIOUS
  <2>2. grants \in Seq(Runs)
    BY DEF TypeOK
  <2>3. Append(grants, x) \in Seq(Runs)
    BY <2>2, AppendPlaces
  <2>4. grants' \in Seq(Runs)
    BY <2>1, <2>2, <2>3, Zenon
  <2> QED
    BY <2>4 DEF TypeOK, PCs, Results
<1>2. \A p \in DOMAIN grants : grants[p] \in Runs /\ grants[p] # x
  BY DEF TypeOK, Leases, Granted
<1>3. \A m \in DOMAIN logs : logs[m] \in Runs /\ logs[m] # x
  BY DEF TypeOK, LoggedAtEnd
<1>4. /\ \A y \in Runs : y # x => pc'[y] = pc[y]
      /\ pc'[x] \in {"body", "done"}
  BY DEF TypeOK
<1>5. LoggedAtEnd'
  BY <1>3, <1>4 DEF LoggedAtEnd
<1>6. CASE UNCHANGED <<held, grants>> /\ pc'[x] = "done"
  <2>1. Leases' /\ HandedOver' /\ InOrder'
    BY <1>2, <1>4, <1>6 DEF Leases, HandedOver, InOrder, SameKey, Granted, Working
  <2> QED
    BY <1>1, <1>5, <2>1 DEF MemoryKeeps
<1>7. CASE /\ ~Contended(x)
           /\ held' = held \cup {x} /\ grants' = Append(grants, x) /\ pc'[x] = "body"
  <2>1. /\ Len(grants) \in Nat /\ DOMAIN grants = 1..Len(grants)
        /\ DOMAIN grants' = 1..(Len(grants) + 1)
        /\ \A p \in DOMAIN grants : grants'[p] = grants[p]
        /\ grants'[Len(grants) + 1] = x
    BY <1>7, AppendPlaces DEF TypeOK
  <2> HIDE DEF Acquire
  <2>5. /\ UNCHANGED <<shared, job, inst, lost>>
        /\ \A p \in DOMAIN grants' : p \in DOMAIN grants \/ p = Len(grants) + 1
    BY <2>1 DEF Acquire
  <2>2. Leases'
    <3>1. \A p \in DOMAIN grants' : pc'[grants'[p]] \in Granted
      BY <1>2, <1>4, <1>7, <2>1, <2>5 DEF Leases, Granted
    <3>2. \A p, q \in DOMAIN grants' : grants'[p] = grants'[q] => p = q
      BY <1>2, <2>1, <2>5 DEF Leases
    <3>3. ASSUME NEW y \in Runs, pc'[y] \in Working
          PROVE  (y \in held' \/ y \in lost') /\ \E p \in DOMAIN grants' : grants'[p] = y
      BY <1>4, <1>7, <2>1, <2>5, <3>3 DEF Leases, Working
    <3> QED
      BY <3>1, <3>2, <3>3 DEF Leases
  <2>3. HandedOver'
    <3> SUFFICES ASSUME NEW p \in DOMAIN grants', NEW q \in DOMAIN grants', p < q,
                        SameKey(grants'[p], grants'[q]), grants'[p] \notin lost
                 PROVE  grants'[p] \notin held'
      BY <2>5 DEF HandedOver, SameKey
    <3>1. p \in DOMAIN grants /\ grants'[p] = grants[p] /\ grants[p] # x
      BY <1>2, <2>1
    <3>2. CASE q \in DOMAIN grants
      BY <1>7, <2>1, <2>5, <3>1, <3>2 DEF HandedOver
    <3>3. CASE q \notin DOMAIN grants
      <4>1. grants'[q] = x /\ SameKey(x, grants[p])
        BY <2>1, <2>5, <3>1, <3>3 DEF SameKey
      <4> QED
        BY <1>2, <1>7, <3>1, <4>1 DEF Contended
    <3> QED
      BY <3>2, <3>3
  <2>4. InOrder'
    <3> SUFFICES ASSUME NEW m \in DOMAIN logs, NEW n \in DOMAIN logs,
                        NEW p \in DOMAIN grants', NEW q \in DOMAIN grants',
                        m < n, grants'[p] = logs[m], grants'[q] = logs[n],
                        SameKey(logs[m], logs[n]), logs[m] \notin lost, logs[n] \notin lost
                 PROVE  p < q
      BY <2>5 DEF InOrder, SameKey, Acquire
    <3>1. p \in DOMAIN grants /\ q \in DOMAIN grants
      BY <1>3, <2>1
    <3> QED
      BY <2>1, <3>1 DEF InOrder
  <2> QED
    BY <1>1, <1>5, <2>2, <2>3, <2>4, <2>5 DEF MemoryKeeps
<1> QED
  BY <1>6, <1>7 DEF TypeOK

LEMMA BodyInv == ASSUME ExecutionInv, NEW x \in Runs, Body(x) PROVE ExecutionInv'
<1> USE DEF ExecutionInv, Body
<1>1. TypeOK'
  BY DEF TypeOK, PCs, Results
<1>2. \A p \in DOMAIN grants : grants[p] \in Runs
  BY DEF TypeOK
<1>3. \A m \in DOMAIN logs : logs[m] \in Runs /\ logs[m] # x
  BY DEF TypeOK, LoggedAtEnd
<1>4. Leases' /\ HandedOver' /\ LoggedAtEnd' /\ InOrder'
  BY <1>2, <1>3 DEF TypeOK, Leases, HandedOver, LoggedAtEnd, InOrder, SameKey, Granted, Working
<1> QED
  BY <1>1, <1>4 DEF MemoryKeeps

LEMMA LogInv == ASSUME ExecutionInv, NEW x \in Runs, Log(x) PROVE ExecutionInv'
<1> USE DEF ExecutionInv, Log
<1>1. TypeOK'
  <2>1. logs' \in Seq(Runs)
    BY AddQueueType DEF TypeOK
  <2> QED
    BY <2>1 DEF TypeOK, PCs
<1>2. Leases' /\ HandedOver' /\ LoggedAtEnd' /\ InOrder'
  BY AddQueueInv
<1> QED
  BY <1>1, <1>2 DEF MemoryKeeps

\* Leases that are given up or taken away leave the order of the others as it is.
LEMMA ReleaseInv == ASSUME ExecutionInv, NEW x \in Runs, Release(x) PROVE ExecutionInv'
<1> USE DEF ExecutionInv, Release
<1>1. TypeOK'
  BY DEF TypeOK, PCs
<1>2. \A p \in DOMAIN grants : grants[p] \in Runs
  BY DEF TypeOK
<1>3. \A m \in DOMAIN logs : logs[m] \in Runs
  BY DEF TypeOK
<1>4. Leases' /\ HandedOver' /\ LoggedAtEnd' /\ InOrder'
  BY <1>2, <1>3 DEF TypeOK, Leases, HandedOver, LoggedAtEnd, InOrder, SameKey, Granted, Working
<1> QED
  BY <1>1, <1>4 DEF MemoryKeeps

LEMMA ExpireInv == ASSUME ExecutionInv, NEW x \in Runs, Expire(x) PROVE ExecutionInv'
<1> USE DEF ExecutionInv, Expire
<1>1. TypeOK'
  BY DEF TypeOK
<1>2. Leases' /\ HandedOver' /\ LoggedAtEnd' /\ InOrder'
  BY DEF TypeOK, Leases, HandedOver, LoggedAtEnd, InOrder, SameKey
<1> QED
  BY <1>1, <1>2 DEF MemoryKeeps

LEMMA CloseLockerInv ==
    ASSUME ExecutionInv, NEW i \in Instances, CloseLocker(i) PROVE ExecutionInv'
  BY DEF ExecutionInv, CloseLocker, TypeOK, Leases, HandedOver, LoggedAtEnd, InOrder, SameKey,
         MemoryKeeps

\* What an instance had under way is dead with it, and does not log any more.
LEMMA CrashInv == ASSUME ExecutionInv, NEW i \in Instances, Crash(i) PROVE ExecutionInv'
<1> USE DEF ExecutionInv, Crash
<1>1. TypeOK'
  BY DEF TypeOK, PCs, Under
<1>2. /\ \A y \in Runs : \/ pc'[y] = pc[y]
                         \/ pc'[y] = "dead" /\ pc[y] \notin {"new", "done", "dead"}
      /\ \A y \in Runs : pc'[y] # "dead" => (y \in held' <=> y \in held)
      /\ held' \subseteq held
  <2>1. ASSUME NEW y \in Runs, y \in Under(i)
        PROVE  pc'[y] = "dead" /\ pc[y] \notin {"new", "done", "dead"}
    BY <2>1 DEF Under
  <2>2. ASSUME NEW y \in Runs, y \notin Under(i) PROVE pc'[y] = pc[y] /\ (y \in held' <=> y \in held)
    BY <2>2
  <2>3. held' \subseteq held
    OBVIOUS
  <2> QED
    BY <2>1, <2>2, <2>3, Zenon
<1>3. \A p \in DOMAIN grants : grants[p] \in Runs
  BY DEF TypeOK
<1>4. \A m \in DOMAIN logs : logs[m] \in Runs
  BY DEF TypeOK
<1>5. Leases'
  BY <1>2, <1>3 DEF Leases, Granted, Working
<1>6. HandedOver' /\ LoggedAtEnd' /\ InOrder'
  BY <1>2, <1>3, <1>4 DEF HandedOver, LoggedAtEnd, InOrder, SameKey
<1> QED
  BY <1>1, <1>5, <1>6 DEF MemoryKeeps

\* Every step preserves the invariant.
LEMMA StepInv == ExecutionInv /\ [Next]_vars => ExecutionInv'
<1> SUFFICES ASSUME ExecutionInv, [Next]_vars PROVE ExecutionInv'
  OBVIOUS
<1>1. CASE \E x \in Runs, j \in Jobs, i \in Instances, b \in BOOLEAN : Trigger(x, j, i, b)
  BY <1>1, TriggerInv
<1>2. CASE \E x \in Runs : Advance(x) \/ Expire(x)
  BY <1>2, PrepareInv, AcquireInv, BodyInv, LogInv, ReleaseInv, ExpireInv DEF Advance
<1>3. CASE \E i \in Instances : CloseLocker(i) \/ Crash(i)
  BY <1>3, CloseLockerInv, CrashInv
<1>4. CASE UNCHANGED vars
  BY <1>4 DEF vars, ExecutionInv, TypeOK, Leases, HandedOver, LoggedAtEnd, InOrder, SameKey,
              MemoryKeeps
<1> QED
  BY <1>1, <1>2, <1>3, <1>4 DEF Next

-----------------------------------------------------------------------------
\* The invariant holds in every behaviour, fair or not.
THEOREM ExecutionInvariant == Spec => []ExecutionInv
  BY InitInv, StepInv, PTL DEF Spec

\* Type correctness.
THEOREM TypeCorrect == Spec => []TypeOK
<1>1. ExecutionInv => TypeOK
  BY DEF ExecutionInv
<1> QED
  BY <1>1, ExecutionInvariant, PTL

\* Of two executions that work under one key one has lost its lease: the later
\* grant followed the end of the earlier lease.
THEOREM NoOverlapUnlessLost == Spec => []OverlapOnlyAfterLoss
<1>1. ExecutionInv => OverlapOnlyAfterLoss
  <2> SUFFICES ASSUME ExecutionInv, NEW x \in Runs, NEW y \in Runs, x # y,
                      Running(x), Running(y), SameKey(x, y), x \notin lost, y \notin lost
               PROVE  FALSE
    BY DEF OverlapOnlyAfterLoss
  <2>1. x \in held /\ y \in held
    BY DEF ExecutionInv, Leases, Working, Running
  <2>2. PICK p \in DOMAIN grants : grants[p] = x
    BY DEF ExecutionInv, Leases, Working, Running
  <2>3. PICK q \in DOMAIN grants : grants[q] = y
    BY DEF ExecutionInv, Leases, Working, Running
  <2>4. p \in Nat /\ q \in Nat /\ p # q
    BY <2>2, <2>3 DEF ExecutionInv, TypeOK
  <2>5. SameKey(y, x)
    BY DEF SameKey
  <2> QED
    BY <2>1, <2>2, <2>3, <2>4, <2>5 DEF ExecutionInv, HandedOver
<1> QED
  BY <1>1, ExecutionInvariant, PTL

\* Without Redis two executions of a job never overlap within an instance: a lease
\* of this mode has no expiry.
THEOREM MemoryExcludes ==
    Spec => [](~shared => \A x, y \in Runs :
                   Running(x) /\ Running(y) /\ job[x] = job[y] /\ inst[x] = inst[y] => x = y)
<1>1. ExecutionInv /\ OverlapOnlyAfterLoss =>
          (~shared => \A x, y \in Runs :
               Running(x) /\ Running(y) /\ job[x] = job[y] /\ inst[x] = inst[y] => x = y)
  BY DEF ExecutionInv, MemoryKeeps, OverlapOnlyAfterLoss, SameKey
<1> QED
  BY <1>1, ExecutionInvariant, NoOverlapUnlessLost, PTL

\* The JOB_LOG stream has the logs of a job in the order in which its executions got
\* their leases, as long as they kept them to the end.
THEOREM LogsInOrderOfGrants == Spec => []LogsFollowGrants
<1>1. ExecutionInv => LogsFollowGrants
  <2> SUFFICES ASSUME ExecutionInv,
                      NEW m \in DOMAIN logs, NEW n \in DOMAIN logs, m < n,
                      SameKey(logs[m], logs[n]), {logs[m], logs[n]} \subseteq ToSet(grants),
                      {logs[m], logs[n]} \cap lost = {}
               PROVE  SelectInSeq(grants, LAMBDA g : g = logs[m])
                        < SelectInSeq(grants, LAMBDA g : g = logs[n])
    BY DEF LogsFollowGrants
  <2>1. PICK p \in DOMAIN grants : grants[p] = logs[m]
    BY DEF ToSet
  <2>2. PICK q \in DOMAIN grants : grants[q] = logs[n]
    BY DEF ToSet
  <2>3. p < q
    BY <2>1, <2>2 DEF ExecutionInv, InOrder
  <2>4. /\ {i \in 1..Len(grants) : grants[i] = logs[m]} = {p}
        /\ Min({i \in 1..Len(grants) : grants[i] = logs[m]}) = p
        /\ {i \in 1..Len(grants) : grants[i] = logs[n]} = {q}
        /\ Min({i \in 1..Len(grants) : grants[i] = logs[n]}) = q
    <3>1. grants \in Seq(Runs) /\ \A k, l \in DOMAIN grants : grants[k] = grants[l] => k = l
      BY DEF ExecutionInv, TypeOK, Leases
    <3> QED
      BY <2>1, <2>2, <3>1, OnlyPlace
  <2> QED
    BY <2>3, <2>4 DEF SelectInSeq
<1> QED
  BY <1>1, ExecutionInvariant, PTL

\* However it ends, an execution is logged at most once.
THEOREM LoggedOnce == Spec => [](\A m, n \in DOMAIN logs : logs[m] = logs[n] => m = n)
<1>1. ExecutionInv => \A m, n \in DOMAIN logs : logs[m] = logs[n] => m = n
  BY DEF ExecutionInv, LoggedAtEnd
<1> QED
  BY <1>1, ExecutionInvariant, PTL
=============================================================================
